--------------------------- MODULE NativeAddresses ---------------------------
(***************************************************************************)
(* ipv4_address and unix_address: an address whose bytes are read and      *)
(* written as a sockaddr_in or a sockaddr_un.  The bytes are modelled as   *)
(* cells: the family, then the port and the host, or the characters of the *)
(* path, which lie over both.  They survive clear, shrinking, copies over  *)
(* them and the accept or local_address that is given the object, so those *)
(* of one name may end up in the next.  Sdo models where they are stored.  *)
(***************************************************************************)
EXTENDS Naturals, SequencesExt

CONSTANTS Address,   \* objects
          Byte,      \* how many values a port, a host and a character have
          PathMax,   \* sizeof(sun_path)
          SdoSize,   \* address::c_sdoSize
          Ports,     \* arguments of set_port
          Junk       \* the value of memory never written

\* Cells of a sockaddr_in, which are also those of a sockaddr, and of a
\* sockaddr_un.
SizeofIn == 3
SizeofUn == 1 + PathMax

ASSUME NativeAddressesAssumption ==
  /\ Byte \in Nat /\ Byte > 1
  /\ PathMax \in Nat /\ SdoSize \in SizeofIn..PathMax
  /\ Ports \subseteq Nat
  /\ Junk \notin Nat

UNSPEC == 0
UNIX == 1
INET == 2

VARIABLES class,  \* of each object
          size,
          cells,  \* all cells of its array, those beyond the size included
          given   \* the name it should show

vars == <<class, size, cells, given>>

Cell == 0..(Byte - 1) \cup {UNSPEC, UNIX, INET, Junk}
Path == BoundedSeq(0..(Byte - 1), PathMax)

\* The bytes before the terminator.
Text(s) ==
  LET nul == SelectInSeq(s, LAMBDA c : c = 0)
  IN  IF nul = 0 THEN s ELSE SubSeq(s, 1, nul - 1)

InName(port, host) == [family |-> INET, port |-> port, host |-> host]
UnName(path) == [family |-> UNIX, path |-> Text(path)]
\* Of an object that is to show no name, or none in particular.
Empty == [family |-> UNSPEC]
Unknown == [family |-> Junk]

\* The members have their types, every field a value of its width, and no
\* object is larger than its array.
TypeOK ==
  /\ class \in [Address -> {"ipv4_address", "unix_address"}]
  /\ size \in [Address -> {0} \cup SizeofIn..SizeofUn]
  /\ \A o \in Address :
       /\ Len(cells[o]) \in SdoSize..SizeofUn /\ size[o] <= Len(cells[o])
       /\ \A i \in DOMAIN cells[o] :
            cells[o][i] \in IF i = 1 THEN Cell ELSE 0..(Byte - 1) \cup {Junk}

-----------------------------------------------------------------------------
(* The array below: mem::sdo *)

Fresh == [i \in 1..SdoSize |-> 0]

\* The cells after resize(n) or reserve(n): a larger array has none of the old.
Sized(c, n) == IF n <= Len(c) THEN c ELSE [i \in 1..n |-> Junk]

\* The cells c with s over those from i on.
Put(c, i, s) ==
  [j \in DOMAIN c |-> IF j >= i /\ j < i + Len(s) THEN s[j - i + 1] ELSE c[j]]

Become(o, cl, n, c, name) ==
  /\ class' = [class EXCEPT ![o] = cl]
  /\ size' = [size EXCEPT ![o] = n]
  /\ cells' = [cells EXCEPT ![o] = c]
  /\ given' = [given EXCEPT ![o] = name]

Change(o, n, c, name) == Become(o, class[o], n, c, name)

-----------------------------------------------------------------------------
(* Fields *)

\* Defect: the port is not cut to the width of its field.
PortCellMutantWide(port) == port

\* htons
PortCell(port) == port % Byte

\* Defect: the characters are copied without what ends them.
PathCellsMutantUnpadded(path) == Text(path)

\* strncpy
PathCells(path) ==
  [i \in 1..PathMax |-> IF i <= Len(Text(path)) THEN path[i] ELSE 0]

\* Defect: a string that is no address becomes 0.0.0.0.
HostCellMutantAny(c, family, host) == IF host < Byte THEN host ELSE 0

\* inet_pton: it leaves the field alone unless it can read the string.  Byte
\* stands for the strings that are no IPv4 address.
HostCell(c, family, host) ==
  IF family = INET /\ host < Byte THEN host ELSE c[3]

-----------------------------------------------------------------------------
(* Construction, in place of the object that was there before *)

InitialName(port, host) == InName(port, IF host < Byte THEN host ELSE 0)

\* Both constructors of ipv4_address; the first is that of port and host 0.
NewIpv4(o, port, host) ==
  Become(o, "ipv4_address", SizeofIn,
         Put(Fresh, 1, <<INET, PortCell(port), HostCell(Fresh, INET, host)>>),
         InitialName(port, host))

\* A path that is too long leaves an object without one.
NewUnix(o, path) ==
  LET c == Put(Sized(Fresh, SizeofUn), 1, <<UNIX>>)
  IN  IF Len(path) > PathMax
      THEN Become(o, "unix_address", SizeofUn, c, Unknown)
      ELSE Become(o, "unix_address", SizeofUn, Put(c, 2, PathCells(path)),
                  UnName(path))

Init ==
  /\ class = [o \in Address |-> "ipv4_address"]
  /\ size = [o \in Address |-> SizeofIn]
  /\ cells = [o \in Address |-> Put(Fresh, 1, <<INET>>)]
  /\ given = [o \in Address |-> InName(0, 0)]

-----------------------------------------------------------------------------
(* The setters.  On an object too small for its class, one that was cleared, *)
(* say, they write where there is no memory of it: that is not modelled.     *)

SetPort(o, port) ==
  /\ class[o] = "ipv4_address" /\ size[o] >= SizeofIn
  /\ Change(o, size[o], Put(cells[o], 2, <<PortCell(port)>>),
            IF given[o].family = INET THEN [given[o] EXCEPT !.port = port]
                                      ELSE Unknown)

SetAddress(o, host) ==
  /\ class[o] = "ipv4_address" /\ size[o] >= SizeofIn
  /\ \E family \in IF cells[o][1] = Junk THEN {UNIX, INET} ELSE {cells[o][1]} :
       Change(o, size[o], Put(cells[o], 3, <<HostCell(cells[o], family, host)>>),
              IF given[o].family = INET /\ host < Byte
              THEN [given[o] EXCEPT !.host = host]
              ELSE given[o])

\* It returns false, and changes nothing, if the path is too long.
SetPath(o, path) ==
  /\ class[o] = "unix_address" /\ size[o] >= SizeofUn
  /\ Len(path) <= PathMax
  /\ Change(o, size[o], Put(cells[o], 2, PathCells(path)),
            IF cells[o][1] = UNIX THEN UnName(path) ELSE Unknown)

-----------------------------------------------------------------------------
(* What an object has as an address *)

\* Defect: only the family is forgotten.
ClearMutantFamily(o) ==
  Change(o, size[o], Put(cells[o], 1, <<UNSPEC>>), Empty)

Clear(o) == Change(o, 0, cells[o], Empty)

NameSize(name) ==
  CASE name.family = INET -> SizeofIn
    [] name.family = UNIX -> Min({2 + Len(name.path), SizeofUn})
    [] OTHER -> 0

\* resize by a caller, or by an accept that fails after it.  The name stays if
\* it is there and still has room.
Resize(o, n) ==
  Change(o, n, Sized(cells[o], n),
         IF n <= Len(cells[o]) /\ NameSize(given[o]) \in 1..n
         THEN given[o] ELSE Unknown)

\* reserve keeps the size, but no cell if the array has to grow.
Reserve(o, n) ==
  Change(o, size[o], Sized(cells[o], n),
         IF n <= Len(cells[o]) \/ given[o] = Empty THEN given[o] ELSE Unknown)

\* accept or local_address puts the name of a socket into the object.
NameCells(name) ==
  IF name.family = INET THEN <<INET, name.port, name.host>>
                        ELSE <<UNIX>> \o name.path \o <<0>>

SocketName ==
  {InName(p, h) : p, h \in 0..(Byte - 1)} \cup
  {UnName(s) : s \in {t \in Path : Len(Text(t)) \in 1..(PathMax - 1)}}

Fill(o, name) ==
  LET n == NameSize(name)
  IN  Change(o, n, Put(Sized(cells[o], n), 1, NameCells(name)), name)

\* A copy of p over an array with the cells c.
CopyOver(o, cl, c, p) ==
  Become(o, cl, size[p],
         Put(Sized(c, size[p]), 1, SubSeq(cells[p], 1, size[p])), given[p])

\* p's array becomes o's.  What a move leaves in p is not relied on.
Swap(o, cl, n, c, p) ==
  /\ class' = [class EXCEPT ![o] = cl]
  /\ size' = [size EXCEPT ![o] = size[p], ![p] = n]
  /\ cells' = [cells EXCEPT ![o] = cells[p],
                            ![p] = [i \in DOMAIN c |-> Junk]]
  /\ given' = [given EXCEPT ![o] = given[p],
                            ![p] = IF n = 0 THEN Empty ELSE Unknown]

\* Assignment, through references to address perhaps, or construction.
Copy(o, p) ==
  /\ o # p
  /\ \/ CopyOver(o, class[o], cells[o], p)
     \/ CopyOver(o, class[p], Fresh, p)

Move(o, p) ==
  /\ o # p
  /\ Len(cells[p]) > SdoSize
  /\ \/ Swap(o, class[o], size[o], cells[o], p)
     \/ Swap(o, class[p], 0, Fresh, p)

Host == 0..Byte
LongPath == [i \in 1..(PathMax + 1) |-> 1]

Next ==
  \E o \in Address :
    \/ \E port \in Ports : SetPort(o, port)
    \/ \E port \in Ports \cup {0}, host \in Host : NewIpv4(o, port, host)
    \/ \E host \in Host : SetAddress(o, host)
    \/ \E path \in Path \cup {LongPath} : NewUnix(o, path) \/ SetPath(o, path)
    \/ Clear(o)
    \/ \E n \in {SizeofIn, SizeofUn} : Resize(o, n) \/ Reserve(o, n)
    \/ \E name \in SocketName : Fill(o, name)
    \/ \E p \in Address : Copy(o, p) \/ Move(o, p)

Spec == Init /\ [][Next]_vars

-----------------------------------------------------------------------------
(* Accessors and properties *)

family(o) == IF size[o] # 0 THEN cells[o][1] ELSE UNSPEC

host_of(o) == cells[o][3]
port_of(o) == cells[o][2]

\* path() when its assertion holds; without a terminator it reads on.
path_of(o) == Text(SubSeq(cells[o], 2, SizeofUn))
Terminated(o) == \E i \in 2..SizeofUn : cells[o][i] = 0

\* The comparison with nullptr, by which connect decides whether to bind
\* (connected_socket.cpp:47): an address that was given a name has its family,
\* one that was cleared has none, whatever its array held and holds.
FamilyShown ==
  \A o \in Address : given[o] # Unknown => family(o) = given[o].family

\* address() and port() give the last host and port, which may have been set
\* together or apart, by setters some of which failed, by an accept or by a
\* copy or a move, with other names in the same bytes before.  Of a port only
\* the low bits are kept.
Ipv4Shown ==
  \A o \in Address :
    given[o].family = INET =>
      /\ size[o] >= SizeofIn
      /\ host_of(o) = given[o].host
      /\ port_of(o) = given[o].port % Byte

\* path() gives the last path, up to its first NUL, without the tail of a
\* longer one before it, and finds its end, unless it is as long as sun_path.
PathShown ==
  \A o \in Address :
    given[o].family = UNIX /\ size[o] >= SizeofUn =>
      /\ path_of(o) = given[o].path
      /\ Terminated(o) \/ Len(given[o].path) = PathMax
=============================================================================

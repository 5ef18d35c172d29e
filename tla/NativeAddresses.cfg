SPECIFICATION Spec
CONSTANTS
  Address = {a1, a2}
  Byte = 2
  PathMax = 3
  SdoSize = 3
  Ports = {1, 2}
  Junk = Junk
SYMMETRY Symmetry
INVARIANTS
  TypeOK
  FamilyShown
  Ipv4Shown
  PathShown

SPECIFICATION Spec
CONSTANTS
  a1 = a1
  a2 = a2
  a3 = a3
  a4 = a4
  a5 = a5
  b1 = b1
  s1 = s1
  s2 = s2
  Null = Null
  Free = Free
  Addrs <- Six
  Sets = {s1, s2}
  SetOf <- SetOfSix
  Depth = 2
  Perms = {"Invalid", "Read_Write"}
  Contexts = {c1}
INVARIANTS
  TypeOK
  TagIndexExact
  RecentSafe
PROPERTIES
  ImplementsLines
SYMMETRY Same

CONSTANTS
  c1 = c1  c2 = c2  a = a  b = b
  NoName = NoName
  Caller = {c1, c2}
  Name = {a, b}
  PortMin = 1
  PortMax = 2
  Asked = {0, 2, 3}
  Env = {"omit", "portless", "fail"}
SPECIFICATION Spec
SYMMETRY Symmetry
INVARIANTS TypeOK ClashNeedsRace ReplacesOnlyUnseen

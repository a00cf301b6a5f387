CONSTANTS
  c1 = c1  c2 = c2  a = a  b = b
  NoName = NoName
  Caller = {c1}
  Name = {a, b}
  PortMin = 1
  PortMax = 3
  Asked = {0}
  Env = {"pending"}
SPECIFICATION Spec
INVARIANT PortsDisjoint

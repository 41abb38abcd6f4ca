SPECIFICATION Spec
CONSTANTS
  a = a
  b = b
  x = x
  y = y
  z = z
  None = None
  Names = {a, b}
  Addrs = {x, y, z}
  Inet = {x, y}
  MaxEdits = 2
INVARIANTS TypeOK ListenersMatch UnixServed
PROPERTY Converges

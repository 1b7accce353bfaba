SPECIFICATION Spec
CONSTANTS
  Users = {u1}
  Passwords = {p1, p2}
  Handlers = {h1, h2}
  MaxSecond = 2
  RefreshLife = 2
  AccessLife = 1
  NULL = NULL
SYMMETRY RequestSymmetry
INVARIANTS
  TypeOK
  OneLiveToken
  PasswordEndsSessions
  SuspendedHasNoSession
PROPERTIES
  ChainIsKept
  ImplementsSessionLife

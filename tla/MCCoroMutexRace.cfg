CONSTANTS
  Clients = {c1, c2, c3}
  Null = Null
  Doorman = Doorman
  Dead = Dead
  Overtaking = TRUE
SPECIFICATION Spec
INVARIANT MutualExclusion

SPECIFICATION Spec
CONSTANTS
  c1 = c1
  c2 = c2
  Callers = {c1, c2}
  Kinds <- MCKinds
  Importers = {i1}
  MaxTickets = 2
INVARIANTS GrantKept DeathIsReal OperatorOffKept
PROPERTIES RevocationStands
CHECK_DEADLOCK FALSE

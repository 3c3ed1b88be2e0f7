SPECIFICATION Spec
CONSTANTS
  a1 = a1
  c1 = c1
  c2 = c2
  c3 = c3
  r1 = r1
  r2 = r2
  r3 = r3
  Accounts = {a1}
  Conversations = {c1, c2, c3}
  Requests = {r1, r2, r3}
  MaxSessions <- MCMaxSessions
  Idle = 2
  MaxTime = 6
  NoSeat = noseat
SYMMETRY Symmetry
INVARIANTS ConversationsWithinCap OpenConversationStays
CHECK_DEADLOCK FALSE

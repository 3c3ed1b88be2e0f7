SPECIFICATION Spec
CONSTANTS
  k1 = k1
  k2 = k2
  user = user
  r1 = r1
  r2 = r2
  r3 = r3
  m1 = m1
  m2 = m2
  ApiKeyIds = {k1, k2}
  OwnerOf <- MCOwnerOf
  UserCap <- MCUserCap
  Caps <- MCCaps
  Quotas <- MCQuotas
  RequestQuota <- MCRequestQuota
  Administered = {k1}
  MaxSpend = 1
  Models = {m1, m2}
  Endpoints = {1, 2}
  Serves <- MCServes
  EndpointKeys <- MCEndpointKeys
  Uncooled = {1}
  Switchable = {1}
  NoPick = nopick
  Wrap = 2
  Requests = {r1, r2, r3}
  KeyOf <- MCKeyOf
  ModelOf <- MCModelOf
  Pool = pool
INVARIANTS InflightExact UserWithinCap NoStuckExhaustion DisabledStays
PROPERTIES RoundRobin
CHECK_DEADLOCK FALSE

---------------------------- MODULE ApiScheduler ----------------------------
(* The picker of upstream API endpoints (src/src/lib/pool/api-scheduler.mjs): *)
(* round robin over the endpoints that serve the model, by priority, then     *)
(* over the ready keys of the endpoint.  One parent cursor serves all models. *)
(* Endpoints are numbered in the order of their priority, upstream keys in    *)
(* the order of api_key_entries.                                              *)
EXTENDS Naturals, FiniteSets

CONSTANTS
  Models,
  Endpoints,
  Serves,        \* the endpoints that serve each model
  EndpointKeys,  \* api_key_entries of each endpoint
  Uncooled,      \* endpoints with disable_cooling
  Switchable,    \* endpoints the operator switches on and off
  NoPick,
  Wrap           \* a common multiple of the numbers of keys (bound)

UpstreamKeys == UNION {EndpointKeys[e] : e \in Endpoints}

ASSUME SchedulerAssumption ==
  /\ Endpoints \subseteq Nat /\ IsFiniteSet(Endpoints) /\ Serves \in [Models -> SUBSET Endpoints]
  /\ Uncooled \subseteq Endpoints /\ Switchable \subseteq Endpoints /\ Wrap \in Nat \ {0}
  /\ \A e \in Endpoints : /\ EndpointKeys[e] \subseteq Nat /\ IsFiniteSet(EndpointKeys[e])
                          /\ EndpointKeys[e] # {} /\ Wrap % Cardinality(EndpointKeys[e]) = 0
  /\ NoPick \notin [endpoint : Endpoints, key : UpstreamKeys]
  /\ NoPick \notin [model : Models, endpoint : Endpoints]

VARIABLES
  offline,       \* endpoints with disabled set
  cooled,        \* upstream keys whose cooldown_until is ahead
  parentCursor,
  childCursor,   \* of each endpoint, modulo Wrap
  last           \* history: the latest pick, since the endpoints changed

schedulerVars == <<offline, cooled, parentCursor, childCursor, last>>

InitScheduler ==
  /\ offline = {} /\ cooled = {}
  /\ parentCursor = 0 /\ childCursor = [e \in Endpoints |-> 0]
  /\ last = NoPick

-----------------------------------------------------------------------------

(* The place of x in a list with the elements of S.                           *)
Turn(S, x) == Cardinality({y \in S : y < x})

Parents(m) == {e \in Serves[m] : e \notin offline}

(* keyReady                                                                   *)
ReadyKeys(e) == {u \in EndpointKeys[e] : e \in Uncooled \/ u \notin cooled}

(* The endpoints that could serve the model now.                              *)
Ready(m) == {e \in Parents(m) : ReadyKeys(e) # {}}

Start(m) == parentCursor % Cardinality(Parents(m))

(* off: how many endpoints the loop has passed when it comes to e             *)
Offset(m, e) ==
  LET n == Cardinality(Parents(m)) IN (Turn(Parents(m), e) + n - Start(m)) % n

(* mutant: the cursor moves one step, not past the endpoint that was taken    *)
NextOfStart(m, off) == Start(m) + 1

NextParent(m, off) == Start(m) + off + 1

(* pick: what it returns, and the cursors it leaves                           *)
Pick(m, picked) ==
  \/ Ready(m) = {} /\ picked = NoPick /\ UNCHANGED schedulerVars
  \/ \E e \in Ready(m) :
       /\ \A x \in Ready(m) : Offset(m, e) <= Offset(m, x)
       /\ \E u \in ReadyKeys(e) :
            /\ Turn(ReadyKeys(e), u) = childCursor[e] % Cardinality(ReadyKeys(e))
            /\ picked = [endpoint |-> e, key |-> u]
       /\ parentCursor' = NextParent(m, Offset(m, e))
       /\ childCursor' = [childCursor EXCEPT ![e] = (@ + 1) % Wrap]
       /\ last' = [model |-> m, endpoint |-> e]
       /\ UNCHANGED <<offline, cooled>>

(* A 429 cools the key, unless its endpoint does not cool.                    *)
Cool(p) ==
  /\ cooled' = IF p.endpoint \in Uncooled THEN cooled ELSE cooled \cup {p.key}
  /\ UNCHANGED <<offline, parentCursor, childCursor, last>>

CoolingEnds ==
  /\ \E u \in cooled : cooled' = cooled \ {u}
  /\ UNCHANGED <<offline, parentCursor, childCursor, last>>

(* The panel switches an endpoint; reload keeps the cursors.                  *)
SwitchEndpoint ==
  /\ \E e \in Switchable : offline' = IF e \in offline THEN offline \ {e} ELSE offline \cup {e}
  /\ last' = NoPick
  /\ UNCHANGED <<cooled, parentCursor, childCursor>>
=============================================================================

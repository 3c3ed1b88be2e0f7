------------------------------ MODULE ApiGateway ------------------------------
(* A request with a managed key: requireAuth (src/src/server.mjs), then the   *)
(* body is read, then the handler acquires the key, runs the request on the   *)
(* backend of the key (handle-protocol.mjs: an upstream API endpoint through  *)
(* api-protocol.mjs, or the account pool), releases the key and charges it.   *)
EXTENDS ApiKeys, ApiScheduler

CONSTANTS
  Requests,
  KeyOf,         \* the key each request presents
  ModelOf,       \* the model it asks for, or Pool
  Pool           \* served by the account pool

ASSUME GatewayAssumption ==
  /\ IsFiniteSet(Requests) /\ Pool \notin Models
  /\ KeyOf \in [Requests -> ApiKeyIds] /\ ModelOf \in [Requests -> Models \cup {Pool}]

VARIABLES
  pc,          \* where each request is
  record,      \* max_concurrency of req.apiKeyRecord, the row it was authenticated with
  pick         \* the endpoint and key it was sent to

requestVars == <<pc, record, pick>>
vars == <<keyVars, schedulerVars, requestVars>>

Init ==
  /\ InitKeys /\ InitScheduler
  /\ pc = [r \in Requests |-> "idle"]
  /\ record = [r \in Requests |-> 0]
  /\ pick = [r \in Requests |-> NoPick]

Goto(r, where) == pc' = [pc EXCEPT ![r] = where]

Forget(r) == record' = [record EXCEPT ![r] = 0] /\ pick' = [pick EXCEPT ![r] = NoPick]

-----------------------------------------------------------------------------

(* requireAuth: the key is looked up and the gate asked.  A key that has      *)
(* spent MaxSpend gets no more requests (bound).                              *)
Authenticate(r) ==
  LET k == KeyOf[r] IN
  /\ pc[r] = "idle" /\ k \in exists /\ row[k].spent < MaxSpend /\ row[k].requests < MaxSpend
  /\ InOrder(k, row[k]) /\ HasRoom(k, row[k].maxc)
  /\ Goto(r, "authed") /\ record' = [record EXCEPT ![r] = row[k].maxc]
  /\ UNCHANGED <<keyVars, schedulerVars, pick>>

(* The body has been read: acquire asks the gate again with the old record,   *)
(* which is as much in order as it was; only the counts are new.  Up to the   *)
(* first byte sent upstream nothing else runs.                                *)
Acquire(r) ==
  /\ pc[r] = "authed" /\ HasRoom(KeyOf[r], record[r])
  /\ inflight' = Acquired(KeyOf[r]) /\ UNCHANGED <<exists, row, banned>>
  /\ IF ModelOf[r] = Pool
     THEN Goto(r, "running") /\ UNCHANGED <<schedulerVars, pick>>
     ELSE \E p \in [endpoint : Endpoints, key : UpstreamKeys] \cup {NoPick} :
            /\ Pick(ModelOf[r], p) /\ pick' = [pick EXCEPT ![r] = p]
            /\ Goto(r, IF p = NoPick THEN "failing" ELSE "running")
  /\ record' = [record EXCEPT ![r] = 0]

(* The gate refuses: by the counts, or by the clock; or the client has gone.  *)
Refuse(r) ==
  /\ pc[r] = "authed" /\ Goto(r, "idle") /\ Forget(r)
  /\ UNCHANGED <<keyVars, schedulerVars>>

(* The upstream endpoint answers 429.                                         *)
RateLimited(r) ==
  /\ pc[r] = "running" /\ pick[r] # NoPick
  /\ Cool(pick[r]) /\ Goto(r, "failing")
  /\ UNCHANGED <<keyVars, record, pick>>

(* Any other failure of the run, an exception included.                       *)
RunFails(r) ==
  /\ pc[r] = "running" /\ Goto(r, "failing")
  /\ UNCHANGED <<keyVars, schedulerVars, record, pick>>

(* The finally of the handler, then recordUsage.  A success is charged; a     *)
(* failed run of the pool too, for the usage there is, when an account was    *)
(* asked.  A stream from an API endpoint comes back without usage and is      *)
(* charged nothing.                                                           *)
Costs == {0, 1}

Charges(r) == pc[r] = "running" \/ ModelOf[r] = Pool

Finish(r) ==
  /\ pc[r] \in {"running", "failing"}
  /\ inflight' = Released(KeyOf[r], pc[r] = "running")
  /\ \/ Charges(r) /\ \E cost \in Costs : row' = Charged(KeyOf[r], cost)
     \/ pc[r] = "failing" /\ row' = row
  /\ Goto(r, "idle") /\ Forget(r)
  /\ UNCHANGED <<exists, banned, schedulerVars>>

Next ==
  \/ \E r \in Requests :
       Authenticate(r) \/ Acquire(r) \/ Refuse(r) \/ RateLimited(r) \/ RunFails(r) \/ Finish(r)
  \/ Administer /\ UNCHANGED <<schedulerVars, requestVars>>
  \/ (CoolingEnds \/ SwitchEndpoint) /\ UNCHANGED <<keyVars, requestVars>>

Spec == Init /\ [][Next]_vars

-----------------------------------------------------------------------------
(* Properties.                                                                *)

(* Every variable has its type.                                               *)
TypeOK ==
  /\ exists \subseteq ApiKeyIds /\ row \in [ApiKeyIds -> Row]
  /\ inflight \in [ApiKeyIds -> Nat] /\ banned \in [ApiKeyIds -> BOOLEAN]
  /\ offline \subseteq Endpoints /\ cooled \subseteq UpstreamKeys
  /\ parentCursor \in Nat /\ childCursor \in [Endpoints -> 0..(Wrap - 1)]
  /\ pc \in [Requests -> {"idle", "authed", "running", "failing"}]
  /\ record \in [Requests -> Nat]
  /\ pick \in [Requests -> [endpoint : Endpoints, key : UpstreamKeys] \cup {NoPick}]
  /\ \A r \in Requests : pick[r] # NoPick => pick[r].key \in EndpointKeys[pick[r].endpoint]
  /\ last \in [model : Models, endpoint : Endpoints] \cup {NoPick}

Holding(k) == {r \in Requests : KeyOf[r] = k /\ pc[r] \in {"running", "failing"}}

(* The count of a key is the number of its requests that are running, however *)
(* they end, until the key is removed.                                        *)
InflightExact == \A k \in exists : inflight[k] = Cardinality(Holding(k))

(* The requests running on the keys a user has, removed keys left out, never  *)
(* exceed the user's cap: the gate is asked twice, both times with the row    *)
(* of the key as authentication read it, and other requests run in between.   *)
UserWithinCap ==
  \A k \in exists :
    UserCap[OwnerOf[k]] > 0 =>
      Cardinality({r \in Requests : /\ KeyOf[r] \in exists /\ OwnerOf[KeyOf[r]] = OwnerOf[k]
                                   /\ pc[r] \in {"running", "failing"}}) <= UserCap[OwnerOf[k]]

(* Two picks in a row for one model take different endpoints whenever two are *)
(* ready at the second, whoever cooled a key or freed one in between, as long *)
(* as the panel has not changed the endpoints. A pick for another model in    *)
(* between moves the shared cursor and ends the row (ApiScheduler.pick).      *)
RoundRobin ==
  [][\A r \in Requests :
       /\ pick[r] = NoPick /\ pick'[r] # NoPick
       /\ last # NoPick /\ last.model = ModelOf[r] /\ Cardinality(Ready(ModelOf[r])) > 1
       => pick'[r].endpoint # last.endpoint]_vars
=============================================================================

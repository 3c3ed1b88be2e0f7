------------------------------- MODULE ApiKeys -------------------------------
(* The managed API keys (src/src/lib/admin/api-keys.mjs): the row of each key *)
(* in the database, the count of its requests in flight in memory, and what   *)
(* authentication, the panel and the end of a request do to them.  A request  *)
(* keeps the row it was authenticated with; everything else is read anew.     *)
(* Expiry, requests per minute and the spend windows depend on the clock: the *)
(* gate may refuse on their account at any time.                              *)
EXTENDS Naturals, FiniteSets

CONSTANTS
  ApiKeyIds,     \* the keys; an id is never used again
  OwnerOf,       \* user_id of each key
  UserCap,       \* concurrency of each user, 0 for none
  Caps,          \* values of max_concurrency the operator gives each key, 0 for none
  Quotas,        \* values of quota the operator gives each key, 0 for none
  RequestQuota,  \* quota_requests of each key, 0 for none
  Administered,  \* the keys the panel changes (bound)
  MaxSpend       \* spend at which no more requests arrive (bound)

ASSUME KeysAssumption ==
  /\ IsFiniteSet(ApiKeyIds) /\ Administered \subseteq ApiKeyIds
  /\ Caps \in [ApiKeyIds -> SUBSET Nat] /\ Quotas \in [ApiKeyIds -> SUBSET Nat]
  /\ RequestQuota \in [ApiKeyIds -> Nat] /\ MaxSpend \in Nat
  /\ \A k \in ApiKeyIds : UserCap[OwnerOf[k]] \in Nat

VARIABLES
  exists,      \* the keys that are not removed
  row,         \* status, max_concurrency, quota, quota_used and quota_requests_used
  inflight,    \* inflight: the requests of each key
  banned       \* history: the operator's last word on the key was disabled

keyVars == <<exists, row, inflight, banned>>

Row == [status : {"active", "disabled", "quota_exhausted"}, maxc : Nat, quota : Nat,
        spent : Nat, requests : Nat]

InitKeys ==
  /\ exists = ApiKeyIds
  /\ \E maxc, quota \in [ApiKeyIds -> UNION {Caps[k] \cup Quotas[k] : k \in ApiKeyIds}] :
       /\ \A k \in ApiKeyIds : maxc[k] \in Caps[k] /\ quota[k] \in Quotas[k]
       /\ row = [k \in ApiKeyIds |-> [status |-> "active", maxc |-> maxc[k], quota |-> quota[k],
                                      spent |-> 0, requests |-> 0]]
  /\ inflight = [k \in ApiKeyIds |-> 0]
  /\ banned = [k \in ApiKeyIds |-> FALSE]

-----------------------------------------------------------------------------

OverQuota(w) == w.quota > 0 /\ w.spent >= w.quota

OverRequests(k, w) == RequestQuota[k] > 0 /\ w.requests >= RequestQuota[k]

(* mutant: the user's cap is compared with this key's requests only           *)
OwnKeyInflight(k) == inflight[k]

(* The sum of the counts of the owner's keys, those that still have a row: as *)
(* many as there are pairs of such a key and a number up to its count.        *)
UserInflight(k) ==
  Cardinality(UNION {{x} \X (1..inflight[x]) : x \in {y \in exists : OwnerOf[y] = OwnerOf[k]}})

(* canAccept: the part that looks at the record of the key                    *)
InOrder(k, w) == w.status = "active" /\ ~OverRequests(k, w) /\ ~OverQuota(w)

(* canAccept: the part that looks at the counts, for a record's cap           *)
HasRoom(k, maxc) ==
  /\ maxc > 0 => inflight[k] < maxc
  /\ UserCap[OwnerOf[k]] > 0 => UserInflight(k) < UserCap[OwnerOf[k]]

Acquired(k) == [inflight EXCEPT ![k] = @ + 1]

(* mutant: a request that fails is not released                               *)
ReleasedIfOk(k, ok) == IF ok /\ inflight[k] > 0 THEN [inflight EXCEPT ![k] = @ - 1] ELSE inflight

(* release: an entry that is gone is not counted below zero                   *)
Released(k, ok) == IF inflight[k] > 0 THEN [inflight EXCEPT ![k] = @ - 1] ELSE inflight

(* mutant: every key that is over its quota is flipped                        *)
ExhaustedAlways(w) == IF OverQuota(w) THEN [w EXCEPT !.status = "quota_exhausted"] ELSE w

(* The billing write flips the key when the quota runs out.                   *)
Exhausted(w) ==
  IF w.status = "active" /\ OverQuota(w) THEN [w EXCEPT !.status = "quota_exhausted"] ELSE w

(* recordUsage                                                                *)
Charged(k, cost) ==
  LET w == [row[k] EXCEPT !.spent = @ + cost, !.requests = @ + 1]
  IN  IF k \in exists THEN [row EXCEPT ![k] = Exhausted(w)] ELSE row

(* mutant: the key recovers only by a reset of the counters                   *)
RecoveredOnReset(k, w, reset) ==
  IF w.status = "quota_exhausted" /\ reset THEN [w EXCEPT !.status = "active"] ELSE w

(* The end of update: back from quota_exhausted when under the caps again.    *)
Recovered(k, w, reset) ==
  IF w.status = "quota_exhausted" /\ ~OverQuota(w) /\ ~OverRequests(k, w)
  THEN [w EXCEPT !.status = "active"] ELSE w

-----------------------------------------------------------------------------
(* The panel.                                                                 *)

(* update with a status                                                       *)
SetStatus(k, status) ==
  /\ k \in exists
  /\ row' = [row EXCEPT ![k] = Recovered(k, [@ EXCEPT !.status = status], FALSE)]
  /\ banned' = [banned EXCEPT ![k] = status = "disabled"]
  /\ UNCHANGED <<exists, inflight>>

(* update with max_concurrency, quota or reset_quota                          *)
SetLimits(k, maxc, quota, reset) ==
  /\ k \in exists
  /\ LET w == [row[k] EXCEPT !.maxc = maxc, !.quota = quota]
         v == IF reset THEN [w EXCEPT !.spent = 0, !.requests = 0] ELSE w
     IN  row' = [row EXCEPT ![k] = Recovered(k, v, reset)]
  /\ UNCHANGED <<exists, inflight, banned>>

(* remove forgets the count; requests of the key may still be in flight.      *)
RemoveKey(k) ==
  /\ k \in exists /\ exists' = exists \ {k}
  /\ inflight' = [inflight EXCEPT ![k] = 0]
  /\ UNCHANGED <<row, banned>>

Administer ==
  \E k \in Administered :
    \/ \E status \in {"active", "disabled"} : SetStatus(k, status)
    \/ \E maxc \in Caps[k], quota \in Quotas[k], reset \in BOOLEAN : SetLimits(k, maxc, quota, reset)
    \/ RemoveKey(k)

-----------------------------------------------------------------------------
(* Properties.                                                                *)

(* A key is quota_exhausted only while it is over its quota of spend or of    *)
(* requests: every write that brings it under again also frees it.            *)
NoStuckExhaustion ==
  \A k \in exists :
    row[k].status = "quota_exhausted" => OverQuota(row[k]) \/ OverRequests(k, row[k])

(* A key the operator disabled stays disabled until the operator enables it,  *)
(* whatever is charged to it and however its quota changes meanwhile.         *)
DisabledStays == \A k \in exists : banned[k] => row[k].status = "disabled"
=============================================================================

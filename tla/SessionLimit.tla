---------------------------- MODULE SessionLimit ----------------------------
(* The cap on conversations per account (src/src/lib/pool/session-limit.mjs), *)
(* with the calls the scheduler makes: the quota gate asks canAccept, reserve *)
(* touches the conversation, the end of the request releases it, and every    *)
(* look at the registry prunes what was idle for longer than the window.      *)
EXTENDS Integers, FiniteSets, Functions

CONSTANTS
  Accounts,
  Conversations,   \* session keys
  Requests,
  MaxSessions,     \* max_sessions of each account, 0 for none
  Idle,            \* session_idle_min
  MaxTime,         \* time at which the clock stops (bound)
  NoSeat

ASSUME SessionAssumption ==
  /\ MaxSessions \in [Accounts -> Nat] /\ Idle \in Nat /\ MaxTime \in Nat
  /\ IsFiniteSet(Conversations) /\ NoSeat \notin [account : Accounts, key : Conversations]

VARIABLES
  now,
  bag,       \* byAccount: lastSeen and refs of the conversations of an account
  seat,      \* the account and conversation of each request in flight
  seen,      \* history: when the conversation was last reserved on the account
  pinned     \* history: it came onto the account past the gate

vars == <<now, bag, seat, seen, pinned>>

Entry == [lastSeen : Int, refs : Nat]
Never == -1 - Idle

Init ==
  /\ now = 0
  /\ bag = [a \in Accounts |-> <<>>]
  /\ seat = [r \in Requests |-> NoSeat]
  /\ seen = [a \in Accounts |-> [k \in Conversations |-> Never]]
  /\ pinned = [a \in Accounts |-> {}]

-----------------------------------------------------------------------------

(* The test of prune.                                                         *)
Alive(entry) == entry.lastSeen >= now - Idle

Pruned(a) == Restrict(bag[a], {k \in DOMAIN bag[a] : Alive(bag[a][k])})

(* mutant: the cap also counts against a conversation that is there           *)
AcceptsBelowCap(a, k) == MaxSessions[a] = 0 \/ Cardinality(DOMAIN Pruned(a)) < MaxSessions[a]

(* canAccept                                                                  *)
Accepts(a, k) ==
  \/ MaxSessions[a] = 0 \/ k \in DOMAIN Pruned(a)
  \/ Cardinality(DOMAIN Pruned(a)) < MaxSessions[a]

(* touch                                                                      *)
Touched(b, k) ==
  [x \in DOMAIN b \cup {k} |->
     IF x # k THEN b[x]
     ELSE [lastSeen |-> now, refs |-> IF k \in DOMAIN b THEN b[k].refs + 1 ELSE 1]]

Less(n) == IF n > 0 THEN n - 1 ELSE 0

(* mutant: a conversation leaves with its last request                        *)
LeavesWhenFree(b, k) ==
  IF k \notin DOMAIN b THEN b
  ELSE IF b[k].refs <= 1 THEN Restrict(b, DOMAIN b \ {k})
  ELSE [b EXCEPT ![k].refs = Less(@)]

(* release: the entry stays until it is pruned; one that was pruned meanwhile *)
(* is not put back.                                                           *)
Left(b, k) == IF k \in DOMAIN b THEN [b EXCEPT ![k].refs = Less(@)] ELSE b

-----------------------------------------------------------------------------

(* reserve.  A pinned request skips the gate, and with it the prune, but its  *)
(* conversation is entered all the same.                                      *)
Reserve(r, a, k, skipQuota) ==
  /\ seat[r] = NoSeat
  /\ skipQuota \/ Accepts(a, k)
  /\ LET b == IF skipQuota \/ MaxSessions[a] = 0 THEN bag[a] ELSE Pruned(a)
     IN  bag' = [bag EXCEPT ![a] = Touched(b, k)]
  /\ seat' = [seat EXCEPT ![r] = [account |-> a, key |-> k]]
  /\ seen' = [seen EXCEPT ![a][k] = now]
  /\ pinned' = [pinned EXCEPT ![a] =
                  IF k \in DOMAIN Pruned(a) THEN @ ELSE IF skipQuota THEN @ \cup {k} ELSE @ \ {k}]
  /\ UNCHANGED now

Release(r) ==
  /\ seat[r] # NoSeat
  /\ LET a == seat[r].account IN bag' = [bag EXCEPT ![a] = Left(@, seat[r].key)]
  /\ seat' = [seat EXCEPT ![r] = NoSeat]
  /\ UNCHANGED <<now, seen, pinned>>

(* snapshot, has, or a canAccept that refuses: the panel, the availability    *)
(* check or the gate looks.                                                   *)
Look(a) ==
  /\ bag' = [bag EXCEPT ![a] = Pruned(a)]
  /\ UNCHANGED <<now, seat, seen, pinned>>

Tick ==
  /\ now < MaxTime /\ now' = now + 1
  /\ UNCHANGED <<bag, seat, seen, pinned>>

Next ==
  \/ \E r \in Requests :
       \/ Release(r)
       \/ \E a \in Accounts, k \in Conversations, skipQuota \in BOOLEAN : Reserve(r, a, k, skipQuota)
  \/ \E a \in Accounts : Look(a)
  \/ Tick

Spec == Init /\ [][Next]_vars

-----------------------------------------------------------------------------
(* Properties.                                                                *)

(* Every variable has its type; the count of an entry is never negative, not  *)
(* even when its conversation is pruned and comes back with requests running. *)
TypeOK ==
  /\ now \in 0..MaxTime
  /\ \A a \in Accounts :
       /\ DOMAIN bag[a] \subseteq Conversations
       /\ \A k \in DOMAIN bag[a] : bag[a][k] \in Entry
       /\ pinned[a] \subseteq Conversations
  /\ seat \in [Requests -> [account : Accounts, key : Conversations] \cup {NoSeat}]
  /\ seen \in [Accounts -> [Conversations -> Never..MaxTime]]

Open(a) == {k \in Conversations : now - seen[a][k] <= Idle}

(* The conversations of an account that came through the gate and were active *)
(* within the window are never more than max_sessions, however their requests *)
(* overlap, whatever was pruned while they ran and whoever was pinned beside  *)
(* them.                                                                      *)
ConversationsWithinCap ==
  \A a \in Accounts :
    MaxSessions[a] > 0 => Cardinality(Open(a) \ pinned[a]) <= MaxSessions[a]

(* A conversation that was active within the window is never refused on its   *)
(* account: its place outlives its requests and cannot be taken meanwhile.    *)
OpenConversationStays == \A a \in Accounts : \A k \in Open(a) : Accepts(a, k)
=============================================================================

------------------------- MODULE SessionLimitProofs -------------------------
(* Machine-checked theorems about SessionLimit, for any accounts, finitely    *)
(* many conversations, any requests, caps, window and length of time.         *)
EXTENDS SessionLimit, FiniteSetTheorems, TLAPS

-----------------------------------------------------------------------------
(* The inductive invariant.                                                   *)

(* The registry is a map of the accounts.                                     *)
Shape == bag = [a \in Accounts |-> bag[a]] /\ pinned \in [Accounts -> SUBSET Conversations]

(* An entry has the time of its latest reservation, and a conversation that   *)
(* was active within the window has an entry.  What is pruned and what is     *)
(* not is then settled by the history alone.                                  *)
Agrees ==
  \A a \in Accounts, k \in Conversations :
    /\ k \in DOMAIN bag[a] => bag[a][k].lastSeen = seen[a][k]
    /\ k \in Open(a) => k \in DOMAIN bag[a]

IInv == TypeOK /\ Shape /\ Agrees /\ ConversationsWithinCap

-----------------------------------------------------------------------------
(* The operators of the model.                                                *)

LEMMA Numbers == MaxSessions \in [Accounts -> Nat] /\ Idle \in Nat /\ MaxTime \in Nat /\ Never \in Int
BY SessionAssumption DEF SessionAssumption, Never

LEMMA Types ==
  ASSUME TypeOK
  PROVE  /\ now \in Nat /\ now <= MaxTime
         /\ \A a \in Accounts, k \in Conversations : seen[a][k] \in Int /\ seen[a][k] <= MaxTime
BY Numbers DEF TypeOK

(* prune leaves exactly the conversations that were active within the window. *)
LEMMA PrunedFacts ==
  ASSUME TypeOK, Agrees, NEW a \in Accounts
  PROVE  /\ DOMAIN Pruned(a) = Open(a) /\ Open(a) \subseteq DOMAIN bag[a]
         /\ \A k \in DOMAIN Pruned(a) : Pruned(a)[k] = bag[a][k]
<1>1. Pruned(a) = [k \in {k \in DOMAIN bag[a] : Alive(bag[a][k])} |-> bag[a][k]]
  BY DEF Pruned, Restrict
<1>2. DOMAIN bag[a] \subseteq Conversations
  BY DEF TypeOK
<1>3. ASSUME NEW k \in Conversations, k \in DOMAIN bag[a]
      PROVE  Alive(bag[a][k]) <=> k \in Open(a)
  <2>1. bag[a][k].lastSeen = seen[a][k] /\ seen[a][k] \in Int /\ now \in Nat /\ Idle \in Nat
    BY <1>3, Types, Numbers DEF Agrees
  <2> QED  BY <2>1 DEF Alive, Open
<1>4. Open(a) \subseteq DOMAIN bag[a] /\ Open(a) \subseteq Conversations
  BY DEF Agrees, Open
<1> QED  BY <1>1, <1>2, <1>3, <1>4

LEMMA OpenFinite ==
  ASSUME NEW a \in Accounts
  PROVE  Open(a) \subseteq Conversations /\ IsFiniteSet(Open(a)) /\ Cardinality(Open(a)) \in Nat
<1>1. Open(a) \subseteq Conversations
  BY DEF Open
<1>2. IsFiniteSet(Open(a))
  BY <1>1, SessionAssumption, FS_Subset DEF SessionAssumption
<1> QED  BY <1>1, <1>2, FS_CardinalityType

(* The registry of one account after touch.                                   *)
LEMMA TouchedFacts ==
  ASSUME NEW b, NEW k \in Conversations, DOMAIN b \subseteq Conversations, now \in Nat,
         \A x \in DOMAIN b : b[x] \in Entry
  PROVE  LET t == Touched(b, k) IN
         /\ DOMAIN t = DOMAIN b \cup {k} /\ \A x \in DOMAIN t : t[x] \in Entry
         /\ t[k].lastSeen = now /\ \A x \in DOMAIN b : x # k => t[x] = b[x]
<1> DEFINE t == Touched(b, k)
<1>1. DOMAIN t = DOMAIN b \cup {k} /\ \A x \in DOMAIN b : x # k => t[x] = b[x]
  BY DEF Touched
<1>2. t[k] = [lastSeen |-> now, refs |-> IF k \in DOMAIN b THEN b[k].refs + 1 ELSE 1]
  BY DEF Touched
<1>3. (IF k \in DOMAIN b THEN b[k].refs + 1 ELSE 1) \in Nat
  BY DEF Entry
<1>4. t[k] \in Entry /\ t[k].lastSeen = now
  BY <1>2, <1>3 DEF Entry
<1> HIDE DEF t
<1>5. \A x \in DOMAIN t : t[x] \in Entry
  BY <1>1, <1>4
<1> QED  BY <1>1, <1>4, <1>5 DEF t

(* The registry of one account after release.                                 *)
LEMMA LeftFacts ==
  ASSUME NEW b, NEW k, \A x \in DOMAIN b : b[x] \in Entry
  PROVE  LET t == Left(b, k) IN
         /\ DOMAIN t = DOMAIN b
         /\ \A x \in DOMAIN b : t[x] \in Entry /\ t[x].lastSeen = b[x].lastSeen
<1>1. CASE k \in DOMAIN b
  <2>1. b[k].refs \in Nat /\ Less(b[k].refs) \in Nat
    BY <1>1 DEF Entry, Less
  <2>2. Left(b, k) = [b EXCEPT ![k].refs = Less(b[k].refs)]
    BY <1>1 DEF Left
  <2> QED  BY <1>1, <2>1, <2>2 DEF Entry
<1>2. CASE k \notin DOMAIN b
  BY <1>2 DEF Left
<1> QED  BY <1>1, <1>2

-----------------------------------------------------------------------------
(* Steps that leave the clock and the history alone.                          *)

(* The registry changes, but no entry gets another time and none goes whose   *)
(* conversation was active within the window.                                 *)
LEMMA RegistryStep ==
  ASSUME IInv, NEW a \in Accounts, Shape', \A x \in Accounts : x # a => bag'[x] = bag[x],
         DOMAIN bag'[a] \subseteq DOMAIN bag[a], Open(a) \subseteq DOMAIN bag'[a],
         \A x \in DOMAIN bag'[a] : bag'[a][x] \in Entry /\ bag'[a][x].lastSeen = bag[a][x].lastSeen,
         seat' \in [Requests -> [account : Accounts, key : Conversations] \cup {NoSeat}],
         UNCHANGED <<now, seen, pinned>>
  PROVE  IInv'
<1>1. TypeOK'
  BY DEF IInv, TypeOK
<1>2. \A x \in Accounts : Open(x)' = Open(x)
  BY DEF Open
<1>3. Agrees'
  <2> SUFFICES ASSUME NEW x \in Accounts, NEW k \in Conversations
               PROVE  /\ k \in DOMAIN bag'[x] => bag'[x][k].lastSeen = seen'[x][k]
                      /\ k \in Open(x)' => k \in DOMAIN bag'[x]
    BY DEF Agrees
  <2>1. CASE x = a
    BY <1>2, <2>1 DEF IInv, Agrees
  <2>2. CASE x # a
    BY <1>2, <2>2 DEF IInv, Agrees
  <2> QED  BY <2>1, <2>2
<1>4. ConversationsWithinCap'
  BY <1>2 DEF IInv, ConversationsWithinCap
<1> QED  BY <1>1, <1>3, <1>4 DEF IInv

LEMMA ReleaseStep == ASSUME IInv, NEW r \in Requests, Release(r) PROVE IInv'
<1> DEFINE a == seat[r].account
           t == Left(bag[a], seat[r].key)
<1>1. /\ seat[r] \in [account : Accounts, key : Conversations]
      /\ seat' \in [Requests -> [account : Accounts, key : Conversations] \cup {NoSeat}]
  BY DEF Release, IInv, TypeOK
<1>2. a \in Accounts
  BY <1>1
<1>3. bag' = [bag EXCEPT ![a] = t] /\ UNCHANGED <<now, seen, pinned>>
  BY DEF Release
<1> HIDE DEF a
<1>4. \A x \in DOMAIN bag[a] : bag[a][x] \in Entry
  BY <1>2 DEF IInv, TypeOK
<1>5. /\ DOMAIN t = DOMAIN bag[a]
      /\ \A x \in DOMAIN bag[a] : t[x] \in Entry /\ t[x].lastSeen = bag[a][x].lastSeen
  BY <1>4, LeftFacts
<1> HIDE DEF t
<1>6. Open(a) \subseteq DOMAIN t
  BY <1>2, <1>5, PrunedFacts DEF IInv
<1>7. Shape' /\ bag'[a] = t /\ \A x \in Accounts : x # a => bag'[x] = bag[x]
  BY <1>2, <1>3 DEF IInv, Shape
<1> QED  BY <1>1, <1>2, <1>3, <1>5, <1>6, <1>7, RegistryStep

LEMMA LookStep == ASSUME IInv, NEW a \in Accounts, Look(a) PROVE IInv'
<1>1. /\ DOMAIN Pruned(a) = Open(a) /\ Open(a) \subseteq DOMAIN bag[a]
      /\ \A k \in DOMAIN Pruned(a) : Pruned(a)[k] = bag[a][k]
  BY PrunedFacts DEF IInv
<1>2. bag' = [bag EXCEPT ![a] = Pruned(a)] /\ UNCHANGED <<now, seat, seen, pinned>>
  BY DEF Look
<1>3. /\ \A k \in DOMAIN bag[a] : bag[a][k] \in Entry
      /\ seat \in [Requests -> [account : Accounts, key : Conversations] \cup {NoSeat}]
  BY DEF IInv, TypeOK
<1>4. Shape' /\ bag'[a] = Pruned(a) /\ \A x \in Accounts : x # a => bag'[x] = bag[x]
  BY <1>2 DEF IInv, Shape
<1> QED  BY <1>1, <1>2, <1>3, <1>4, RegistryStep

(* Time passes: conversations only leave the window.                          *)
LEMMA TickStep == ASSUME IInv, Tick PROVE IInv'
<1>1. now < MaxTime /\ now' = now + 1 /\ UNCHANGED <<bag, seat, seen, pinned>>
  BY DEF Tick
<1>2. TypeOK' /\ Shape'
  BY <1>1, Numbers DEF IInv, TypeOK, Shape
<1>3. ASSUME NEW a \in Accounts PROVE Open(a)' \subseteq Open(a)
  <2>1. ASSUME NEW k \in Conversations, now' - seen[a][k] <= Idle PROVE now - seen[a][k] <= Idle
    <3>1. now \in Nat /\ seen[a][k] \in Int /\ Idle \in Nat
      BY Types, Numbers DEF IInv
    <3> QED  BY <1>1, <2>1, <3>1
  <2> QED  BY <1>1, <2>1 DEF Open
<1>4. Agrees'
  BY <1>1, <1>3 DEF IInv, Agrees
<1>5. ConversationsWithinCap'
  <2> SUFFICES ASSUME NEW a \in Accounts, MaxSessions[a] > 0
               PROVE  Cardinality(Open(a)' \ pinned[a]) <= MaxSessions[a]
    BY <1>1 DEF ConversationsWithinCap
  <2> DEFINE S == Open(a) \ pinned[a]
             T == Open(a)' \ pinned[a]
  <2>1. IsFiniteSet(S) /\ T \subseteq S
    BY <1>3, OpenFinite, FS_Subset
  <2>2. IsFiniteSet(T) /\ Cardinality(T) <= Cardinality(S)
    BY <2>1, FS_Subset
  <2>3. Cardinality(S) \in Nat /\ Cardinality(T) \in Nat /\ MaxSessions[a] \in Nat
    BY <2>1, <2>2, Numbers, FS_CardinalityType
  <2>4. Cardinality(S) <= MaxSessions[a]
    BY DEF IInv, ConversationsWithinCap
  <2> QED  BY <2>2, <2>3, <2>4
<1> QED  BY <1>2, <1>4, <1>5 DEF IInv

-----------------------------------------------------------------------------
(* reserve.                                                                   *)

LEMMA ReserveStep ==
  ASSUME IInv, NEW r \in Requests, NEW a \in Accounts, NEW k \in Conversations,
         NEW skipQuota \in BOOLEAN, Reserve(r, a, k, skipQuota)
  PROVE  IInv'
<1> DEFINE b == IF skipQuota \/ MaxSessions[a] = 0 THEN bag[a] ELSE Pruned(a)
           t == Touched(b, k)
<1>1. /\ bag' = [bag EXCEPT ![a] = t]
      /\ seat' = [seat EXCEPT ![r] = [account |-> a, key |-> k]]
      /\ seen' = [seen EXCEPT ![a][k] = now] /\ now' = now
      /\ pinned' = [pinned EXCEPT ![a] =
                      IF k \in DOMAIN Pruned(a) THEN @ ELSE IF skipQuota THEN @ \cup {k} ELSE @ \ {k}]
  BY DEF Reserve
<1>2. /\ DOMAIN Pruned(a) = Open(a) /\ Open(a) \subseteq DOMAIN bag[a]
      /\ \A x \in DOMAIN Pruned(a) : Pruned(a)[x] = bag[a][x]
  BY PrunedFacts DEF IInv
<1>3. /\ DOMAIN bag[a] \subseteq Conversations /\ \A x \in DOMAIN bag[a] : bag[a][x] \in Entry
      /\ now \in Nat /\ now \in 0..MaxTime /\ now \in Never..MaxTime
  BY Numbers, SessionAssumption DEF IInv, TypeOK, Never, SessionAssumption
<1>4. DOMAIN b \subseteq DOMAIN bag[a] /\ Open(a) \subseteq DOMAIN b /\ \A x \in DOMAIN b : b[x] = bag[a][x]
  BY <1>2
<1> HIDE DEF b
<1>5. /\ DOMAIN t = DOMAIN b \cup {k} /\ \A x \in DOMAIN t : t[x] \in Entry
      /\ t[k].lastSeen = now /\ \A x \in DOMAIN b : x # k => t[x] = bag[a][x]
  BY <1>3, <1>4, TouchedFacts
<1> HIDE DEF t
<1>6. /\ seen' \in [Accounts -> [Conversations -> Never..MaxTime]]
      /\ seen'[a][k] = now
      /\ \A x \in Accounts, y \in Conversations : x # a \/ y # k => seen'[x][y] = seen[x][y]
  BY <1>1, <1>3 DEF IInv, TypeOK
<1>7. /\ Shape' /\ bag'[a] = t /\ \A x \in Accounts : x # a => bag'[x] = bag[x] /\ pinned'[x] = pinned[x]
      /\ pinned'[a] = IF k \in Open(a) THEN pinned[a] ELSE IF skipQuota THEN pinned[a] \cup {k} ELSE pinned[a] \ {k}
  BY <1>1, <1>2 DEF IInv, Shape
<1>8. TypeOK'
  <2>1. seat' \in [Requests -> [account : Accounts, key : Conversations] \cup {NoSeat}]
    BY <1>1 DEF IInv, TypeOK
  <2>2. ASSUME NEW x \in Accounts
        PROVE  /\ DOMAIN bag'[x] \subseteq Conversations /\ \A y \in DOMAIN bag'[x] : bag'[x][y] \in Entry
               /\ pinned'[x] \subseteq Conversations
    <3>1. CASE x = a
      BY <1>3, <1>4, <1>5, <1>7, <3>1 DEF IInv, TypeOK
    <3>2. CASE x # a
      BY <1>7, <3>2 DEF IInv, TypeOK
    <3> QED  BY <3>1, <3>2
  <2> QED  BY <1>1, <1>3, <1>6, <2>1, <2>2 DEF TypeOK
<1>9. Open(a)' = Open(a) \cup {k} /\ \A x \in Accounts : x # a => Open(x)' = Open(x)
  <2>1. now - seen'[a][k] <= Idle
    BY <1>3, <1>6, Numbers
  <2> QED  BY <1>1, <1>6, <2>1 DEF Open
<1>10. Agrees'
  <2> SUFFICES ASSUME NEW x \in Accounts, NEW y \in Conversations
               PROVE  /\ y \in DOMAIN bag'[x] => bag'[x][y].lastSeen = seen'[x][y]
                      /\ y \in Open(x)' => y \in DOMAIN bag'[x]
    BY DEF Agrees
  <2>1. CASE x # a
    BY <1>6, <1>7, <1>9, <2>1 DEF IInv, Agrees
  <2>2. CASE x = a /\ y = k
    BY <1>5, <1>6, <1>7, <2>2
  <2>3. CASE x = a /\ y # k
    <3>1. y \in DOMAIN bag[a] => bag[a][y].lastSeen = seen[a][y]
      BY DEF IInv, Agrees
    <3> QED  BY <1>4, <1>5, <1>6, <1>7, <1>9, <2>3, <3>1
  <2> QED  BY <2>1, <2>2, <2>3
<1>11. ConversationsWithinCap'
  <2> SUFFICES ASSUME NEW x \in Accounts, MaxSessions[x] > 0
               PROVE  Cardinality(Open(x)' \ pinned'[x]) <= MaxSessions[x]
    BY DEF ConversationsWithinCap
  <2>1. Cardinality(Open(x) \ pinned[x]) <= MaxSessions[x]
    BY DEF IInv, ConversationsWithinCap
  <2>2. CASE x # a
    BY <1>7, <1>9, <2>1, <2>2
  <2>3. CASE x = a /\ (k \in Open(a) \/ skipQuota)
    <3> DEFINE S == Open(a) \ pinned[a]
               T == Open(a)' \ pinned'[a]
    <3>1. IsFiniteSet(S) /\ T \subseteq S
      BY <1>7, <1>9, <2>3, OpenFinite, FS_Subset
    <3>2. IsFiniteSet(T) /\ Cardinality(T) <= Cardinality(S)
      BY <3>1, FS_Subset
    <3>3. Cardinality(S) \in Nat /\ Cardinality(T) \in Nat /\ MaxSessions[a] \in Nat
      BY <3>1, <3>2, Numbers, FS_CardinalityType
    <3> QED  BY <2>1, <2>3, <3>2, <3>3
  <2>4. CASE x = a /\ k \notin Open(a) /\ ~skipQuota
    <3> DEFINE S == Open(a) \cup {k}
               T == Open(a)' \ pinned'[a]
    <3>1. IsFiniteSet(Open(a)) /\ Cardinality(Open(a)) \in Nat
      BY OpenFinite
    <3>2. Cardinality(Open(a)) < MaxSessions[a]
      <4>1. MaxSessions[a] # 0
        BY <2>4, Numbers
      <4> QED  BY <1>2, <2>4, <4>1 DEF Reserve, Accepts
    <3>3. IsFiniteSet(S) /\ Cardinality(S) = Cardinality(Open(a)) + 1
      BY <2>4, <3>1, FS_AddElement
    <3>4. T \subseteq S
      BY <1>9
    <3>5. IsFiniteSet(T) /\ Cardinality(T) <= Cardinality(S)
      BY <3>3, <3>4, FS_Subset
    <3>6. Cardinality(T) \in Nat /\ MaxSessions[a] \in Nat
      BY <3>5, Numbers, FS_CardinalityType
    <3> HIDE DEF S, T
    <3>7. Cardinality(T) <= MaxSessions[a]
      BY <3>1, <3>2, <3>3, <3>5, <3>6
    <3> QED  BY <2>4, <3>7 DEF T
  <2> QED  BY <2>2, <2>3, <2>4
<1> QED  BY <1>7, <1>8, <1>10, <1>11 DEF IInv

-----------------------------------------------------------------------------
(* The invariant holds.                                                       *)

LEMMA InitHolds == Init => IInv
<1> SUFFICES ASSUME Init PROVE IInv
  OBVIOUS
<1>1. TypeOK
  <2>1. Never \in Never..MaxTime /\ now \in 0..MaxTime
    BY Numbers DEF Init, Never
  <2>2. \A a \in Accounts : DOMAIN bag[a] = {}
    BY DEF Init
  <2> QED  BY <2>1, <2>2 DEF Init, TypeOK
<1>2. Shape /\ \A a \in Accounts : DOMAIN bag[a] = {}
  BY DEF Init, Shape
<1>3. ASSUME NEW a \in Accounts PROVE Open(a) = {}
  <2>1. ASSUME NEW k \in Conversations PROVE ~(now - seen[a][k] <= Idle)
    <3>1. now = 0 /\ seen[a][k] = -1 - Idle
      BY DEF Init, Never
    <3> QED  BY <3>1, Numbers
  <2> QED  BY <2>1 DEF Open
<1>4. Agrees
  BY <1>2, <1>3 DEF Agrees
<1>5. ConversationsWithinCap
  <2>1. ASSUME NEW a \in Accounts PROVE Cardinality(Open(a) \ pinned[a]) = 0
    <3>1. Open(a) \ pinned[a] = {}
      BY <1>3
    <3> QED  BY <3>1, FS_EmptySet
  <2> QED  BY <2>1, Numbers DEF ConversationsWithinCap
<1> QED  BY <1>1, <1>2, <1>4, <1>5 DEF IInv

LEMMA NextHolds == IInv /\ [Next]_vars => IInv'
<1> SUFFICES ASSUME IInv, [Next]_vars PROVE IInv'
  OBVIOUS
<1>1. CASE UNCHANGED vars
  BY <1>1 DEF vars, IInv, TypeOK, Shape, Agrees, Open, ConversationsWithinCap
<1>2. CASE Next
  BY <1>2, ReserveStep, ReleaseStep, LookStep, TickStep DEF Next
<1> QED  BY <1>1, <1>2

(* Every reachable state satisfies the inductive invariant.                   *)
THEOREM Inductive == Spec => []IInv
BY InitHolds, NextHolds, PTL DEF Spec

(* Every variable keeps its type; release never counts an entry below zero.   *)
THEOREM TypeCorrect == Spec => []TypeOK
<1>1. IInv => TypeOK
  BY DEF IInv
<1> QED  BY <1>1, Inductive, PTL

(* canAccept and touch keep the conversations of an account that came through *)
(* the gate within max_sessions, although release and prune are not tied to   *)
(* each other and pinned requests come past the gate.                         *)
THEOREM CapCorrect == Spec => []ConversationsWithinCap
<1>1. IInv => ConversationsWithinCap
  BY DEF IInv
<1> QED  BY <1>1, Inductive, PTL

(* canAccept never refuses a conversation that was active within the window.  *)
THEOREM StaysCorrect == Spec => []OpenConversationStays
<1>1. IInv => OpenConversationStays
  <2> SUFFICES ASSUME IInv, NEW a \in Accounts, NEW k \in Open(a) PROVE Accepts(a, k)
    BY DEF OpenConversationStays
  <2>1. k \in DOMAIN Pruned(a)
    BY PrunedFacts DEF IInv
  <2> QED  BY <2>1 DEF Accepts
<1> QED  BY <1>1, Inductive, PTL
=============================================================================

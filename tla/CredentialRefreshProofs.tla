----------------------- MODULE CredentialRefreshProofs -----------------------
(* Machine-checked theorems about CredentialRefresh, for any number of        *)
(* refreshers, hops, probes, imports and tickets.                             *)
EXTENDS CredentialRefresh, TLAPS

-----------------------------------------------------------------------------
(* The inductive invariant, in layers.                                        *)

(* A ticket is at least as new as its refresh token, and has been issued.     *)
Ordered(t) == t.rt <= t.seq /\ t.seq <= issued

(* Revocation spares only what is issued after it; an answer that has not     *)
(* been written is newer than what was read for it, and not in the window.    *)
TicketsOrdered ==
  /\ Ordered(file) /\ \A c \in Callers : Ordered(read[c]) /\ Ordered(ans[c].ticket)
  /\ \A i \in Importers : Ordered(given[i])
  /\ \A t \in live : t > killed
  /\ \A c \in Callers : Lost(c) => ans[c].ticket.seq > read[c].seq /\ ans[c].ticket.seq > due

(* The operator's lock outlives every automatic change of the record.         *)
SwitchLocked ==
  /\ off => vm.manual /\ ~vm.sched
  /\ vm.reason = "oauth_revoked" => ~vm.sched

(* While nobody has acted on what another had replaced: there is one          *)
(* refresher, working on the ticket in the file; the grant is alive, revoked, *)
(* or in the answer that refresher holds; every verdict of upstream is about  *)
(* a revoked grant; a mirror under way does not mistake a kept reason for a   *)
(* revocation.                                                                *)
OneRefresher == \A c \in Posting : read[c] = file /\ \A d \in Posting : d = c

GrantHeld == Revoked \/ file.rt \in live \/ \E c \in Callers : Lost(c)

AnswerGood ==
  \A c \in Callers : Lost(c) =>
    /\ ans[c].ticket.rt \in live \/ ans[c].ticket.seq <= killed
    /\ Revoked => ans[c].ticket.seq <= killed

VerdictReal ==
  \A c \in Callers :
    /\ pc[c] = "answer" /\ ans[c].kind = "invalid" => Revoked
    /\ pc[c] = "resent" /\ refused[c] => Revoked

RecordReal ==
  /\ Fatal(vm.error) => Revoked \/ Stored
  /\ mirroring /\ vm.error = "none" /\ vm.reason = "oauth_revoked" => file.seq > vm.expires

Clean == OneRefresher /\ GrantHeld /\ AnswerGood /\ VerdictReal /\ RecordReal

IInv == TypeOK /\ TicketsOrdered /\ SwitchLocked /\ (crossed \/ Clean)

-----------------------------------------------------------------------------
(* What is written into vm.json.                                              *)

(* persistOauthToVm                                                           *)
LEMMA PersistedFacts ==
  ASSUME NEW v \in Vm, NEW seq \in Tickets, NEW accept \in BOOLEAN
  PROVE  LET w == Persisted(v, seq, accept) IN
         /\ w \in Vm /\ w.expires = seq /\ w.manual = v.manual
         /\ v.manual => w.sched = v.sched
         /\ (v.reason = "oauth_revoked" => ~v.sched) => (w.reason = "oauth_revoked" => ~w.sched)
         /\ accept => w.error = "none"
         /\ Fatal(w.error) => \/ Fatal(v.error)
                              \/ v.error = "none" /\ v.reason = "oauth_revoked" /\ ~(seq > v.expires)
         /\ v.error = "oauth_revoked" /\ w.error = "none" => accept \/ seq > v.expires
BY DEF Persisted, KeepsRevocation, PrevRevoked, Restored, ManualScheduleLocked, Fatal, Vm, Errors, Reasons

(* markVmRefreshError                                                         *)
LEMMA MarkedFacts ==
  ASSUME NEW v \in Vm, NEW e \in Errors \ {"none"}
  PROVE  LET w == Marked(v, e) IN
         /\ w \in Vm /\ w.expires = v.expires /\ w.manual = v.manual /\ w.error = e
         /\ ~v.sched => ~w.sched
         /\ (v.reason = "oauth_revoked" => ~v.sched) => (w.reason = "oauth_revoked" => ~w.sched)
BY DEF Marked, Fatal, Vm, Errors, Reasons

(* Automatic changes of the record.                                           *)
VmChange ==
  \/ vm' = vm
  \/ \E seq \in Tickets, accept \in BOOLEAN : vm' = Persisted(vm, seq, accept)
  \/ \E e \in Errors \ {"none"} : vm' = Marked(vm, e)

LEMMA VmChangeFacts ==
  ASSUME vm \in Vm, VmChange
  PROVE  /\ vm' \in Vm /\ vm'.manual = vm.manual
         /\ vm.manual /\ ~vm.sched => ~vm'.sched
         /\ (vm.reason = "oauth_revoked" => ~vm.sched) => (vm'.reason = "oauth_revoked" => ~vm'.sched)
<1>1. CASE vm' = vm
  BY <1>1
<1>2. ASSUME NEW seq \in Tickets, NEW accept \in BOOLEAN, vm' = Persisted(vm, seq, accept)
      PROVE  /\ vm' \in Vm /\ vm'.manual = vm.manual
             /\ vm.manual /\ ~vm.sched => ~vm'.sched
             /\ (vm.reason = "oauth_revoked" => ~vm.sched) => (vm'.reason = "oauth_revoked" => ~vm'.sched)
  BY <1>2, PersistedFacts
<1>3. ASSUME NEW e \in Errors \ {"none"}, vm' = Marked(vm, e)
      PROVE  /\ vm' \in Vm /\ vm'.manual = vm.manual
             /\ vm.manual /\ ~vm.sched => ~vm'.sched
             /\ (vm.reason = "oauth_revoked" => ~vm.sched) => (vm'.reason = "oauth_revoked" => ~vm'.sched)
  BY <1>3, MarkedFacts
<1> QED  BY <1>1, <1>2, <1>3 DEF VmChange

(* What a failed refresh leaves in vm.json.                                   *)
LEMMA AfterFailureFacts ==
  ASSUME vm \in Vm, NEW c, NEW answer, vm' \in AfterFailure(c, answer)
  PROVE  /\ VmChange
         /\ vm'.error = "none" => vm' = vm
         /\ Fatal(vm'.error) => vm' = vm \/ answer = "invalid"
<1>1. vm' = vm \/ \E e \in Errors \ {"none"} : vm' = Marked(vm, e) /\ (Fatal(e) => answer = "invalid")
  BY DEF AfterFailure, Errors, Fatal
<1> QED  BY <1>1, MarkedFacts DEF VmChange

-----------------------------------------------------------------------------
(* Types.                                                                     *)

PcType == [Callers -> {"idle", "post", "answer", "sent", "resent"}]
KindType == [Callers -> AllKinds \cup {"none"}]
AnsType == [Callers -> [kind : {"none", "ok", "invalid", "busy"}, ticket : Ticket]]

LEMMA FirstType == First \in Ticket /\ NoAnswer \in [kind : {"none", "ok", "invalid", "busy"}, ticket : Ticket]
BY RefreshAssumption DEF First, NoAnswer, Ticket, Tickets, RefreshAssumption

LEMMA IdleType ==
  ASSUME TypeOK, NEW c \in Callers, Idle(c)
  PROVE  pc' \in PcType /\ kind' \in KindType /\ refused' \in [Callers -> BOOLEAN]
BY DEF TypeOK, Idle, Goto, PcType, KindType

LEMMA ForgetType ==
  ASSUME TypeOK, NEW c \in Callers, Forget(c)
  PROVE  read' \in [Callers -> Ticket] /\ ans' \in AnsType
BY FirstType DEF TypeOK, Forget, AnsType

LEMMA GoodFacts ==
  ASSUME TypeOK, NEW c \in Callers, NEW k \in AllKinds \cup {"none"}, NEW ticket \in Ticket, Good(c, k, ticket)
  PROVE  /\ pc' \in PcType /\ kind' \in KindType /\ refused' \in [Callers -> BOOLEAN]
         /\ VmChange /\ crossed' \in BOOLEAN
         /\ pc' = [pc EXCEPT ![c] = IF k = "hop" THEN "resent" ELSE "idle"]
         /\ \A d \in Callers : d # c => refused'[d] = refused[d]
         /\ k = "hop" => refused'[c] \in Verdicts(ticket.seq)
<1>1. VmChange
  <2>1. ticket.seq \in Tickets /\ TRUE \in BOOLEAN
    BY DEF Ticket
  <2> QED  BY <2>1 DEF Good, VmChange
<1>2. crossed' \in BOOLEAN
  <2>1. (crossed \/ (Records(k) /\ mirroring)) \in BOOLEAN
    BY Zenon
  <2> QED  BY <2>1 DEF Good
<1>3. CASE k = "hop"
  <2>1. PICK verdict \in Verdicts(ticket.seq) : refused' = [refused EXCEPT ![c] = verdict]
    BY <1>3 DEF Good
  <2>2. verdict \in BOOLEAN
    BY DEF Verdicts
  <2> QED  BY <1>1, <1>2, <1>3, <2>1, <2>2 DEF Good, Goto, TypeOK, PcType, KindType
<1>4. CASE k # "hop"
  <2>1. Idle(c)
    BY <1>4 DEF Good
  <2> QED  BY <1>1, <1>2, <1>4, <2>1, IdleType DEF Idle, Goto, TypeOK
<1> QED  BY <1>3, <1>4

ImpType == [Importers -> {"idle", "login", "reloaded", "stored"}]

LEMMA NewVmType == NewVm \in OnVm /\ NewVm \in Vm
BY RefreshAssumption DEF NewVm, OnVm, Vm, Errors, Reasons, Tickets, RefreshAssumption

LEMMA ImportOverType ==
  ASSUME TypeOK, NEW i \in Importers, ImportOver(i)
  PROVE  imp' \in ImpType /\ copy' \in [Importers -> OnVm] /\ given' \in [Importers -> Ticket]
BY FirstType, NewVmType DEF TypeOK, ImportOver, ImpType

LEMMA KeepManualType ==
  ASSUME TypeOK, NEW i \in Importers, KeepManual(i)
  PROVE  copy' \in [Importers -> OnVm]
<1>1. copy[i].manual \in BOOLEAN
  BY DEF TypeOK, OnVm
<1>2. [NewVm EXCEPT !.manual = copy[i].manual] \in OnVm
  BY <1>1, NewVmType DEF OnVm
<1> QED  BY <1>2 DEF KeepManual, TypeOK

(* The record an import leaves.                                               *)
LEMMA ImportedFacts ==
  ASSUME TypeOK, NEW i \in Importers
  PROVE  /\ Imported(i) \in Vm /\ Imported(i).error = "none" /\ Imported(i).manual = copy[i].manual
         /\ vm.manual => Imported(i).sched = vm.sched
         /\ (vm.reason = "oauth_revoked" => ~vm.sched) =>
              (Imported(i).reason = "oauth_revoked" => ~Imported(i).sched)
<1> DEFINE w == Persisted(vm, given[i].seq, TRUE)
<1>1. vm \in Vm /\ given[i].seq \in Tickets /\ TRUE \in BOOLEAN /\ copy[i].manual \in BOOLEAN
  BY DEF TypeOK, Ticket, OnVm
<1>2. /\ w \in Vm /\ w.error = "none" /\ (vm.manual => w.sched = vm.sched)
      /\ (vm.reason = "oauth_revoked" => ~vm.sched) => (w.reason = "oauth_revoked" => ~w.sched)
  BY <1>1, PersistedFacts
<1>3. Imported(i) = [w EXCEPT !.manual = copy[i].manual]
  BY DEF Imported
<1> HIDE DEF w
<1>4. /\ Imported(i) \in Vm /\ Imported(i).error = w.error /\ Imported(i).sched = w.sched
      /\ Imported(i).reason = w.reason /\ Imported(i).manual = copy[i].manual
  BY <1>1, <1>2, <1>3 DEF Vm
<1> QED  BY <1>2, <1>4

(* The steps that only move a call, an import, the mirror or the clock.       *)
LEMMA TypeStep == TypeOK /\ [Next]_vars => TypeOK'
<1> SUFFICES ASSUME TypeOK, [Next]_vars PROVE TypeOK'
  OBVIOUS
<1> USE DEF PcType, KindType, AnsType, ImpType
<1>1. MaxTickets \in Nat \ {0} /\ issued \in Nat /\ due \in Nat /\ killed \in Nat
  BY RefreshAssumption DEF TypeOK, RefreshAssumption, Tickets
<1>2. vm \in Vm /\ file \in Ticket
  BY DEF TypeOK
<1>3. ASSUME NEW c \in Callers, NEW k \in AllKinds, AlreadyFresh(c, k) PROVE TypeOK'
  <2>1. /\ pc' \in PcType /\ kind' \in KindType /\ refused' \in [Callers -> BOOLEAN]
        /\ VmChange /\ crossed' \in BOOLEAN
    BY <1>2, <1>3, GoodFacts DEF AlreadyFresh
  <2>2. vm' \in Vm
    BY <1>2, <2>1, VmChangeFacts
  <2> QED  BY <1>3, <2>1, <2>2 DEF AlreadyFresh, TypeOK, importVars, upstreamVars
<1>4. ASSUME NEW c \in Callers, NEW k \in AllKinds, Post(c, k) PROVE TypeOK'
  <2>1. crossed' \in BOOLEAN
    <3>1. (crossed \/ Posting # {}) \in BOOLEAN
      BY Zenon
    <3> QED  BY <1>4, <3>1 DEF Post
  <2>2. pc' \in PcType /\ kind' \in KindType /\ read' \in [Callers -> Ticket]
    BY <1>4 DEF Post, Goto, TypeOK
  <2> QED  BY <1>4, <2>1, <2>2 DEF Post, TypeOK, importVars, upstreamVars
<1>5. ASSUME NEW c \in Callers, NEW k \in {"ok", "invalid", "busy"}, NEW t \in Ticket, Answered(c, k, t),
             live' \in SUBSET (1..issued'), issued' \in Tickets, issued' >= issued
      PROVE  TypeOK'
  <2>1. pc' \in PcType /\ ans' \in AnsType
    BY <1>5 DEF Answered, Goto, TypeOK
  <2>2. killed \in 0..issued' /\ due \in 0..issued'
    BY <1>1, <1>5 DEF TypeOK, Tickets
  <2> QED  BY <1>5, <2>1, <2>2 DEF Answered, TypeOK, importVars
<1>6. ASSUME NEW c \in Callers, NEW rotates \in BOOLEAN, Grants(c, rotates) PROVE TypeOK'
  <2> DEFINE t == [seq |-> issued + 1, rt |-> IF rotates THEN issued + 1 ELSE read[c].rt]
  <2>1. issued + 1 \in Tickets /\ read[c].rt \in Tickets
    BY <1>1, <1>6 DEF Grants, Tickets, TypeOK, Ticket
  <2>2. t \in Ticket
    BY <2>1 DEF Ticket
  <2>3. live' \in SUBSET (1..issued') /\ issued' \in Tickets /\ issued' >= issued
    <3>1. issued' = issued + 1 /\ live' \subseteq live \cup {issued + 1} /\ live \subseteq 1..issued
      BY <1>6 DEF Grants, TypeOK
    <3> QED  BY <1>1, <2>1, <3>1
  <2>4. Answered(c, "ok", t)
    BY <1>6 DEF Grants
  <2> HIDE DEF t
  <2> QED  BY <1>5, <2>2, <2>3, <2>4
<1>7. ASSUME NEW c \in Callers, Rejects(c) \/ Fails(c) PROVE TypeOK'
  <2>1. read[c] \in Ticket /\ live \in SUBSET (1..issued) /\ issued \in Tickets
    BY DEF TypeOK
  <2>2. live' \in SUBSET (1..issued') /\ issued' \in Tickets /\ issued' >= issued
    <3>1. live' = live /\ issued' = issued
      BY <1>7 DEF Rejects, Fails
    <3> QED  BY <1>1, <2>1, <3>1
  <2>3. Answered(c, "invalid", read[c]) \/ Answered(c, "busy", read[c])
    BY <1>7 DEF Rejects, Fails
  <2> QED  BY <1>5, <2>1, <2>2, <2>3
<1>8. ASSUME NEW c \in Callers, Settle(c) PROVE TypeOK'
  <2>1. file' \in Ticket /\ kind[c] \in AllKinds \cup {"none"}
    BY <1>8 DEF Settle, Merged, TypeOK, Ticket
  <2>2. /\ pc' \in PcType /\ kind' \in KindType /\ refused' \in [Callers -> BOOLEAN]
        /\ VmChange /\ crossed' \in BOOLEAN
    BY <1>8, <2>1, GoodFacts DEF Settle
  <2>3. vm' \in Vm /\ read' \in [Callers -> Ticket] /\ ans' \in AnsType
    BY <1>2, <1>8, <2>2, VmChangeFacts, ForgetType DEF Settle
  <2> QED  BY <1>8, <2>1, <2>2, <2>3 DEF Settle, TypeOK, importVars, upstreamVars
<1>9. ASSUME NEW c \in Callers, SettleFailure(c) \/ LoseAnswer(c) PROVE TypeOK'
  <2>1. /\ pc' \in PcType /\ kind' \in KindType /\ refused' \in [Callers -> BOOLEAN]
        /\ read' \in [Callers -> Ticket] /\ ans' \in AnsType
    BY <1>9, IdleType, ForgetType DEF SettleFailure, LoseAnswer
  <2>2. vm' \in Vm
    BY <1>2, <1>9, AfterFailureFacts, VmChangeFacts DEF SettleFailure, LoseAnswer
  <2> QED  BY <1>9, <2>1, <2>2 DEF SettleFailure, LoseAnswer, TypeOK, importVars, upstreamVars
<1>10. ASSUME NEW c \in Callers, Send(c) PROVE TypeOK'
  <2>1. PICK verdict \in Verdicts(file.seq) : refused' = [refused EXCEPT ![c] = verdict]
    BY <1>10 DEF Send
  <2>2. verdict \in BOOLEAN
    BY DEF Verdicts
  <2>3. pc' \in PcType /\ kind' \in KindType /\ refused' \in [Callers -> BOOLEAN]
    BY <1>10, <2>1, <2>2 DEF Send, Goto, TypeOK, AllKinds
  <2> QED  BY <1>10, <2>3 DEF Send, TypeOK, importVars, upstreamVars
<1>11. ASSUME NEW c \in Callers, HopEnds(c) PROVE TypeOK'
  <2>1. pc' \in PcType /\ kind' \in KindType /\ refused' \in [Callers -> BOOLEAN]
    BY <1>11, IdleType DEF HopEnds
  <2>2. vm' \in Vm
    BY <1>2, <1>11, MarkedFacts DEF HopEnds, Errors
  <2> QED  BY <1>11, <2>1, <2>2 DEF HopEnds, TypeOK, importVars, upstreamVars
<1>12. CASE BeginMirror
  BY <1>12 DEF BeginMirror, TypeOK, callerVars, importVars, upstreamVars
<1>13. CASE EndMirror
  <2>1. vm' \in Vm
    <3>1. file.seq \in Tickets /\ FALSE \in BOOLEAN
      BY <1>2 DEF Ticket
    <3> QED  BY <1>2, <1>13, <3>1, PersistedFacts DEF EndMirror
  <2> QED  BY <1>13, <2>1 DEF EndMirror, TypeOK, callerVars, importVars, upstreamVars
<1>14. CASE Crash
  <2>1. crossed' \in BOOLEAN
    <3>1. (crossed \/ Stored \/ \E c \in Callers : Lost(c)) \in BOOLEAN
      BY Zenon
    <3> QED  BY <1>14, <3>1 DEF Crash
  <2>2. /\ pc' \in PcType /\ kind' \in KindType /\ refused' \in [Callers -> BOOLEAN]
        /\ read' \in [Callers -> Ticket] /\ ans' \in AnsType
    BY <1>14, FirstType DEF Crash
  <2>3. imp' \in ImpType /\ copy' \in [Importers -> OnVm] /\ given' \in [Importers -> Ticket] /\ mirroring' \in BOOLEAN
    BY <1>14, FirstType, NewVmType DEF Crash
  <2> QED  BY <1>14, <2>1, <2>2, <2>3 DEF Crash, TypeOK, upstreamVars
<1>15. ASSUME NEW i \in Importers, BeginImport(i) PROVE TypeOK'
  <2>1. SwitchedOn(vm) \in OnVm
    BY <1>2 DEF SwitchedOn, Vm, OnVm
  <2>2. imp' \in ImpType /\ copy' \in [Importers -> OnVm]
    BY <1>15, <2>1 DEF BeginImport, TypeOK
  <2> QED  BY <1>15, <2>2 DEF BeginImport, TypeOK, callerVars, upstreamVars
<1>16. ASSUME NEW i \in Importers, AbortImport(i) PROVE TypeOK'
  BY <1>16, ImportOverType DEF AbortImport, TypeOK, callerVars, upstreamVars
<1>21. ASSUME NEW i \in Importers, ReloadImport(i) PROVE TypeOK'
  <2>1. vm' \in Vm /\ imp' \in ImpType /\ copy' \in [Importers -> OnVm]
    BY <1>21, KeepManualType DEF ReloadImport, TypeOK, OnVm, Vm, Reasons
  <2>2. crossed' \in BOOLEAN /\ off' \in BOOLEAN
    <3>1. (crossed \/ SwitchedOn(vm) # copy[i]) \in BOOLEAN
      BY Zenon
    <3> QED  BY <1>21, <3>1 DEF ReloadImport
  <2> QED  BY <1>21, <2>1, <2>2 DEF ReloadImport, TypeOK, callerVars, upstreamVars
<1>22. ASSUME NEW i \in Importers, ImportWorkerCredential(i) PROVE TypeOK'
  <2>1. issued + 1 \in Tickets
    BY <1>1, <1>22 DEF ImportWorkerCredential, Tickets
  <2>2. [seq |-> issued + 1, rt |-> issued + 1] \in Ticket
    BY <2>1 DEF Ticket
  <2>3. given' \in [Importers -> Ticket] /\ file' \in Ticket
    BY <1>22, <2>2 DEF ImportWorkerCredential, TypeOK
  <2>4. /\ live' \in SUBSET (1..issued') /\ issued' \in Tickets
        /\ killed \in 0..issued' /\ due \in 0..issued'
    BY <1>1, <1>22, <2>1 DEF ImportWorkerCredential, TypeOK
  <2>5. imp' \in ImpType /\ copy' \in [Importers -> OnVm]
    BY <1>22, KeepManualType DEF ImportWorkerCredential, TypeOK
  <2>6. crossed' \in BOOLEAN
    <3>1. (crossed \/ \E c \in Callers : pc[c] # "idle") \in BOOLEAN
      BY Zenon
    <3> QED  BY <1>22, <3>1 DEF ImportWorkerCredential
  <2> QED  BY <1>22, <2>3, <2>4, <2>5, <2>6 DEF ImportWorkerCredential, TypeOK, callerVars
<1>23. ASSUME NEW i \in Importers, CommitImport(i) PROVE TypeOK'
  <2>1. vm' \in Vm /\ file' \in Ticket
    BY <1>23, ImportedFacts DEF CommitImport, TypeOK
  <2>2. crossed' \in BOOLEAN /\ off' \in BOOLEAN
    <3>1. (crossed \/ mirroring \/ file # given[i]) \in BOOLEAN /\ (off /\ copy[i].manual) \in BOOLEAN
      BY Zenon
    <3> QED  BY <1>23, <3>1 DEF CommitImport
  <2> QED  BY <1>23, <2>1, <2>2, ImportOverType DEF CommitImport, TypeOK, callerVars, upstreamVars
<1>17. ASSUME NEW on \in BOOLEAN, SetVmSchedulable(on) PROVE TypeOK'
  <2>1. vm' \in Vm /\ off' \in BOOLEAN
    BY <1>2, <1>17 DEF SetVmSchedulable, Vm, Reasons
  <2> QED  BY <1>17, <2>1 DEF SetVmSchedulable, TypeOK, callerVars, importVars, upstreamVars
<1>18. CASE Age
  BY <1>1, <1>18 DEF Age, TypeOK, callerVars, importVars
<1>19. CASE Revoke
  BY <1>1, <1>19 DEF Revoke, TypeOK, callerVars, importVars
<1>20. CASE UNCHANGED vars
  BY <1>20 DEF vars, TypeOK, callerVars, importVars, upstreamVars
<1> QED  BY <1>3, <1>4, <1>6, <1>7, <1>8, <1>9, <1>10, <1>11, <1>12, <1>13, <1>14, <1>15, <1>16,
            <1>17, <1>18, <1>19, <1>20, <1>21, <1>22, <1>23 DEF Next

-----------------------------------------------------------------------------
(* The switch of the slot.                                                    *)

LEMMA SwitchStep == TypeOK /\ SwitchLocked /\ [Next]_vars => SwitchLocked'
<1> SUFFICES ASSUME TypeOK, SwitchLocked, [Next]_vars PROVE SwitchLocked'
  OBVIOUS
<1>1. vm \in Vm /\ file \in Ticket /\ off \in BOOLEAN
  BY DEF TypeOK
<1>2. ASSUME VmChange, off' = off PROVE SwitchLocked'
  BY <1>1, <1>2, VmChangeFacts DEF SwitchLocked
<1>3. ASSUME vm' = vm, off' = off PROVE SwitchLocked'
  BY <1>2, <1>3 DEF VmChange
<1>4. ASSUME NEW c \in Callers, NEW k \in AllKinds, AlreadyFresh(c, k) PROVE SwitchLocked'
  <2>1. k \in AllKinds \cup {"none"} /\ Good(c, k, file) /\ off' = off
    BY <1>4 DEF AlreadyFresh
  <2> QED  BY <1>1, <1>2, <2>1, GoodFacts
<1>5. ASSUME NEW c \in Callers, Settle(c) PROVE SwitchLocked'
  <2>1. file' \in Ticket /\ kind[c] \in AllKinds \cup {"none"} /\ Good(c, kind[c], file') /\ off' = off
    BY <1>5 DEF Settle, Merged, TypeOK, Ticket
  <2> QED  BY <1>2, <2>1, GoodFacts
<1>6. ASSUME NEW c \in Callers, SettleFailure(c) \/ LoseAnswer(c) PROVE SwitchLocked'
  <2>1. off' = off /\ \E answer \in {ans[c].kind, "busy"} : vm' \in AfterFailure(c, answer)
    BY <1>6 DEF SettleFailure, LoseAnswer
  <2> QED  BY <1>1, <1>2, <2>1, AfterFailureFacts
<1>7. ASSUME NEW c \in Callers, HopEnds(c) PROVE SwitchLocked'
  BY <1>2, <1>7 DEF HopEnds, VmChange, Errors
<1>8. CASE EndMirror
  <2>1. file.seq \in Tickets /\ FALSE \in BOOLEAN
    BY <1>1 DEF Ticket
  <2> QED  BY <1>2, <1>8, <2>1 DEF EndMirror, VmChange
<1>9. ASSUME NEW i \in Importers, CommitImport(i) PROVE SwitchLocked'
  <2>1. /\ vm'.manual = copy[i].manual /\ (vm.manual => vm'.sched = vm.sched)
        /\ (vm'.reason = "oauth_revoked" => ~vm'.sched)
    BY <1>9, ImportedFacts DEF CommitImport, SwitchLocked
  <2>2. off' => off /\ copy[i].manual
    BY <1>9, Zenon DEF CommitImport
  <2> QED  BY <2>1, <2>2 DEF SwitchLocked
<1>14. ASSUME NEW i \in Importers, ReloadImport(i) PROVE SwitchLocked'
  BY <1>14 DEF ReloadImport, SwitchLocked, TypeOK, OnVm
<1>10. ASSUME NEW on \in BOOLEAN, SetVmSchedulable(on) PROVE SwitchLocked'
  BY <1>1, <1>10 DEF SetVmSchedulable, SwitchLocked, Vm
<1>11. CASE UNCHANGED vars
  BY <1>3, <1>11 DEF vars
<1>12. ASSUME NEW c \in Callers,
              \/ \E k \in AllKinds : Post(c, k)
              \/ \E rotates \in BOOLEAN : Grants(c, rotates)
              \/ Rejects(c) \/ Fails(c) \/ Send(c)
       PROVE  SwitchLocked'
  BY <1>3, <1>12 DEF Post, Grants, Rejects, Fails, Answered, Send
<1>13. CASE \/ BeginMirror \/ Crash \/ Age \/ Revoke
            \/ \E i \in Importers : BeginImport(i) \/ AbortImport(i) \/ ImportWorkerCredential(i)
  BY <1>3, <1>13 DEF BeginMirror, Crash, Age, Revoke, BeginImport, AbortImport, ImportWorkerCredential
<1> QED  BY <1>4, <1>5, <1>6, <1>7, <1>8, <1>9, <1>10, <1>11, <1>12, <1>13, <1>14 DEF Next

-----------------------------------------------------------------------------
(* The order of tickets.                                                      *)

LEMMA TicketNumbers ==
  ASSUME TypeOK
  PROVE  /\ issued \in Nat \ {0} /\ due \in Nat /\ killed \in Nat /\ due <= issued /\ killed <= issued
         /\ file.seq \in Nat /\ file.rt \in Nat
         /\ \A c \in Callers : /\ read[c].seq \in Nat /\ read[c].rt \in Nat
                               /\ ans[c].ticket.seq \in Nat /\ ans[c].ticket.rt \in Nat
         /\ \A i \in Importers : given[i].seq \in Nat /\ given[i].rt \in Nat
         /\ \A t \in live : t \in Nat /\ t <= issued
BY RefreshAssumption DEF TypeOK, Ticket, Tickets, RefreshAssumption

LEMMA FirstOrdered ==
  ASSUME TypeOK
  PROVE  Ordered(First) /\ Ordered(NoAnswer.ticket) /\ NoAnswer.kind = "none"
BY TicketNumbers DEF Ordered, First, NoAnswer

(* No call gets an answer and no ticket is issued.                            *)
LEMMA SameTickets ==
  ASSUME TypeOK, TicketsOrdered, UNCHANGED <<read, ans, upstreamVars>>,
         Ordered(file'), \A i \in Importers : Ordered(given'[i]),
         \A c \in Callers : pc'[c] = "answer" => pc[c] = "answer"
  PROVE  TicketsOrdered'
BY DEF TicketsOrdered, Ordered, Lost, upstreamVars

(* A call ends, and its answer is written or not.                             *)
LEMMA ForgottenTickets ==
  ASSUME TypeOK, TicketsOrdered, NEW c \in Callers, Forget(c), UNCHANGED <<upstreamVars, given>>,
         Ordered(file'),
         \A d \in Callers : d # c => pc'[d] = pc[d]
  PROVE  TicketsOrdered'
<1>1. \A d \in Callers : \/ d = c /\ read'[d] = First /\ ans'[d] = NoAnswer
                         \/ d # c /\ read'[d] = read[d] /\ ans'[d] = ans[d]
  BY DEF Forget, TypeOK
<1>2. issued' = issued /\ live' = live /\ killed' = killed /\ due' = due
  BY DEF upstreamVars
<1>3. \A d \in Callers : Ordered(read'[d]) /\ Ordered(ans'[d].ticket)
  BY <1>1, FirstOrdered DEF TicketsOrdered
<1>4. \A d \in Callers : Lost(d)' => d # c /\ Lost(d)
  BY <1>1, FirstOrdered DEF Lost
<1>5. \A i \in Importers : Ordered(given'[i])
  BY DEF TicketsOrdered
<1> QED  BY <1>1, <1>2, <1>3, <1>4, <1>5 DEF TicketsOrdered, Ordered

(* The token endpoint answers.                                                *)
LEMMA AnsweredTickets ==
  ASSUME TypeOK, TicketsOrdered, NEW c \in Callers, NEW k, NEW t, Answered(c, k, t),
         issued' \in Nat, issued' >= issued, t.rt <= t.seq, t.seq <= issued',
         t.seq \in Nat, t.rt \in Nat,
         \A x \in live' : x \in Nat /\ (x \in live \/ x > issued),
         k = "ok" => t.seq > issued
  PROVE  TicketsOrdered'
<1>1. \A d \in Callers : \/ d = c /\ ans'[d].ticket = t /\ ans'[d].kind = k
                         \/ d # c /\ ans'[d] = ans[d] /\ pc'[d] = pc[d]
  BY DEF Answered, Goto, TypeOK
<1>2. UNCHANGED <<file, read, given, killed, due>>
  BY DEF Answered, importVars
<1>3. /\ Ordered(file)' /\ \A d \in Callers : Ordered(read[d])' /\ Ordered(ans[d].ticket)'
      /\ \A i \in Importers : Ordered(given[i])'
  BY <1>1, <1>2, TicketNumbers DEF TicketsOrdered, Ordered
<1>4. \A x \in live' : x > killed'
  BY <1>2, TicketNumbers DEF TicketsOrdered
<1>5. \A d \in Callers : Lost(d)' => ans'[d].ticket.seq > read'[d].seq /\ ans'[d].ticket.seq > due'
  BY <1>1, <1>2, TicketNumbers DEF TicketsOrdered, Ordered, Lost
<1> QED  BY <1>3, <1>4, <1>5 DEF TicketsOrdered

LEMMA TicketStep == TypeOK /\ TicketsOrdered /\ [Next]_vars => TicketsOrdered'
<1> SUFFICES ASSUME TypeOK, TicketsOrdered, [Next]_vars PROVE TicketsOrdered'
  OBVIOUS
<1>1. file \in Ticket
  BY DEF TypeOK
<1>2. ASSUME NEW c \in Callers, NEW k \in AllKinds, AlreadyFresh(c, k) PROVE TicketsOrdered'
  <2>1. pc' = [pc EXCEPT ![c] = IF k = "hop" THEN "resent" ELSE "idle"]
    BY <1>1, <1>2, GoodFacts DEF AlreadyFresh
  <2> QED  BY <1>2, <2>1, SameTickets DEF AlreadyFresh, TypeOK, TicketsOrdered, importVars
<1>3. ASSUME NEW c \in Callers, NEW k \in AllKinds, Post(c, k) PROVE TicketsOrdered'
  BY <1>3 DEF Post, Goto, TicketsOrdered, Ordered, Lost, TypeOK, upstreamVars, importVars
<1>4. ASSUME NEW c \in Callers, NEW rotates \in BOOLEAN, Grants(c, rotates) PROVE TicketsOrdered'
  <2> DEFINE t == [seq |-> issued + 1, rt |-> IF rotates THEN issued + 1 ELSE read[c].rt]
  <2>1. t.seq = issued + 1 /\ t.rt \in Nat /\ t.rt <= issued + 1 /\ issued \in Nat
    BY TicketNumbers DEF TicketsOrdered, Ordered
  <2>2. issued' = issued + 1 /\ Answered(c, "ok", t)
    BY <1>4 DEF Grants
  <2>3. \A x \in live' : x \in Nat /\ (x \in live \/ x > issued)
    BY <1>4, <2>1, TicketNumbers DEF Grants
  <2> HIDE DEF t
  <2> QED  BY <2>1, <2>2, <2>3, AnsweredTickets
<1>5. ASSUME NEW c \in Callers, Rejects(c) \/ Fails(c) PROVE TicketsOrdered'
  <2>1. PICK k \in {"invalid", "busy"} : Answered(c, k, read[c])
    BY <1>5 DEF Rejects, Fails
  <2>2. issued' = issued /\ live' = live
    BY <1>5 DEF Rejects, Fails
  <2>3. /\ issued \in Nat /\ read[c].seq \in Nat /\ read[c].rt \in Nat
        /\ read[c].rt <= read[c].seq /\ read[c].seq <= issued
        /\ \A x \in live : x \in Nat
    BY TicketNumbers DEF TicketsOrdered, Ordered
  <2>4. k # "ok" /\ issued >= issued
    BY <2>3
  <2> QED  BY <2>1, <2>2, <2>3, <2>4, AnsweredTickets
<1>6. ASSUME NEW c \in Callers, Settle(c) PROVE TicketsOrdered'
  <2>1. file' \in Ticket /\ kind[c] \in AllKinds \cup {"none"}
    BY <1>6 DEF Settle, Merged, TypeOK, Ticket
  <2>2. pc' = [pc EXCEPT ![c] = IF kind[c] = "hop" THEN "resent" ELSE "idle"]
    BY <1>6, <2>1, GoodFacts DEF Settle
  <2>3. file'.seq = ans[c].ticket.seq /\ file'.rt = ans[c].ticket.rt
    BY <1>6 DEF Settle, Merged, TypeOK, Ticket
  <2>4. Ordered(file')
    BY <2>3 DEF TicketsOrdered, Ordered
  <2>5. Forget(c) /\ UNCHANGED <<upstreamVars, given>>
    BY <1>6 DEF Settle, importVars
  <2> QED  BY <2>2, <2>4, <2>5, ForgottenTickets DEF TypeOK
<1>7. ASSUME NEW c \in Callers, SettleFailure(c) \/ LoseAnswer(c) PROVE TicketsOrdered'
  BY <1>7, ForgottenTickets DEF SettleFailure, LoseAnswer, Idle, Goto, TypeOK, TicketsOrdered, importVars
<1>8. ASSUME NEW c \in Callers, Send(c) \/ HopEnds(c) PROVE TicketsOrdered'
  BY <1>8, SameTickets DEF Send, HopEnds, Idle, Goto, TypeOK, TicketsOrdered, importVars
<1>9. CASE Crash
  <2>1. \A d \in Callers : read'[d] = First /\ ans'[d] = NoAnswer /\ ~Lost(d)'
    BY <1>9 DEF Crash, Lost
  <2>2. \A i \in Importers : given'[i] = First
    BY <1>9 DEF Crash
  <2> QED  BY <1>9, <2>1, <2>2, FirstOrdered DEF Crash, TicketsOrdered, Ordered, upstreamVars
<1>10. ASSUME NEW i \in Importers, ImportWorkerCredential(i) PROVE TicketsOrdered'
  <2>1. /\ issued' = issued + 1 /\ live' = live \cup {issued + 1}
        /\ file' = [seq |-> issued + 1, rt |-> issued + 1]
        /\ UNCHANGED <<kind, pc, read, ans, refused, killed, due>>
        /\ \A j \in Importers : given'[j] = file' \/ given'[j] = given[j]
    BY <1>10 DEF ImportWorkerCredential, callerVars, TypeOK
  <2>4. file'.seq = issued + 1 /\ file'.rt = issued + 1
    BY <2>1
  <2>5. \A j \in Importers : Ordered(given[j])'
    BY <2>1, <2>4, TicketNumbers DEF TicketsOrdered, Ordered
  <2>2. Ordered(file)' /\ \A d \in Callers : Ordered(read[d])' /\ Ordered(ans[d].ticket)'
    BY <2>1, TicketNumbers DEF TicketsOrdered, Ordered
  <2>3. \A x \in live' : x > killed'
    BY <2>1, TicketNumbers DEF TicketsOrdered
  <2> QED  BY <2>1, <2>2, <2>3, <2>5 DEF TicketsOrdered, Lost
<1>11. CASE Age
  BY <1>11, TicketNumbers DEF Age, callerVars, importVars, TicketsOrdered, Ordered, Lost
<1>12. CASE Revoke
  BY <1>12 DEF Revoke, callerVars, importVars, TicketsOrdered, Ordered, Lost
<1>13. CASE \/ UNCHANGED vars \/ BeginMirror \/ EndMirror
            \/ \E i \in Importers : BeginImport(i) \/ ReloadImport(i)
            \/ \E on \in BOOLEAN : SetVmSchedulable(on)
  <2>1. UNCHANGED <<callerVars, upstreamVars, file, given>>
    BY <1>13 DEF vars, BeginMirror, EndMirror, BeginImport, ReloadImport, SetVmSchedulable, importVars
  <2> QED  BY <2>1, SameTickets DEF callerVars, TicketsOrdered
<1>14. ASSUME NEW i \in Importers, AbortImport(i) \/ CommitImport(i) PROVE TicketsOrdered'
  <2>1. /\ UNCHANGED <<callerVars, upstreamVars>> /\ (file' = file \/ file' = given[i])
        /\ \A j \in Importers : given'[j] = given[j] \/ given'[j] = First
    BY <1>14 DEF AbortImport, CommitImport, ImportOver, TypeOK
  <2>2. Ordered(file') /\ \A j \in Importers : Ordered(given'[j])
    BY <2>1, FirstOrdered DEF TicketsOrdered
  <2> QED  BY <2>1, <2>2, SameTickets DEF callerVars
<1> QED  BY <1>2, <1>3, <1>4, <1>5, <1>6, <1>7, <1>8, <1>9, <1>10, <1>11, <1>12, <1>13, <1>14 DEF Next

-----------------------------------------------------------------------------
(* The grant, while nobody has acted on what another had replaced.            *)

LEMMA CrossedStays ==
  ASSUME crossed, Next \/ UNCHANGED vars
  PROVE  crossed'
BY Zenon DEF Next, vars, AlreadyFresh, Good, Post, Grants, Rejects, Fails, Answered, Settle, SettleFailure,
   LoseAnswer, Send, HopEnds, BeginMirror, EndMirror, Crash, BeginImport, AbortImport, ReloadImport,
   ImportWorkerCredential, CommitImport,
   SetVmSchedulable, Age, Revoke

(* Neither the file nor what upstream accepts changes, and no call reads the  *)
(* file or gets its answer.                                                   *)
LEMMA CleanQuiet ==
  ASSUME Clean, UNCHANGED <<file, live, killed>>, RecordReal',
         \A c \in Callers : pc'[c] \in {"post", "answer"} =>
           pc'[c] = pc[c] /\ read'[c] = read[c] /\ ans'[c] = ans[c],
         \A c \in Callers : Lost(c) => pc'[c] = pc[c] /\ ans'[c] = ans[c],
         \A c \in Callers : pc'[c] = "resent" /\ refused'[c] => (pc[c] = "resent" /\ refused[c]) \/ Revoked
  PROVE  Clean'
<1>1. Posting' \subseteq Posting /\ \A c \in Posting' : read'[c] = read[c]
  BY DEF Posting
<1>2. OneRefresher'
  BY <1>1 DEF Clean, OneRefresher
<1>3. \A c \in Callers : Lost(c)' <=> Lost(c)
  BY DEF Lost
<1>4. Revoked' <=> Revoked
  BY DEF Revoked
<1>5. GrantHeld'
  BY <1>3, <1>4 DEF Clean, GrantHeld
<1>6. AnswerGood'
  <2>1. \A c \in Callers : Lost(c)' => ans'[c] = ans[c]
    BY DEF Lost
  <2> QED  BY <1>3, <1>4, <2>1 DEF Clean, AnswerGood
<1>7. VerdictReal'
  BY <1>4 DEF Clean, VerdictReal
<1> QED  BY <1>2, <1>5, <1>6, <1>7 DEF Clean

(* A ticket that is not in the window is refused only if it is revoked.       *)
LEMMA VerdictFacts ==
  ASSUME TypeOK, NEW seq \in Nat, seq > due, NEW verdict \in Verdicts(seq), verdict
  PROVE  seq <= killed
<1>1. killed \in Nat /\ due \in Nat
  BY TicketNumbers
<1> SUFFICES ASSUME ~(seq <= killed) PROVE FALSE
  OBVIOUS
<1>2. ~(seq > killed /\ seq <= due)
  BY <1>1
<1>3. Verdicts(seq) = {FALSE}
  BY <1>2 DEF Verdicts
<1> QED  BY <1>3

LEMMA FreshClean ==
  ASSUME TypeOK, Clean, ~crossed', NEW c \in Callers, NEW k \in AllKinds, AlreadyFresh(c, k)
  PROVE  Clean'
<1>1. file \in Ticket /\ vm \in Vm /\ k \in AllKinds \cup {"none"} /\ Good(c, k, file)
  BY DEF TypeOK, AlreadyFresh
<1>2. /\ pc' = [pc EXCEPT ![c] = IF k = "hop" THEN "resent" ELSE "idle"]
      /\ \A d \in Callers : d # c => refused'[d] = refused[d]
      /\ k = "hop" => refused'[c] \in Verdicts(file.seq)
  BY <1>1, GoodFacts
<1>3. pc[c] \notin {"answer"} /\ UNCHANGED <<file, read, ans, live, killed, mirroring, imp>> /\ file.seq > due
  BY DEF AlreadyFresh, Asks, upstreamVars, importVars
<1>4. RecordReal'
  <2>1. CASE Records(k)
    <3>1. ~mirroring
      BY <1>1, <2>1, Zenon DEF Good
    <3>2. file.seq \in Tickets /\ TRUE \in BOOLEAN /\ vm' = Persisted(vm, file.seq, TRUE)
      BY <1>1, <2>1 DEF Good, Ticket
    <3>3. vm'.error = "none"
      BY <1>1, <3>2, PersistedFacts
    <3> QED  BY <1>3, <3>1, <3>3 DEF RecordReal, Fatal
  <2>2. CASE ~Records(k)
    BY <1>1, <1>3, <2>2 DEF Good, RecordReal, Clean, Revoked, Stored
  <2> QED  BY <2>1, <2>2
<1>5. k = "hop" /\ refused'[c] => Revoked
  BY <1>2, <1>3, TicketNumbers, VerdictFacts DEF Revoked
<1> QED  BY <1>2, <1>3, <1>4, <1>5, CleanQuiet DEF TypeOK, Lost

LEMMA PostClean ==
  ASSUME TypeOK, Clean, ~crossed', NEW c \in Callers, NEW k \in AllKinds, Post(c, k)
  PROVE  Clean'
<1>1. Posting = {}
  BY Zenon DEF Post
<1>2. /\ pc' = [pc EXCEPT ![c] = "post"] /\ read' = [read EXCEPT ![c] = file]
      /\ UNCHANGED <<file, vm, ans, refused, mirroring, live, killed, imp>>
  BY DEF Post, Goto, upstreamVars, importVars
<1>3. \A d \in Callers : pc[d] \notin {"post", "answer"}
  BY <1>1 DEF Posting
<1>4. Posting' = {c} /\ read'[c] = file
  BY <1>2, <1>3 DEF Posting, TypeOK
<1>5. \A d \in Callers : ~Lost(d) /\ ~Lost(d)'
  BY <1>2, <1>3 DEF Lost, TypeOK
<1>6. \A d \in Callers : pc'[d] # "answer" /\ (pc'[d] = "resent" => pc[d] = "resent")
  BY <1>2, <1>3 DEF TypeOK
<1>7. (Revoked' <=> Revoked) /\ (Stored' <=> Stored)
  BY <1>2 DEF Revoked, Stored
<1> QED
  BY <1>2, <1>4, <1>5, <1>6, <1>7
  DEF Clean, OneRefresher, GrantHeld, AnswerGood, VerdictReal, RecordReal

LEMMA AnsweredClean ==
  ASSUME TypeOK, TicketsOrdered, Clean, NEW c \in Callers,
         Rejects(c) \/ Fails(c) \/ \E rotates \in BOOLEAN : Grants(c, rotates)
  PROVE  Clean'
<1> DEFINE Outcome(k, t) ==
        /\ k \in {"ok", "invalid", "busy"}
        /\ pc[c] = "post" /\ pc' = [pc EXCEPT ![c] = "answer"]
        /\ ans' = [ans EXCEPT ![c] = [kind |-> k, ticket |-> t]]
        /\ UNCHANGED <<file, vm, read, refused, mirroring, killed, imp>>
        /\ k = "invalid" => read[c].rt \notin live
        /\ k # "ok" => live' = live
        /\ k = "ok" => read[c].rt \in live /\ t.rt \in live'
<1>1. PICK k, t : Outcome(k, t)
  <2>1. CASE Rejects(c)
    <3>1. Outcome("invalid", read[c])
      BY <2>1 DEF Rejects, Answered, Goto, importVars
    <3> HIDE DEF Outcome
    <3> QED  BY <3>1
  <2>2. CASE Fails(c)
    <3>1. Outcome("busy", read[c])
      BY <2>2 DEF Fails, Answered, Goto, importVars
    <3> HIDE DEF Outcome
    <3> QED  BY <3>1
  <2>3. ASSUME NEW rotates \in BOOLEAN, Grants(c, rotates)
        PROVE  \E k, t : Outcome(k, t)
    <3>1. Outcome("ok", [seq |-> issued + 1, rt |-> IF rotates THEN issued + 1 ELSE read[c].rt])
      BY <2>3 DEF Grants, Answered, Goto, importVars
    <3> HIDE DEF Outcome
    <3> QED  BY <3>1
  <2> QED  BY <2>1, <2>2, <2>3
<1>2. c \in Posting /\ read[c] = file /\ \A d \in Posting : d = c
  BY <1>1 DEF Clean, OneRefresher, Posting
<1>3. Posting' = Posting
  BY <1>1 DEF Posting, TypeOK
<1>4. \A d \in Callers : ~Lost(d)
  BY <1>1, <1>2 DEF Lost, Posting
<1>5. \A d \in Callers : (Lost(d)' => d = c /\ k = "ok") /\ (k = "ok" => Lost(c)')
  BY <1>1, <1>4 DEF Lost, TypeOK
<1>6. ans'[c].ticket = t /\ ans'[c].kind = k /\ (Revoked' <=> Revoked) /\ (Stored' <=> Stored)
  BY <1>1 DEF Revoked, Stored, TypeOK
<1>7. file.rt \in live => ~Revoked
  BY TicketNumbers DEF TicketsOrdered, Ordered, Revoked
<1>8. OneRefresher'
  BY <1>1, <1>3 DEF Clean, OneRefresher
<1>9. GrantHeld'
  BY <1>1, <1>4, <1>5, <1>6 DEF Clean, GrantHeld
<1>10. AnswerGood'
  BY <1>1, <1>2, <1>5, <1>6, <1>7 DEF AnswerGood
<1>11. VerdictReal'
  <2>1. k = "invalid" => Revoked
    BY <1>1, <1>2, <1>4 DEF Clean, GrantHeld
  <2>2. \A d \in Callers : d # c => pc'[d] = pc[d] /\ ans'[d] = ans[d]
    BY <1>1 DEF TypeOK
  <2>3. pc'[c] = "answer" /\ refused' = refused
    BY <1>1 DEF TypeOK
  <2> QED  BY <1>6, <2>1, <2>2, <2>3 DEF Clean, VerdictReal
<1>12. RecordReal'
  BY <1>1, <1>6 DEF Clean, RecordReal
<1> QED  BY <1>8, <1>9, <1>10, <1>11, <1>12 DEF Clean

LEMMA SettleClean ==
  ASSUME TypeOK, TicketsOrdered, Clean, ~crossed', NEW c \in Callers, Settle(c)
  PROVE  Clean'
<1>1. /\ pc[c] = "answer" /\ ans[c].kind = "ok" /\ Lost(c)
      /\ file' = Merged(read[c], ans[c].ticket) /\ Good(c, kind[c], file')
      /\ Forget(c) /\ UNCHANGED <<mirroring, live, killed, imp>>
  BY DEF Settle, Lost, upstreamVars, importVars
<1>2. /\ file' \in Ticket /\ file'.seq = ans[c].ticket.seq /\ file'.rt = ans[c].ticket.rt
      /\ kind[c] \in AllKinds \cup {"none"} /\ vm \in Vm
  BY <1>1 DEF Merged, TypeOK, Ticket
<1>3. c \in Posting /\ read[c] = file /\ \A d \in Posting : d = c
  BY <1>1 DEF Clean, OneRefresher, Posting
<1>4. /\ pc' = [pc EXCEPT ![c] = IF kind[c] = "hop" THEN "resent" ELSE "idle"]
      /\ \A d \in Callers : d # c => refused'[d] = refused[d]
      /\ kind[c] = "hop" => refused'[c] \in Verdicts(file'.seq)
  BY <1>1, <1>2, GoodFacts
<1>5. Posting' = {}
  BY <1>3, <1>4 DEF Posting, TypeOK
<1>6. \A d \in Callers : pc'[d] # "answer" /\ ~Lost(d)'
  BY <1>5 DEF Posting, Lost
<1>7. Revoked => Revoked'
  BY <1>1, <1>2 DEF Clean, AnswerGood, Revoked
<1>8. file'.seq > file.seq /\ file'.seq > due
  BY <1>1, <1>2, <1>3 DEF TicketsOrdered
<1>9. Revoked' \/ file'.rt \in live'
  BY <1>1, <1>2 DEF Clean, AnswerGood, Revoked
<1>10. VerdictReal'
  <2>1. pc'[c] = "resent" /\ refused'[c] => Revoked'
    <3>1. file'.seq \in Nat /\ due \in Nat /\ killed \in Nat
      BY <1>2, TicketNumbers
    <3>2. pc'[c] = "resent" => kind[c] = "hop"
      BY <1>4 DEF TypeOK
    <3> QED  BY <1>1, <1>4, <1>8, <3>1, <3>2, VerdictFacts DEF Revoked
  <2>2. \A d \in Callers : d # c => pc'[d] = pc[d] /\ refused'[d] = refused[d]
    BY <1>4 DEF TypeOK
  <2> QED  BY <1>6, <1>7, <2>1, <2>2 DEF Clean, VerdictReal
<1>11. RecordReal'
  <2>1. CASE Records(kind[c])
    <3>1. ~mirroring
      BY <1>1, <2>1, Zenon DEF Good
    <3>2. file'.seq \in Tickets /\ TRUE \in BOOLEAN /\ vm' = Persisted(vm, file'.seq, TRUE)
      BY <1>1, <1>2, <2>1 DEF Good, Ticket
    <3>3. vm'.error = "none"
      BY <1>2, <3>2, PersistedFacts
    <3> QED  BY <1>1, <3>1, <3>3 DEF RecordReal, Fatal
  <2>2. CASE ~Records(kind[c])
    <3>1. vm' = vm /\ mirroring' = mirroring /\ (Stored' <=> Stored)
      BY <1>1, <2>2 DEF Good, Stored
    <3>2. vm.expires \in Nat /\ file.seq \in Nat /\ file'.seq \in Nat
      BY <1>2, TicketNumbers DEF Vm, Tickets, Ticket
    <3> QED  BY <1>7, <1>8, <3>1, <3>2 DEF RecordReal, Clean
  <2> QED  BY <2>1, <2>2
<1> QED  BY <1>5, <1>6, <1>9, <1>10, <1>11 DEF Clean, OneRefresher, GrantHeld, AnswerGood

(* A refresh fails, a hop is sent or ends.                                    *)
LEMMA CallClean ==
  ASSUME TypeOK, Clean, NEW c \in Callers, SettleFailure(c) \/ Send(c) \/ HopEnds(c)
  PROVE  Clean'
<1>1. vm \in Vm
  BY DEF TypeOK
<1>2. CASE SettleFailure(c)
  <2>1. /\ pc[c] = "answer" /\ ans[c].kind # "ok" /\ vm' \in AfterFailure(c, ans[c].kind)
        /\ Idle(c) /\ Forget(c) /\ UNCHANGED <<file, mirroring, live, killed, imp>>
    BY <1>2 DEF SettleFailure, upstreamVars, importVars
  <2>2. /\ vm'.error = "none" => vm' = vm
        /\ Fatal(vm'.error) => vm' = vm \/ ans[c].kind = "invalid"
    BY <1>1, <2>1, AfterFailureFacts
  <2>3. RecordReal'
    BY <2>1, <2>2 DEF Clean, RecordReal, VerdictReal, Revoked, Stored
  <2>4. \A d \in Callers : \/ d = c /\ pc'[d] = "idle"
                           \/ /\ d # c /\ pc'[d] = pc[d] /\ read'[d] = read[d] /\ ans'[d] = ans[d]
                              /\ refused'[d] = refused[d]
    BY <2>1 DEF Idle, Goto, Forget, TypeOK
  <2>5. ~Lost(c)
    BY <2>1 DEF Lost
  <2> QED  BY <2>1, <2>3, <2>4, <2>5, CleanQuiet
<1>3. CASE Send(c)
  <2>1. /\ pc[c] = "idle" /\ pc' = [pc EXCEPT ![c] = "sent"]
        /\ UNCHANGED <<file, vm, read, ans, mirroring, live, killed, imp>>
        /\ \A d \in Callers : d # c => refused'[d] = refused[d]
    BY <1>3 DEF Send, Goto, upstreamVars, importVars, TypeOK
  <2>2. RecordReal'
    BY <2>1 DEF Clean, RecordReal, Revoked, Stored
  <2> QED  BY <2>1, <2>2, CleanQuiet DEF Lost, TypeOK
<1>4. CASE HopEnds(c)
  <2>1. /\ pc[c] \in {"sent", "resent"} /\ Idle(c)
        /\ UNCHANGED <<file, read, ans, mirroring, live, killed, imp>>
    BY <1>4 DEF HopEnds, upstreamVars, importVars
  <2>2. vm' = vm \/ (Revoked /\ vm'.error = "oauth_revoked")
    BY <1>1, <1>4, MarkedFacts DEF HopEnds, Clean, VerdictReal, Errors
  <2>3. RecordReal'
    BY <2>1, <2>2 DEF Clean, RecordReal, Revoked, Stored
  <2>4. \A d \in Callers : \/ d = c /\ pc'[d] = "idle"
                           \/ d # c /\ pc'[d] = pc[d] /\ refused'[d] = refused[d]
    BY <2>1 DEF Idle, Goto, TypeOK
  <2> QED  BY <2>1, <2>3, <2>4, CleanQuiet DEF Lost
<1> QED  BY <1>2, <1>3, <1>4

(* The mirror, the process, the imports, the operator, the clock, the owner.  *)
LEMMA OutsideClean ==
  ASSUME TypeOK, SwitchLocked, TicketsOrdered, Clean, ~crossed',
         \/ BeginMirror \/ EndMirror \/ Crash \/ Age \/ Revoke \/ UNCHANGED vars
         \/ \E i \in Importers :
              BeginImport(i) \/ AbortImport(i) \/ ReloadImport(i) \/ ImportWorkerCredential(i) \/ CommitImport(i)
         \/ \E on \in BOOLEAN : SetVmSchedulable(on)
  PROVE  Clean'
<1>1. vm \in Vm /\ file \in Ticket
  BY DEF TypeOK
<1>2. ASSUME UNCHANGED <<callerVars, file, live, killed>>, RecordReal' PROVE Clean'
  BY <1>2, CleanQuiet DEF callerVars
<1>3. CASE BeginMirror
  <2>1. UNCHANGED <<callerVars, file, live, killed, vm, imp>>
    BY <1>3 DEF BeginMirror, upstreamVars, importVars
  <2>2. vm.error = "none" /\ vm.reason = "oauth_revoked" => file.seq > vm.expires
    BY <1>3 DEF BeginMirror, SwitchLocked
  <2>3. RecordReal'
    BY <2>1, <2>2 DEF Clean, RecordReal, Revoked, Stored
  <2> QED  BY <1>2, <2>1, <2>3
<1>4. CASE EndMirror
  <2>1. UNCHANGED <<callerVars, file, live, killed, imp>> /\ mirroring /\ mirroring' = FALSE
    BY <1>4 DEF EndMirror, upstreamVars, importVars
  <2>2. Fatal(vm'.error) => Revoked \/ Stored
    <3>1. CASE vm' = vm
      BY <3>1 DEF Clean, RecordReal
    <3>2. CASE vm' = Persisted(vm, file.seq, FALSE)
      <4>1. file.seq \in Tickets /\ FALSE \in BOOLEAN
        BY <1>1 DEF Ticket
      <4>2. Fatal(vm'.error) => \/ Fatal(vm.error)
                                \/ vm.error = "none" /\ vm.reason = "oauth_revoked" /\ ~(file.seq > vm.expires)
        BY <1>1, <3>2, <4>1, PersistedFacts
      <4> QED  BY <2>1, <4>2 DEF Clean, RecordReal
    <3> QED  BY <1>4, <3>1, <3>2 DEF EndMirror
  <2>3. RecordReal'
    BY <2>1, <2>2 DEF RecordReal, Revoked, Stored
  <2> QED  BY <1>2, <2>1, <2>3
<1>5. CASE Crash
  <2>1. ~Stored /\ \A c \in Callers : ~Lost(c)
    BY <1>5, Zenon DEF Crash
  <2>2. /\ UNCHANGED <<file, vm, live, killed>> /\ mirroring' = FALSE
        /\ \A c \in Callers : pc'[c] = "idle"
    BY <1>5 DEF Crash, upstreamVars
  <2>3. RecordReal'
    BY <2>1, <2>2 DEF Clean, RecordReal, Revoked
  <2> QED  BY <2>1, <2>2, <2>3, CleanQuiet
<1>6. CASE Age \/ UNCHANGED vars \/ \E i \in Importers : BeginImport(i) \/ AbortImport(i)
  <2>1. UNCHANGED <<callerVars, file, live, killed, vm, mirroring>>
    BY <1>6 DEF Age, vars, BeginImport, AbortImport, upstreamVars
  <2>3. Stored => Stored'
    BY <1>6 DEF Age, vars, BeginImport, AbortImport, ImportOver, importVars, Stored, TypeOK
  <2>2. RecordReal'
    BY <2>1, <2>3 DEF Clean, RecordReal, Revoked
  <2> QED  BY <1>2, <2>1, <2>2
<1>7. CASE Revoke
  <2>1. killed' = issued /\ live' = {} /\ UNCHANGED <<file, vm, callerVars, mirroring>>
    BY <1>7 DEF Revoke
  <2>2. Revoked' /\ \A c \in Callers : ans'[c].ticket.seq <= killed'
    BY <2>1 DEF Revoked, TicketsOrdered, Ordered, callerVars
  <2>3. OneRefresher'
    BY <2>1 DEF Clean, OneRefresher, Posting, callerVars
  <2>4. RecordReal'
    BY <2>1, <2>2 DEF Clean, RecordReal
  <2> QED  BY <2>2, <2>3, <2>4 DEF Clean, GrantHeld, AnswerGood, VerdictReal
<1>8. ASSUME NEW i \in Importers, ReloadImport(i) PROVE Clean'
  <2>1. UNCHANGED <<callerVars, file, live, killed, mirroring>> /\ vm' = SwitchedOn(vm)
    BY <1>8, Zenon DEF ReloadImport, upstreamVars
  <2>2. vm'.error = vm.error /\ vm'.reason = "none"
    BY <1>1, <2>1 DEF SwitchedOn, Vm
  <2>3. Stored => Stored'
    BY <1>8 DEF ReloadImport, Stored, TypeOK
  <2>4. RecordReal'
    BY <2>1, <2>2, <2>3 DEF Clean, RecordReal, Revoked
  <2> QED  BY <1>2, <2>1, <2>4
<1>10. ASSUME NEW i \in Importers, ImportWorkerCredential(i) PROVE Clean'
  <2>1. \A c \in Callers : pc[c] = "idle"
    BY <1>10, Zenon DEF ImportWorkerCredential
  <2>2. /\ live' = live \cup {issued + 1} /\ file' = [seq |-> issued + 1, rt |-> issued + 1]
        /\ UNCHANGED <<vm, pc, mirroring>>
    BY <1>10 DEF ImportWorkerCredential, callerVars, TypeOK
  <2>3. Posting' = {} /\ \A c \in Callers : pc'[c] = "idle" /\ ~Lost(c)'
    BY <2>1, <2>2 DEF Posting, Lost
  <2>4. Stored'
    BY <1>10 DEF ImportWorkerCredential, Stored, TypeOK
  <2>5. file'.rt \in live' /\ (file.seq > vm.expires => file'.seq > vm.expires)
    <3>1. file.seq <= issued /\ issued \in Nat /\ file.seq \in Nat /\ vm.expires \in Nat
      BY <1>1, TicketNumbers DEF TicketsOrdered, Ordered, Vm, Tickets
    <3> QED  BY <2>2, <3>1
  <2>6. RecordReal'
    BY <2>2, <2>4, <2>5 DEF Clean, RecordReal
  <2> QED  BY <2>3, <2>5, <2>6 DEF Clean, OneRefresher, GrantHeld, AnswerGood, VerdictReal
<1>11. ASSUME NEW i \in Importers, CommitImport(i) PROVE Clean'
  <2>1. ~mirroring /\ file = given[i]
    BY <1>11, Zenon DEF CommitImport
  <2>2. UNCHANGED <<callerVars, file, live, killed, mirroring>> /\ vm' = Imported(i)
    BY <1>11, <2>1 DEF CommitImport, upstreamVars
  <2>3. RecordReal'
    BY <2>1, <2>2, ImportedFacts DEF RecordReal, Fatal
  <2> QED  BY <1>2, <2>2, <2>3
<1>9. ASSUME NEW on \in BOOLEAN, SetVmSchedulable(on) PROVE Clean'
  <2>1. /\ UNCHANGED <<callerVars, file, live, killed, mirroring, imp>>
        /\ vm'.error = vm.error /\ vm'.reason # "oauth_revoked"
    BY <1>1, <1>9 DEF SetVmSchedulable, upstreamVars, importVars, Vm
  <2>2. RecordReal'
    BY <2>1 DEF Clean, RecordReal, Revoked, Stored
  <2> QED  BY <1>2, <2>1, <2>2
<1> QED  BY <1>3, <1>4, <1>5, <1>6, <1>7, <1>8, <1>9, <1>10, <1>11

-----------------------------------------------------------------------------
(* The invariant is inductive.                                                *)

LEMMA InitHolds == Init => IInv
<1> SUFFICES ASSUME Init PROVE IInv
  OBVIOUS
<1>1. TypeOK
  <2>1. vm \in Vm /\ 1 \in Tickets
    BY RefreshAssumption, NewVmType DEF Init, Tickets, RefreshAssumption
  <2>2. refused \in [Callers -> BOOLEAN] /\ copy \in [Importers -> OnVm] /\ given \in [Importers -> Ticket]
    BY NewVmType, FirstType DEF Init
  <2>3. mirroring \in BOOLEAN /\ off \in BOOLEAN /\ crossed \in BOOLEAN
    BY DEF Init
  <2>4. live \in SUBSET (1..issued) /\ issued \in Tickets /\ killed \in 0..issued /\ due \in 0..issued
    BY <2>1 DEF Init
  <2> QED  BY <2>1, <2>2, <2>3, <2>4, FirstType DEF Init, TypeOK
<1>2. TicketsOrdered
  BY FirstOrdered, <1>1 DEF Init, TicketsOrdered, Lost, NoAnswer
<1>3. SwitchLocked
  BY DEF Init, SwitchLocked, NewVm
<1>4. Clean
  BY DEF Init, NewVm, Clean, OneRefresher, GrantHeld, AnswerGood, VerdictReal, RecordReal, Posting, Lost, Fatal, First
<1> QED  BY <1>1, <1>2, <1>3, <1>4 DEF IInv

LEMMA NextHolds == IInv /\ [Next]_vars => IInv'
<1> SUFFICES ASSUME IInv, [Next]_vars PROVE IInv'
  OBVIOUS
<1>1. TypeOK' /\ TicketsOrdered' /\ SwitchLocked'
  BY TypeStep, TicketStep, SwitchStep DEF IInv
<1>2. ASSUME ~crossed' PROVE Clean'
  <2>1. Clean /\ TypeOK /\ TicketsOrdered /\ SwitchLocked
    BY <1>2, CrossedStays DEF IInv
  <2>2. ASSUME NEW c \in Callers, LoseAnswer(c) PROVE FALSE
    BY <1>2, <2>2 DEF LoseAnswer
  <2> QED  BY <1>2, <2>1, <2>2, FreshClean, PostClean, AnsweredClean, SettleClean, CallClean, OutsideClean DEF Next
<1> QED  BY <1>1, <1>2 DEF IInv

-----------------------------------------------------------------------------
(* The theorems.                                                              *)

(* The invariant holds throughout.                                            *)
THEOREM Inductive == Spec => []IInv
BY InitHolds, NextHolds, PTL DEF Spec

(* Every variable keeps its type: no call writes a ticket that the token      *)
(* endpoint has not issued.                                                   *)
THEOREM TypeCorrect == Spec => []TypeOK
<1>1. IInv => TypeOK
  BY DEF IInv
<1> QED  BY <1>1, Inductive, PTL

(* A slot keeps its grant: with one refresher at a time and no lost answer,   *)
(* the refresh token in credentials.json is accepted, or revoked by its       *)
(* owner, or replaced by the answer about to be written.                      *)
THEOREM GrantCorrect == Spec => []GrantKept
<1>1. IInv => GrantKept
  <2> SUFFICES ASSUME IInv, ~crossed, ~Revoked, file.rt \notin live
               PROVE  \E c \in Callers : Lost(c) /\ read[c] = file /\ ans[c].ticket.rt \in live
    BY DEF GrantKept
  <2>1. PICK c \in Callers : Lost(c)
    BY DEF IInv, Clean, GrantHeld
  <2>2. read[c] = file
    BY <2>1 DEF IInv, Clean, OneRefresher, Posting, Lost
  <2>3. ans[c].ticket.seq > file.seq /\ ~(file.seq <= killed)
    BY <2>1, <2>2 DEF IInv, TicketsOrdered, Revoked
  <2>4. ~(ans[c].ticket.seq <= killed)
    BY <2>3, TicketNumbers DEF IInv
  <2> QED  BY <2>1, <2>2, <2>4 DEF IInv, Clean, AnswerGood
<1> QED  BY <1>1, Inductive, PTL

(* A slot is recorded dead only when its grant was revoked, when an import    *)
(* that has replaced the grant is about to say so, or when somebody acted on  *)
(* what another had replaced.                                                 *)
THEOREM DeathCorrect == Spec => []DeathIsReal
<1>1. IInv => DeathIsReal
  BY DEF IInv, Clean, RecordReal, DeathIsReal
<1> QED  BY <1>1, Inductive, PTL

(* Refreshes, mirrors, recorded errors and imports that do not reload leave a *)
(* slot off that the operator switched off.                                   *)
THEOREM OperatorOffCorrect == Spec => []OperatorOffKept
<1>1. IInv => OperatorOffKept
  BY DEF IInv, SwitchLocked, OperatorOffKept
<1> QED  BY <1>1, Inductive, PTL

(* A recorded revocation is lifted by a newer ticket, by the monitor or the   *)
(* panel, or by an import, and by no other step (persistOauthToVm).           *)
THEOREM RevocationCorrect == Spec => RevocationStands
<1> DEFINE Lifted == vm.error = "oauth_revoked" /\ vm'.error = "none"
           Vouched == \/ vm'.expires > vm.expires
                      \/ imp' # imp \/ \E c \in Callers : pc'[c] = "idle" /\ Records(kind[c])
                      \/ \E c \in Callers : AlreadyFresh(c, "monitor")
<1>1. TypeOK /\ [Next]_vars => [Lifted => Vouched]_vars
  <2> SUFFICES ASSUME TypeOK, Next, Lifted PROVE Vouched
    BY DEF Lifted
  <2>1. vm \in Vm /\ file \in Ticket /\ vm' # vm
    BY DEF TypeOK
  <2>2. ASSUME NEW c \in Callers, NEW k \in AllKinds, AlreadyFresh(c, k) PROVE Vouched
    <3>1. k = "monitor"
      BY <2>1, <2>2 DEF AlreadyFresh, Good, Records, Forced
    <3> QED  BY <2>2, <3>1
  <2>3. ASSUME NEW c \in Callers, Settle(c) PROVE Vouched
    <3>1. Records(kind[c])
      BY <2>1, <2>3 DEF Settle, Good
    <3>2. pc'[c] = "idle"
      BY <2>3, <3>1 DEF Settle, Good, Records, Idle, Goto, TypeOK
    <3> QED  BY <3>1, <3>2
  <2>4. ASSUME NEW c \in Callers, SettleFailure(c) \/ LoseAnswer(c) PROVE FALSE
    BY <2>1, <2>4, AfterFailureFacts DEF SettleFailure, LoseAnswer
  <2>5. ASSUME NEW c \in Callers, HopEnds(c) PROVE FALSE
    BY <2>1, <2>5, MarkedFacts DEF HopEnds, Errors
  <2>6. CASE EndMirror
    <3>1. file.seq \in Tickets /\ FALSE \in BOOLEAN /\ vm' = Persisted(vm, file.seq, FALSE)
      BY <2>1, <2>6 DEF EndMirror, Ticket
    <3>2. vm'.expires = file.seq /\ file.seq > vm.expires
      BY <2>1, <3>1, PersistedFacts
    <3> QED  BY <3>2
  <2>7. ASSUME NEW i \in Importers, ReloadImport(i) \/ CommitImport(i) PROVE Vouched
    <3>1. imp'[i] # imp[i]
      BY <2>7 DEF ReloadImport, CommitImport, ImportOver, TypeOK
    <3> QED  BY <3>1
  <2>8. ASSUME NEW on \in BOOLEAN, SetVmSchedulable(on) PROVE FALSE
    BY <2>1, <2>8 DEF SetVmSchedulable, Vm
  <2>9. ASSUME NEW c \in Callers,
               \/ \E k \in AllKinds : Post(c, k)
               \/ \E rotates \in BOOLEAN : Grants(c, rotates)
               \/ Rejects(c) \/ Fails(c) \/ Send(c)
        PROVE  FALSE
    BY <2>1, <2>9 DEF Post, Grants, Rejects, Fails, Answered, Send
  <2>10. CASE \/ BeginMirror \/ Crash \/ Age \/ Revoke
              \/ \E i \in Importers : BeginImport(i) \/ AbortImport(i) \/ ImportWorkerCredential(i)
    BY <2>1, <2>10 DEF BeginMirror, Crash, Age, Revoke, BeginImport, AbortImport, ImportWorkerCredential
  <2> HIDE DEF Vouched
  <2> QED  BY <2>2, <2>3, <2>4, <2>5, <2>6, <2>7, <2>8, <2>9, <2>10 DEF Next
<1> QED  BY <1>1, TypeCorrect, PTL DEF Spec, RevocationStands
=============================================================================

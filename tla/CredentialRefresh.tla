-------------------------- MODULE CredentialRefresh --------------------------
(* The OAuth ticket of one slot: credentials.json, which every refresher      *)
(* reads before its POST and writes after it (host-token-refresh.mjs), and    *)
(* what vm.json says of it (oauth-credentials.mjs).  The refreshers are the   *)
(* refresh monitor, the panel's refresh button, the hops that were answered   *)
(* 401 and the host's own probes; an import replaces the ticket, the panel    *)
(* and the scheduler mirror it into vm.json, and the operator switches the    *)
(* slot.  Between an await and its continuation anything else may happen.     *)
EXTENDS Naturals, FiniteSets

CONSTANTS
  Callers,       \* calls that can be under way at once (bound)
  Kinds,         \* what each of them may be
  Importers,     \* imports that can be under way at once (bound)
  MaxTickets     \* tickets the token endpoint issues (bound)

AllKinds == {"monitor", "panel", "hop", "probe"}

ASSUME RefreshAssumption ==
  /\ IsFiniteSet(Callers) /\ Kinds \in [Callers -> SUBSET AllKinds]
  /\ MaxTickets \in Nat \ {0}

VARIABLES
  file,        \* credentials.json: the ticket's number and its refresh token
  vm,          \* vm.json: expires_at, refresh_error and the schedule switch
  kind,        \* what each call is
  pc,          \* where it is
  read,        \* the credential it read before its POST
  ans,         \* the answer of the token endpoint
  refused,     \* the verdict on the hop's current send
  mirroring,   \* a mirror waits for the kernel's health
  imp,         \* where each import is
  copy,        \* what the import route will still write of the vm.json it read at its start
  given,       \* the ticket the import brings, once it is in credentials.json
  live,        \* upstream: the refresh tokens that are accepted
  issued,      \* upstream: the number of tickets issued
  killed,      \* upstream: tickets up to this one are revoked
  due,         \* tickets up to this one are in the refresh window
  off,         \* history: the operator switched the slot off, and no import wrote over it
  crossed      \* history: someone acted on a ticket or a record replaced meanwhile

callerVars   == <<kind, pc, read, ans, refused>>
importVars   == <<imp, copy, given>>
upstreamVars == <<live, issued, killed, due>>
vars == <<file, vm, callerVars, mirroring, importVars, upstreamVars, off, crossed>>

Tickets == 1..MaxTickets
Ticket  == [seq : Tickets, rt : Tickets]
Errors  == {"none", "failed", "invalid_grant", "oauth_revoked"}
Reasons == {"none", "disabled", "oauth_invalid_grant", "oauth_revoked"}
Vm      == [expires : Tickets, error : Errors, sched : BOOLEAN, reason : Reasons, manual : BOOLEAN]
OnVm    == [expires : Tickets, error : Errors, sched : {TRUE}, reason : {"none"}, manual : BOOLEAN]

First    == [seq |-> 1, rt |-> 1]
NoAnswer == [kind |-> "none", ticket |-> First]
NewVm    == [expires |-> 1, error |-> "none", sched |-> TRUE, reason |-> "none", manual |-> FALSE]

Init ==
  /\ file = First
  /\ vm = NewVm
  /\ kind = [c \in Callers |-> "none"] /\ pc = [c \in Callers |-> "idle"]
  /\ read = [c \in Callers |-> First]
  /\ ans = [c \in Callers |-> NoAnswer]
  /\ refused = [c \in Callers |-> FALSE]
  /\ mirroring = FALSE
  /\ imp = [i \in Importers |-> "idle"]
  /\ copy = [i \in Importers |-> NewVm] /\ given = [i \in Importers |-> First]
  /\ live = {1} /\ issued = 1 /\ killed = 0 /\ due = 0
  /\ off = FALSE /\ crossed = FALSE

-----------------------------------------------------------------------------
(* What is written into vm.json.                                              *)

Fatal(error) == error \in {"invalid_grant", "oauth_revoked"}

(* isManualScheduleLocked                                                     *)
ManualScheduleLocked(v) == v.manual \/ v.reason = "disabled"

(* mutant: the restore does not look at the operator's lock                   *)
RestoredAlways(v) == [v EXCEPT !.sched = TRUE, !.reason = "none"]

(* restoreScheduleAfterLiveCredential                                         *)
Restored(v) ==
  IF ManualScheduleLocked(v) THEN v ELSE [v EXCEPT !.sched = TRUE, !.reason = "none"]

(* persistOauthToVm looks at the first of its three fields that is set.       *)
PrevRevoked(v) == IF v.error = "none" THEN v.reason = "oauth_revoked" ELSE v.error = "oauth_revoked"

(* mutant: a passive mirror takes every ticket for a live grant               *)
KeepsNothing(v, seq, accept) == FALSE

(* A revocation stands unless the ticket is newer or the caller vouches.      *)
KeepsRevocation(v, seq, accept) == PrevRevoked(v) /\ ~(seq > v.expires) /\ ~accept

(* persistOauthToVm                                                           *)
Persisted(v, seq, accept) ==
  LET w == [v EXCEPT !.expires = seq] IN
  IF KeepsRevocation(v, seq, accept)
  THEN [w EXCEPT !.error = IF v.error = "none" THEN "oauth_revoked" ELSE v.error]
  ELSE Restored([w EXCEPT !.error = "none"])

(* markVmRefreshError: a fatal error takes the slot out, even a manual one.   *)
Marked(v, error) ==
  IF Fatal(error)
  THEN [v EXCEPT !.error = error, !.sched = FALSE,
                 !.reason = IF error = "oauth_revoked" THEN error ELSE "oauth_invalid_grant"]
  ELSE [v EXCEPT !.error = error]

-----------------------------------------------------------------------------
(* A refresher: refreshSlotCredentialIfNeeded.                                *)

Goto(c, where) == pc' = [pc EXCEPT ![c] = where]

(* The locals of a call that has returned are gone.                           *)
Forget(c) == read' = [read EXCEPT ![c] = First] /\ ans' = [ans EXCEPT ![c] = NoAnswer]

Idle(c) ==
  /\ Goto(c, "idle") /\ kind' = [kind EXCEPT ![c] = "none"]
  /\ refused' = [refused EXCEPT ![c] = FALSE]

Posting == {c \in Callers : pc[c] \in {"post", "answer"}}

(* The refreshers that record the outcome: refreshWorkerCredentialForVm.      *)
Records(k) == k \in {"monitor", "panel"}

(* Upstream rejects a revoked ticket, and one that has run out; a ticket in   *)
(* the window may have run out.                                               *)
Verdicts(seq) ==
  CASE seq <= killed -> {TRUE}
    [] seq > killed /\ seq <= due -> BOOLEAN
    [] OTHER -> {FALSE}

(* The ticket is good: the monitor and the panel mirror it and vouch for it,  *)
(* a hop is sent again with it, a probe goes on.                              *)
Good(c, k, ticket) ==
  /\ vm' = IF Records(k) THEN Persisted(vm, ticket.seq, TRUE) ELSE vm
  /\ IF k = "hop"
     THEN /\ Goto(c, "resent") /\ UNCHANGED kind
          /\ \E verdict \in Verdicts(ticket.seq) : refused' = [refused EXCEPT ![c] = verdict]
     ELSE Idle(c)
  /\ crossed' = (crossed \/ (Records(k) /\ mirroring))

(* Who asks, and when: the monitor for a slot whose vm.json is due and clean, *)
(* the panel always, a hop after a rejected send, a probe before its request. *)
Asks(c, k) ==
  IF k = "hop"
  THEN kind[c] = "hop" /\ pc[c] = "sent" /\ refused[c]
  ELSE /\ pc[c] = "idle" /\ k \in Kinds[c]
       /\ k = "monitor" => vm.expires <= due /\ vm.error = "none"

Forced(k) == k = "panel"

AlreadyFresh(c, k) ==
  /\ Asks(c, k) /\ ~Forced(k) /\ file.seq > due
  /\ Good(c, k, file)
  /\ UNCHANGED <<file, read, ans, mirroring, importVars, upstreamVars, off>>

Post(c, k) ==
  /\ Asks(c, k) /\ (Forced(k) \/ file.seq <= due)
  /\ Goto(c, "post") /\ kind' = [kind EXCEPT ![c] = k] /\ read' = [read EXCEPT ![c] = file]
  /\ crossed' = (crossed \/ Posting # {})
  /\ UNCHANGED <<file, vm, ans, refused, mirroring, importVars, upstreamVars, off>>

(* The token endpoint answers with the next ticket, whose refresh token is a  *)
(* new one or the old one, or rejects the refresh token, or cannot.           *)
Answered(c, k, ticket) ==
  /\ pc[c] = "post" /\ Goto(c, "answer")
  /\ ans' = [ans EXCEPT ![c] = [kind |-> k, ticket |-> ticket]]
  /\ UNCHANGED <<file, vm, kind, read, refused, mirroring, importVars, killed, due, off, crossed>>

Grants(c, rotates) ==
  /\ read[c].rt \in live /\ issued < MaxTickets
  /\ issued' = issued + 1
  /\ live' = IF rotates THEN (live \ {read[c].rt}) \cup {issued + 1} ELSE live
  /\ Answered(c, "ok", [seq |-> issued + 1, rt |-> IF rotates THEN issued + 1 ELSE read[c].rt])

Rejects(c) ==
  /\ read[c].rt \notin live /\ Answered(c, "invalid", read[c])
  /\ UNCHANGED <<issued, live>>

Fails(c) == Answered(c, "busy", read[c]) /\ UNCHANGED <<issued, live>>

(* mutant: the refresh token of the answer is not taken over                  *)
MergedAccessOnly(cred, ticket) == [cred EXCEPT !.seq = ticket.seq]

(* postRefresh falls back to the old refresh token; the caller merges.        *)
Merged(cred, ticket) == [cred EXCEPT !.seq = ticket.seq, !.rt = ticket.rt]

Settle(c) ==
  /\ pc[c] = "answer" /\ ans[c].kind = "ok"
  /\ file' = Merged(read[c], ans[c].ticket)
  /\ Good(c, kind[c], file') /\ Forget(c)
  /\ UNCHANGED <<mirroring, importVars, upstreamVars, off>>

(* mutant: a busy token endpoint is taken for a dead grant                    *)
BusyIsDeath(c, answer) ==
  {Marked(vm, IF Records(kind[c]) THEN "invalid_grant" ELSE "oauth_revoked")}

(* What a failed refresh leaves in vm.json.  The monitor and the panel record *)
(* every failure that is not retryable by its wording; the 401 that a hop     *)
(* makes of a fatal one is recorded as a revocation, unless it is unconfirmed.*)
AfterFailure(c, answer) ==
  CASE Records(kind[c]) /\ answer = "invalid" -> {Marked(vm, "invalid_grant")}
    [] Records(kind[c]) /\ answer = "busy" -> {vm, Marked(vm, "failed")}
    [] kind[c] = "hop" /\ answer = "invalid" -> {vm, Marked(vm, "oauth_revoked")}
    [] OTHER -> {vm}

SettleFailure(c) ==
  /\ pc[c] = "answer" /\ ans[c].kind # "ok"
  /\ Idle(c) /\ Forget(c) /\ vm' \in AfterFailure(c, ans[c].kind)
  /\ UNCHANGED <<file, mirroring, importVars, upstreamVars, off, crossed>>

(* The answer is lost, or the process that waits for it.                      *)
Lost(c) == pc[c] = "answer" /\ ans[c].kind = "ok"

LoseAnswer(c) ==
  /\ Lost(c) /\ crossed' = TRUE
  /\ Idle(c) /\ Forget(c) /\ vm' \in AfterFailure(c, "busy")
  /\ UNCHANGED <<file, mirroring, importVars, upstreamVars, off>>

(* An import has written credentials.json and not yet vm.json.                *)
Stored == \E i \in Importers : imp[i] = "stored"

Crash ==
  /\ kind' = [c \in Callers |-> "none"] /\ pc' = [c \in Callers |-> "idle"] /\ refused' = [c \in Callers |-> FALSE]
  /\ read' = [c \in Callers |-> First] /\ ans' = [c \in Callers |-> NoAnswer]
  /\ imp' = [i \in Importers |-> "idle"]
  /\ copy' = [i \in Importers |-> NewVm] /\ given' = [i \in Importers |-> First]
  /\ mirroring' = FALSE
  /\ crossed' = (crossed \/ Stored \/ \E c \in Callers : Lost(c))
  /\ UNCHANGED <<file, vm, upstreamVars, off>>

-----------------------------------------------------------------------------
(* A hop.                                                                     *)

Send(h) ==
  /\ "hop" \in Kinds[h] /\ pc[h] = "idle"
  /\ Goto(h, "sent") /\ kind' = [kind EXCEPT ![h] = "hop"]
  /\ \E verdict \in Verdicts(file.seq) : refused' = [refused EXCEPT ![h] = verdict]
  /\ UNCHANGED <<file, vm, read, ans, mirroring, importVars, upstreamVars, off, crossed>>

(* A hop that was answered, or whose 401 is unconfirmed, changes nothing; the *)
(* second 401 is recorded: applyCooldown and onCredentialFailure.             *)
HopEnds(h) ==
  /\ pc[h] \in {"sent", "resent"} /\ Idle(h)
  /\ \/ vm' = vm
     \/ pc[h] = "resent" /\ refused[h] /\ vm' = Marked(vm, "oauth_revoked")
  /\ UNCHANGED <<file, read, ans, mirroring, importVars, upstreamVars, off, crossed>>

-----------------------------------------------------------------------------
(* Mirrors, imports and the operator.                                         *)

(* collectLivePanelCredentials for a file newer than vm.json, getWorkerHealth *)
(* for a slot that can be scheduled; both then wait for the kernel's health.  *)
BeginMirror ==
  /\ ~mirroring /\ (file.seq > vm.expires \/ (vm.sched /\ vm.error = "none"))
  /\ mirroring' = TRUE
  /\ UNCHANGED <<file, vm, callerVars, importVars, upstreamVars, off, crossed>>

(* mirrorWorkerCredentialsToVm, or the health was not good                    *)
EndMirror ==
  /\ mirroring /\ mirroring' = FALSE
  /\ \/ vm' = Persisted(vm, file.seq, FALSE)
     \/ vm' = vm
  /\ UNCHANGED <<file, callerVars, importVars, upstreamVars, off, crossed>>

SwitchedOn(v) == [v EXCEPT !.sched = TRUE, !.reason = "none"]

(* From here on the route writes only schedule_manual of its copy.            *)
KeepManual(i) == copy' = [copy EXCEPT ![i] = [NewVm EXCEPT !.manual = copy[i].manual]]

BeginImport(i) ==
  /\ imp[i] = "idle" /\ imp' = [imp EXCEPT ![i] = "login"]
  /\ copy' = [copy EXCEPT ![i] = SwitchedOn(vm)]
  /\ UNCHANGED <<file, vm, callerVars, mirroring, given, upstreamVars, off, crossed>>

ImportOver(i) ==
  /\ imp' = [imp EXCEPT ![i] = "idle"]
  /\ copy' = [copy EXCEPT ![i] = NewVm] /\ given' = [given EXCEPT ![i] = First]

(* The login failed, the slot could not be started, or its worker refused.    *)
AbortImport(i) ==
  /\ imp[i] \in {"login", "reloaded"} /\ ImportOver(i)
  /\ UNCHANGED <<file, vm, callerVars, mirroring, upstreamVars, off, crossed>>

(* commitImportedOauth: a slot without a socket, or on another proxy, is      *)
(* reloaded first; then the route's own copy is written, switched on.         *)
ReloadImport(i) ==
  /\ imp[i] = "login" /\ imp' = [imp EXCEPT ![i] = "reloaded"]
  /\ vm' = copy[i] /\ KeepManual(i)
  /\ off' = FALSE /\ crossed' = (crossed \/ SwitchedOn(vm) # copy[i])
  /\ UNCHANGED <<file, callerVars, mirroring, given, upstreamVars>>

(* importWorkerCredential writes credentials.json.                            *)
ImportWorkerCredential(i) ==
  /\ imp[i] \in {"login", "reloaded"} /\ issued < MaxTickets
  /\ imp' = [imp EXCEPT ![i] = "stored"]
  /\ issued' = issued + 1 /\ live' = live \cup {issued + 1}
  /\ given' = [given EXCEPT ![i] = [seq |-> issued + 1, rt |-> issued + 1]]
  /\ file' = given'[i]
  /\ crossed' = (crossed \/ \E c \in Callers : pc[c] # "idle")
  /\ KeepManual(i)
  /\ UNCHANGED <<vm, callerVars, mirroring, killed, due, off>>

(* Once it has the lock: persistOauthToVm, then the copy again, with what     *)
(* that left of claude, schedulable and the reason.                           *)
Imported(i) == [Persisted(vm, given[i].seq, TRUE) EXCEPT !.manual = copy[i].manual]

(* writeWorkerCredentialFile then writes credentials.json once more.          *)
CommitImport(i) ==
  /\ imp[i] = "stored" /\ ImportOver(i)
  /\ vm' = Imported(i) /\ file' = given[i]
  /\ crossed' = (crossed \/ mirroring \/ file # given[i])
  /\ off' = (off /\ copy[i].manual)
  /\ UNCHANGED <<callerVars, mirroring, upstreamVars>>

(* setVmSchedulable, source manual                                            *)
SetVmSchedulable(on) ==
  /\ vm' = [vm EXCEPT !.manual = TRUE, !.sched = on, !.reason = IF on THEN "none" ELSE "disabled"]
  /\ off' = ~on
  /\ UNCHANGED <<file, callerVars, mirroring, importVars, upstreamVars, crossed>>

-----------------------------------------------------------------------------
(* The clock, and the owner of the grant.                                     *)

(* The life of a ticket is counted from the receipt of the answer, so one     *)
(* that is not yet written is not in the window.                              *)
Age ==
  /\ due < issued /\ due' = due + 1
  /\ \A c \in Callers : Lost(c) => ans[c].ticket.seq > due'
  /\ UNCHANGED <<file, vm, callerVars, mirroring, importVars, live, issued, killed, off, crossed>>

Revoke ==
  /\ live' = {} /\ killed' = issued
  /\ UNCHANGED <<file, vm, callerVars, mirroring, importVars, issued, due, off, crossed>>

Next ==
  \/ \E c \in Callers :
       \/ (\E k \in AllKinds : AlreadyFresh(c, k) \/ Post(c, k))
       \/ (\E rotates \in BOOLEAN : Grants(c, rotates))
       \/ Rejects(c) \/ Fails(c) \/ Settle(c) \/ SettleFailure(c) \/ LoseAnswer(c)
       \/ Send(c) \/ HopEnds(c)
  \/ BeginMirror \/ EndMirror \/ Crash
  \/ \E i \in Importers :
       BeginImport(i) \/ AbortImport(i) \/ ReloadImport(i) \/ ImportWorkerCredential(i) \/ CommitImport(i)
  \/ \E on \in BOOLEAN : SetVmSchedulable(on)
  \/ Age \/ Revoke

Spec == Init /\ [][Next]_vars

-----------------------------------------------------------------------------
(* Properties.                                                                *)

(* Every variable has its type.                                               *)
TypeOK ==
  /\ file \in Ticket /\ vm \in Vm
  /\ kind \in [Callers -> AllKinds \cup {"none"}]
  /\ pc \in [Callers -> {"idle", "post", "answer", "sent", "resent"}]
  /\ read \in [Callers -> Ticket]
  /\ ans \in [Callers -> [kind : {"none", "ok", "invalid", "busy"}, ticket : Ticket]]
  /\ refused \in [Callers -> BOOLEAN]
  /\ mirroring \in BOOLEAN
  /\ imp \in [Importers -> {"idle", "login", "reloaded", "stored"}]
  /\ copy \in [Importers -> OnVm] /\ given \in [Importers -> Ticket]
  /\ live \in SUBSET (1..issued) /\ issued \in Tickets
  /\ killed \in 0..issued /\ due \in 0..issued
  /\ off \in BOOLEAN /\ crossed \in BOOLEAN

Revoked == file.seq <= killed

(* The slot never loses its grant by itself: as long as no two refreshers     *)
(* overlapped and no answer was lost, the refresh token in credentials.json   *)
(* is one the token endpoint accepts, or the grant was revoked, or the answer *)
(* that replaces it is about to be written.                                   *)
GrantKept ==
  crossed \/ Revoked \/ file.rt \in live
          \/ \E c \in Callers : Lost(c) /\ read[c] = file /\ ans[c].ticket.rt \in live

(* A slot is recorded dead (refresh_error is fatal) only when its grant was   *)
(* revoked, when an import that has replaced the grant is about to say so, or *)
(* when somebody acted on what another had replaced meanwhile.                *)
DeathIsReal == Fatal(vm.error) => crossed \/ Revoked \/ Stored

(* A slot the operator switched off stays off, whatever refreshes, mirrors    *)
(* and recorded errors do, until an import overwrites the switch.             *)
OperatorOffKept == off => ~vm.sched

(* A recorded revocation is lifted only by a newer ticket, by a refresh of    *)
(* the monitor or the panel, or by an import: never by a mirror of the same   *)
(* ticket.                                                                    *)
RevocationStands ==
  [][vm.error = "oauth_revoked" /\ vm'.error = "none" =>
       \/ vm'.expires > vm.expires
       \/ imp' # imp \/ \E c \in Callers : pc'[c] = "idle" /\ Records(kind[c])
       \/ \E c \in Callers : AlreadyFresh(c, "monitor")]_vars
=============================================================================

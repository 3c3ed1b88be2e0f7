------------------------------ MODULE KernelHop ------------------------------
(* The hops of one slot through its CLI kernel: runHop and prepareRust        *)
(* (src/src/lib/transport/kernel-router.mjs), and the part of the kernel      *)
(* supervisor they share (rust-kernel-supervisor.mjs): the hops in flight,    *)
(* the recycling of a wrap that leaked slots, and the single start of the     *)
(* kernel.  The kernel process itself is an environment that boots, serves,   *)
(* leaks slots and dies.                                                      *)
EXTENDS Naturals, FiniteSets

CONSTANTS
  Hops,          \* the inference hops sent to the slot
  Jobs,          \* restarts that can be under way at once (bound)
  Watchdog,      \* the kernel watchdog
  NoJob, NoCaller,
  SlotMax,       \* WRAP_SLOT_MAX
  Watches,       \* kernel_watchdog.enabled
  Crashes,       \* whether the kernel may die by itself
  Rotates        \* whether the host rotates the ticket of the slot

Callers == Hops \cup Jobs \cup {Watchdog}

ASSUME HopAssumption ==
  /\ NoJob \notin Jobs /\ NoCaller \notin Callers
  /\ Hops \cap Jobs = {} /\ Watchdog \notin Hops \cup Jobs
  /\ IsFiniteSet(Hops) /\ SlotMax \in Nat \ {0}
  /\ Watches \in BOOLEAN /\ Crashes \in BOOLEAN /\ Rotates \in BOOLEAN

VARIABLES
  pc,          \* where each hop is
  waits,       \* the restart each hop waits for, or NoJob
  live,        \* the hop is being served by the running kernel
  committed,   \* the current send has passed output to the client
  retried,     \* rust_transport_retried
  renewed,     \* credential_retried
  inflight,    \* wrapInflight
  deferred,    \* wrapRecycleDeferred
  cooling,     \* the last scheduled recycle is less than 30 s old
  pending,     \* wrapRecyclePending
  job,         \* each restart: "idle", "scheduled", "killed" or "starting"
  missed,      \* history: a recycle that was due has not been scheduled
  cached,      \* rustHealthCache holds a fresh, reachable health
  starting,    \* the caller whose start is in the map starts
  start,       \* where each caller is in startRustKernel
  joined,      \* the caller whose start it waits for
  kernel,      \* "up", "booting", "down", or "dead": its socket is left behind
  leaked,      \* slots of the kernel that no hop uses and that are not free
  stale        \* credentials.json is newer than the kernel's socket

hopVars     == <<pc, waits, committed, retried, renewed>>
recycleVars == <<deferred, cooling, pending, job, missed>>
startVars   == <<starting, start, joined>>
kernelVars  == <<kernel, leaked, live, stale>>
vars == <<hopVars, inflight, recycleVars, cached, startVars, kernelVars>>

Init ==
  /\ pc = [h \in Hops |-> "idle"]
  /\ waits = [h \in Hops |-> NoJob]
  /\ live = [h \in Hops |-> FALSE]
  /\ committed = [h \in Hops |-> FALSE]
  /\ retried = [h \in Hops |-> FALSE]
  /\ renewed = [h \in Hops |-> FALSE]
  /\ inflight = 0 /\ deferred = FALSE /\ cooling = FALSE
  /\ pending = NoJob /\ job = [j \in Jobs |-> "idle"] /\ missed = FALSE
  /\ cached = FALSE
  /\ starting = NoCaller
  /\ start = [c \in Callers |-> "no"]
  /\ joined = [c \in Callers |-> NoCaller]
  /\ kernel \in {"up", "down"} /\ leaked = 0 /\ stale = FALSE

-----------------------------------------------------------------------------
(* What a health check of the kernel says.                                    *)

InWrap == {"send", "auth", "again"}

Used == leaked + Cardinality({h \in Hops : pc[h] = "send" /\ live[h]})

Reachable == kernel = "up" /\ Used < SlotMax
Busy      == kernel = "up" /\ Used >= SlotMax

HasSocket == kernel \in {"up", "dead"}

Goto(h, where) == pc' = [pc EXCEPT ![h] = where]

(* send: the socket of a kernel that is not up refuses.                       *)
SendFrom(S) ==
  /\ live' = [h \in Hops |-> IF h \in S THEN kernel = "up" ELSE live[h]]
  /\ committed' = [h \in Hops |-> h \notin S /\ committed[h]]

(* beginWrapHop, and the first send                                           *)
BeginWrapHop(S) ==
  /\ inflight' = inflight + Cardinality(S)
  /\ SendFrom(S)

-----------------------------------------------------------------------------
(* Recycling.                                                                 *)

(* scheduleWrapRecycle                                                        *)
Schedule(now) ==
  IF now /\ ~cooling
  THEN \E j \in Jobs :
         /\ job[j] = "idle"
         /\ job' = [job EXCEPT ![j] = "scheduled"]
         /\ pending' = j
         /\ cooling' = TRUE
  ELSE UNCHANGED <<job, pending, cooling>>

(* mutant: the last hop to end leaves the deferred recycle to the next one    *)
DueForgotten(dead) == inflight = 1 /\ dead

(* The recycle that is due when a hop ends: endWrapHop runs a deferred one,   *)
(* and recycleLeakedWrap asks for one if the wrap of this hop is dead.        *)
Due(dead) == inflight = 1 /\ (deferred \/ dead)

(* mutant: the recycle is deferred although no other hop is in flight         *)
DeferredAlways(dead) == deferred \/ dead

(* A dead wrap is left alone while other hops use it.                         *)
DeferredAfter(dead) == inflight > 1 /\ (deferred \/ dead)

(* mutant: a dead hop returns before the count is taken back                  *)
LeftWhenDead(dead) == IF dead THEN inflight ELSE inflight - 1

(* mutant: the count is taken back by the caller as well                      *)
LeftTwice(dead) == inflight - 2

(* endWrapHop takes the hop out of the count, however it ended.               *)
Left(dead) == inflight - 1

(* The finally of runHop.                                                     *)
EndWrapHop(h, dead) ==
  /\ inflight' = Left(dead)
  /\ deferred' = DeferredAfter(dead)
  /\ Schedule(Due(dead))
  /\ missed' = (missed \/ (Due(dead) /\ cooling))
  /\ cached' = (cached /\ ~dead)
  /\ Goto(h, "done")
  /\ live' = [live EXCEPT ![h] = FALSE]

(* The processes of the slot are killed and the socket is removed.            *)
Killed(state) ==
  /\ kernel' = state /\ leaked' = 0 /\ stale' = FALSE
  /\ live' = [h \in Hops |-> FALSE]

(* restartRustKernel awaits killWrapDataplane, which leaves the socket behind.*)
KillWrapDataplane(j) ==
  /\ job[j] = "scheduled"
  /\ job' = [job EXCEPT ![j] = "killed"]
  /\ kernel' = IF HasSocket THEN "dead" ELSE "down"
  /\ leaked' = 0 /\ live' = [h \in Hops |-> FALSE]
  /\ UNCHANGED <<hopVars, inflight, deferred, cooling, pending, missed, cached, startVars, stale>>

(* The rest of restartRustKernel removes the socket, which may by now be that *)
(* of a kernel somebody else has started: nobody reaches it any more, but it  *)
(* goes on with what it serves. Then comes a forced start.                    *)
RestartRustKernel(j) ==
  /\ job[j] = "killed"
  /\ job' = [job EXCEPT ![j] = "starting"]
  /\ kernel' = IF kernel = "booting" THEN "booting" ELSE "down"
  /\ stale' = FALSE
  /\ starting' = j /\ start' = [start EXCEPT ![j] = "probe"]
  /\ UNCHANGED <<hopVars, inflight, deferred, cooling, pending, missed, cached, joined, leaked, live>>

-----------------------------------------------------------------------------
(* Starting the kernel.                                                       *)

(* ensureRustKernel, not forced: join the start under way, or begin one.      *)
EnsureRustKernel(c) ==
  IF starting = NoCaller
  THEN /\ starting' = c /\ start' = [start EXCEPT ![c] = "probe"]
       /\ UNCHANGED joined
  ELSE /\ joined' = [joined EXCEPT ![c] = starting]
       /\ start' = [start EXCEPT ![c] = "joined"]
       /\ UNCHANGED starting

Returning(c) == {c} \cup {x \in Callers : joined[x] = c}

(* The start of c ends: the hops that waited for it are sent or fail, a       *)
(* restart is over and the hops that waited for it go on.                     *)
EndStart(c, good) ==
  LET S == Returning(c) \cap Hops IN
  /\ start' = [x \in Callers |-> IF x \in Returning(c) THEN "no" ELSE start[x]]
  /\ joined' = [x \in Callers |-> IF joined[x] = c THEN NoCaller ELSE joined[x]]
  /\ starting' = IF starting = c THEN NoCaller ELSE starting
  /\ pc' = [h \in Hops |-> IF h \in S THEN IF good THEN "send" ELSE "done" ELSE pc[h]]
  /\ cached' = IF S = {} THEN cached ELSE good /\ Reachable
  /\ job' = [j \in Jobs |-> IF j = c THEN "idle" ELSE job[j]]
  /\ pending' = IF pending = c THEN NoJob ELSE pending
  /\ waits' = [h \in Hops |-> IF waits[h] = c THEN NoJob ELSE waits[h]]
  /\ UNCHANGED <<retried, renewed, deferred, cooling, missed>>

StartOver(c) ==
  /\ EndStart(c, TRUE) /\ BeginWrapHop(Returning(c) \cap Hops)
  /\ UNCHANGED <<kernel, leaked, stale>>

StartFails(c) == EndStart(c, FALSE) /\ UNCHANGED <<inflight, committed>>

(* startRustKernel looks at the kernel it finds: busy or reachable with the   *)
(* current ticket is good enough, unless the start is forced.                 *)
Probe(c) ==
  /\ start[c] = "probe"
  /\ \/ /\ c \notin Jobs /\ ~stale /\ (Busy \/ inflight > 0 \/ Reachable)
        /\ StartOver(c)
     \/ /\ c \in Jobs \/ stale \/ (kernel # "up" /\ inflight = 0)
        /\ start' = [start EXCEPT ![c] = IF c \in Jobs \/ stale THEN "launch" ELSE "wait"]
        /\ UNCHANGED <<hopVars, inflight, recycleVars, cached, starting, joined, kernelVars>>

(* bootWaitMs: a kernel that is just booting is given three seconds.          *)
BootWait(c) ==
  /\ start[c] = "wait"
  /\ \/ Reachable /\ StartOver(c)
     \/ /\ start' = [start EXCEPT ![c] = "launch"]
        /\ UNCHANGED <<hopVars, inflight, recycleVars, cached, starting, joined, kernelVars>>

(* docker restart                                                             *)
Launch(c) ==
  /\ start[c] = "launch"
  /\ \/ /\ Killed("booting")
        /\ start' = [start EXCEPT ![c] = "boot"]
        /\ UNCHANGED <<hopVars, inflight, recycleVars, cached, starting, joined>>
     \/ Killed("down") /\ StartFails(c)

(* waitForHealthOrExit                                                        *)
Boot(c) ==
  /\ start[c] = "boot"
  /\ \/ Reachable /\ StartOver(c)
     \/ ~Reachable /\ StartFails(c) /\ UNCHANGED kernelVars

(* The watchdog's tick                                                        *)
Tick ==
  /\ Watches /\ start[Watchdog] = "no" /\ kernel # "up"
  /\ EnsureRustKernel(Watchdog)
  /\ UNCHANGED <<hopVars, inflight, recycleVars, cached, kernelVars>>

-----------------------------------------------------------------------------
(* A hop before it is sent: prepareRust.                                      *)

Arrive(h) ==
  /\ pc[h] = "idle"
  /\ Goto(h, "await") /\ waits' = [waits EXCEPT ![h] = pending]
  /\ UNCHANGED <<committed, retried, renewed, inflight, recycleVars, cached, startVars, kernelVars>>

(* No recycle is under way any more: a stale ticket asks for a bounce, a      *)
(* fresh health lets the hop go, otherwise the kernel is asked.               *)
Prepare(h) ==
  /\ pc[h] = "await" /\ waits[h] = NoJob
  /\ IF ~stale /\ cached
     THEN Goto(h, "send") /\ BeginWrapHop({h})
     ELSE Goto(h, IF stale THEN "renew" ELSE "health") /\ UNCHANGED <<inflight, live, committed>>
  /\ UNCHANGED <<waits, retried, renewed, recycleVars, cached, startVars, kernel, leaked, stale>>

(* bounceRustForFreshTicket restarts at once, whatever the last recycle.      *)
Bounce(h) ==
  /\ pc[h] = "renew"
  /\ Goto(h, "bounced")
  /\ \E j \in Jobs :
       /\ job[j] = "idle"
       /\ job' = [job EXCEPT ![j] = "scheduled"]
       /\ pending' = j /\ waits' = [waits EXCEPT ![h] = j]
  /\ cooling' = TRUE
  /\ UNCHANGED <<committed, retried, renewed, inflight, deferred, missed, cached, startVars, kernelVars>>

Bounced(h) ==
  /\ pc[h] = "bounced" /\ waits[h] = NoJob
  /\ Goto(h, "start") /\ cached' = FALSE
  /\ EnsureRustKernel(h)
  /\ UNCHANGED <<waits, committed, retried, renewed, inflight, recycleVars, kernelVars>>

Health(h) ==
  /\ pc[h] = "health"
  /\ \/ /\ Reachable
        /\ cached' = TRUE /\ Goto(h, "send") /\ BeginWrapHop({h})
        /\ UNCHANGED startVars
     \/ /\ ~Reachable /\ (Busy \/ inflight > 0)
        /\ Goto(h, "poll")
        /\ UNCHANGED <<cached, inflight, live, committed, startVars>>
     \/ /\ kernel # "up" /\ inflight = 0
        /\ Goto(h, "start") /\ EnsureRustKernel(h)
        /\ UNCHANGED <<cached, inflight, live, committed>>
  /\ UNCHANGED <<waits, retried, renewed, recycleVars, kernel, leaked, stale>>

(* waitForReadySlot; a slot that stays full is answered with slot_busy.       *)
Poll(h) ==
  /\ pc[h] = "poll"
  /\ \/ /\ Reachable
        /\ cached' = TRUE /\ Goto(h, "send") /\ BeginWrapHop({h})
     \/ /\ Goto(h, "done")
        /\ UNCHANGED <<cached, inflight, live, committed>>
  /\ UNCHANGED <<waits, retried, renewed, recycleVars, startVars, kernel, leaked, stale>>

-----------------------------------------------------------------------------
(* A hop in the wrap.                                                         *)

(* "ok" stands for every answer that is neither dead nor about the ticket.    *)
Answers(h) == IF live[h] THEN {"ok", "incomplete", "transport", "auth"} ELSE {"transport"}

Commit(h) ==
  /\ pc[h] = "send" /\ live[h] /\ ~committed[h]
  /\ committed' = [committed EXCEPT ![h] = TRUE]
  /\ UNCHANGED <<pc, waits, retried, renewed, inflight, recycleVars, cached, startVars, kernelVars>>

(* An incomplete answer or a lost connection may leave its slot occupied.     *)
Leaks(h, k) ==
  \/ leaked' = leaked
  \/ live[h] /\ k \in {"incomplete", "transport"} /\ leaked < SlotMax /\ leaked' = leaked + 1

(* mutant: the resend itself is resent                                        *)
ResendsAgain(h, k) == k = "transport" /\ ~committed[h] /\ ~renewed[h]

Resends(h, k) == k = "transport" /\ ~committed[h] /\ ~retried[h] /\ ~renewed[h]

Renews(h, k) == k = "auth" /\ ~renewed[h]

(* The second send, whose result replaces the first.                          *)
Resend(h, k) ==
  /\ pc[h] = "send" /\ k \in Answers(h) /\ Resends(h, k)
  /\ retried' = [retried EXCEPT ![h] = TRUE]
  /\ SendFrom({h}) /\ Leaks(h, k)
  /\ missed' = (missed \/ leaked' > leaked)
  /\ UNCHANGED <<pc, waits, renewed, inflight, deferred, cooling, pending, job, cached,
                 startVars, kernel, stale>>

Unauthorised(h, k) ==
  /\ pc[h] = "send" /\ k \in Answers(h) /\ Renews(h, k)
  /\ Goto(h, "auth") /\ live' = [live EXCEPT ![h] = FALSE]
  /\ UNCHANGED <<waits, committed, retried, renewed, inflight, recycleVars, cached, startVars,
                 kernel, leaked, stale>>

(* isDeadWrapHop                                                              *)
DeadWrapHop(h, k) == k \in {"incomplete", "transport"} \/ (k = "auth" /\ committed[h])

Answered(h, k) ==
  /\ pc[h] = "send" /\ k \in Answers(h) /\ ~Resends(h, k) /\ ~Renews(h, k)
  /\ Leaks(h, k)
  /\ EndWrapHop(h, DeadWrapHop(h, k))
  /\ UNCHANGED <<waits, committed, retried, renewed, startVars, kernel, stale>>

(* ensureWorkerCredential: a new ticket is written, or the one on disk is     *)
(* still fresh (the request to force a new one is dropped by the handler);    *)
(* then the wrap is recycled, whoever else uses it, and the hop waits for     *)
(* that and is sent again.                                                    *)
Renewed(h) ==
  /\ pc[h] = "auth"
  /\ Goto(h, "again")
  /\ renewed' = [renewed EXCEPT ![h] = TRUE]
  /\ Schedule(TRUE) /\ waits' = [waits EXCEPT ![h] = pending']
  /\ stale' \in {stale, HasSocket}
  /\ UNCHANGED <<committed, retried, inflight, deferred, missed, cached, startVars,
                 kernel, leaked, live>>

(* credentialEnsureFailure: a fatal one is a rejection, whatever was sent.    *)
NotRenewed(h) ==
  /\ pc[h] = "auth"
  /\ \E fatal \in BOOLEAN : EndWrapHop(h, ~fatal /\ committed[h])
  /\ UNCHANGED <<waits, committed, retried, renewed, startVars, kernel, leaked, stale>>

Again(h) ==
  /\ pc[h] = "again" /\ waits[h] = NoJob
  /\ Goto(h, "send") /\ SendFrom({h})
  /\ UNCHANGED <<waits, retried, renewed, inflight, recycleVars, cached, startVars,
                 kernel, leaked, stale>>

-----------------------------------------------------------------------------
(* The kernel, the host's ticket and the clock.                               *)

KernelBoots ==
  /\ kernel = "booting" /\ kernel' = "up"
  /\ UNCHANGED <<hopVars, inflight, recycleVars, cached, startVars, leaked, live, stale>>

KernelDies ==
  /\ Crashes /\ kernel \in {"up", "booting"}
  /\ kernel' = IF kernel = "up" THEN "dead" ELSE "down"
  /\ leaked' = 0 /\ live' = [h \in Hops |-> FALSE]
  /\ UNCHANGED <<hopVars, inflight, recycleVars, cached, startVars, stale>>

RotateTicket ==
  /\ Rotates /\ HasSocket /\ ~stale /\ stale' = TRUE
  /\ UNCHANGED <<hopVars, inflight, recycleVars, cached, startVars, kernel, leaked, live>>

CacheExpires ==
  /\ cached /\ cached' = FALSE
  /\ UNCHANGED <<hopVars, inflight, recycleVars, startVars, kernelVars>>

CooldownEnds ==
  /\ cooling /\ cooling' = FALSE
  /\ UNCHANGED <<hopVars, inflight, deferred, pending, job, missed, cached, startVars, kernelVars>>

HopStep(h) ==
  \/ Arrive(h) \/ Prepare(h) \/ Bounce(h) \/ Bounced(h) \/ Health(h) \/ Poll(h)
  \/ \E k \in {"ok", "incomplete", "transport", "auth"} :
       Resend(h, k) \/ Unauthorised(h, k) \/ Answered(h, k)
  \/ Renewed(h) \/ NotRenewed(h) \/ Again(h)

StartStep(c) == Probe(c) \/ BootWait(c) \/ Launch(c) \/ Boot(c)

Next ==
  \/ \E h \in Hops : HopStep(h) \/ Commit(h)
  \/ \E j \in Jobs : KillWrapDataplane(j) \/ RestartRustKernel(j)
  \/ \E c \in Callers : StartStep(c)
  \/ Tick \/ KernelBoots \/ KernelDies \/ RotateTicket \/ CacheExpires \/ CooldownEnds

Spec == Init /\ [][Next]_vars

(* The event loop runs every continuation, docker and the kernel answer or    *)
(* time out, and so does every send.                                          *)
FairSpec ==
  /\ Spec
  /\ \A h \in Hops : WF_vars(HopStep(h))
  /\ \A j \in Jobs : WF_vars(KillWrapDataplane(j) \/ RestartRustKernel(j))
  /\ \A c \in Callers : WF_vars(StartStep(c))

-----------------------------------------------------------------------------
(* Properties.                                                                *)

(* Types, and: a hop that waits for a restart waits for one that is under     *)
(* way, so that its end wakes the hop (awaitWrapRecycle).                     *)
TypeOK ==
  /\ pc \in [Hops -> {"idle", "await", "renew", "bounced", "health", "poll", "start", "done"} \cup InWrap]
  /\ waits \in [Hops -> Jobs \cup {NoJob}]
  /\ live \in [Hops -> BOOLEAN] /\ committed \in [Hops -> BOOLEAN]
  /\ retried \in [Hops -> BOOLEAN] /\ renewed \in [Hops -> BOOLEAN]
  /\ inflight \in Nat
  /\ deferred \in BOOLEAN /\ cooling \in BOOLEAN /\ missed \in BOOLEAN /\ cached \in BOOLEAN
  /\ pending \in Jobs \cup {NoJob}
  /\ job \in [Jobs -> {"idle", "scheduled", "killed", "starting"}]
  /\ starting \in Callers \cup {NoCaller}
  /\ start \in [Callers -> {"no", "probe", "wait", "launch", "boot", "joined"}]
  /\ joined \in [Callers -> Callers \cup {NoCaller}]
  /\ kernel \in {"up", "booting", "down", "dead"}
  /\ leaked \in 0..SlotMax /\ stale \in BOOLEAN
  /\ \A h \in Hops : waits[h] # NoJob => job[waits[h]] # "idle"

(* wrapInflight counts the hops between beginWrapHop and the finally of       *)
(* runHop, whichever of the three sends they are at: a count that drifts      *)
(* would hold back every later recycle, or kill a hop in flight.              *)
InflightExact == inflight = Cardinality({h \in Hops : pc[h] \in InWrap})

(* A deferred recycle is never stranded: some hop is still to end that will   *)
(* run it.                                                                    *)
DeferredHasOwner == deferred => inflight > 0

(* CHANGELOG.md:28: the recycle that sibling hops held back is made up for    *)
(* when the last one ends.  Slots stay leaked after the last hop only if a    *)
(* due recycle was skipped by the cooldown or its answer was replaced.        *)
LeakIsRecycled == leaked > 0 /\ inflight = 0 /\ ~missed => pending # NoJob

(* Every hop ends: waits for a restart, for a start it joined, for a slot and *)
(* for its up to three sends never wait for each other.                       *)
HopsSettle == \A h \in Hops : pc[h] # "idle" ~> pc[h] = "done"
=============================================================================

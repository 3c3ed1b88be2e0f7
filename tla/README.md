# vm2api: a TLA+ verification project

vm2api is a gateway: clients send Anthropic-, OpenAI- or Codex-shaped requests
to a Node.js control plane (`src/src`), which picks one of several accounts
("slots"), sends the request through that slot's containerised kernel (the
"wrap"), and passes the answer, often a stream, back. What makes it hard is not
the conversion of messages but the bookkeeping around them: which account a
request may use, who waits for whom, when a failed attempt may be repeated, and
when a shared kernel may be restarted. This project models that core.

All paths below start at `src/`, the root of the repository.

## 1. The system

| Component | State it keeps | Operations | Interacts with | What makes it correct |
|---|---|---|---|---|
| Pool scheduler (`src/lib/pool/pool-scheduler.mjs`) | `inflight`, `inflightFamily`, `waiters`, cooldown timers | `selectAndReserve`, `reserve`/`release`, `markSuccess`, `markCooldown`, `notifyCapacity` | quota, sticky router, runtime rows, worker health | admission never above the cap, counters exact, no waiter lost, every selection ends |
| Account quota (`pool/account-quota.mjs`) | live count per account, RPM window, usage windows | `canAccept`, `acquire`, `release` | shared by all schedulers | the count is the number of holders, also across a reload |
| Eligibility (`pool/schedule-eligibility.mjs`, `pool/availability.mjs`) | none (reads `vm.json` and rows) | `evaluateSlotGate`, `evaluateAccount` | scheduler | a parked account is not used, a leftover park does not block |
| Sticky router (`pool/sticky-router.mjs`) | conversation key to account | `resolve`, `bind`, `unbind`, `unbindByAccount` | scheduler, failover runner | a conversation stays while it may, rotates when it must |
| Account runtime rows (`db/repos/account-runtime-repo.mjs`) | cooldown and block per account | `markCooldown`, `markSuccess`, `clearExpired` | scheduler | a fault parks, a success clears |
| Routing runtime (`admin/routing-runtime.mjs`) | the current scheduler | `initPoolRuntime`, `applyVmConcurrency`, `onCredentialFailure` | all of the above | a reload loses no reservation |
| Failover runner (`pool/failover-runner.mjs`) | one run: attempts, switches, excluded accounts, retries | `run` | scheduler, slot transport | bounded attempts, reservation returned on every way out, no second answer after output |
| Upstream error policy (`pool/upstream-error-policy.mjs`) | none | `classifyUpstreamResult`, `shouldContinue` | failover runner | the decision table |
| Kernel hop router (`transport/kernel-router.mjs`) | health cache | `runHop`, `prepareRust`, forced renewal | supervisor, slot client, credential refresh | a hop ends, is counted once, and does not harm its siblings |
| Kernel supervisor, watchdog (`transport/rust-kernel-supervisor.mjs`, `kernel-watchdog.mjs`) | `starts`, `wrapInflight`, deferred and pending recycles, cooldown of recycles | `ensureRustKernel`, `scheduleWrapRecycle`, `beginWrapHop`/`endWrapHop`, tick | docker, kernel | leaked slots are recycled, deferred recycles run |
| Credential refresh (`oauth/host-token-refresh.mjs`, `oauth-credentials.mjs`, `credential-refresh-monitor.mjs`, `import-commit.mjs`) | `credentials.json` and the copy of its facts in `vm.json` | `refreshSlotCredentialIfNeeded`, mirror, import, `markVmRefreshError`, `setVmSchedulable` | hop router, panel, scheduler | a rotated token is not lost, a live slot is not recorded dead, the operator's switch stands |
| Session limit (`pool/session-limit.mjs`) | live conversations per account | `canAccept`, `touch`, `release`, `prune` | scheduler | the cap on conversations, and a conversation keeps its place |
| API keys (`admin/api-keys.mjs`) | a row per key, requests in flight per key | `canAccept`, `acquire`, `release`, `recordUsage`, `update`, `remove` | request handlers, panel | caps hold over all keys of a user, no key is stuck or revived |
| API endpoint scheduler (`pool/api-scheduler.mjs`) | cursors, cooling keys | `pick`, `markCooldown`, `reload` | request handlers | round robin |
| Proxy pool (`vm/proxy-pool.mjs`) | proxies, their health, the VMs bound to each | probes, `bind`, `allocateForVm`, `unbind`, `remove`, `setEnabled`, `reportRuntimeFailure` | VM files, panel | one proxy per VM, VMs of a dead proxy are out, a dead proxy comes back |
| Backup and restore (`admin/backup-service.mjs`) | archives, ledger of archives in the database | `createBackup`, `restoreBackup`, `remove`, `applyRetention` | the database of the whole process | a restore can be undone wherever it stops |
| Codex path (`protocol/handle-codex.mjs`, `pool/codex-slot-pool.mjs`, `transport/codex-kernel-supervisor.mjs`, `vm/vm-registry.mjs`) | quota facts in the slot files, map of started kernels | pick, hop, failover, usage, kernel start | slot kernels, usage monitor | one answer per request, one kernel per slot |
| Request handlers, protocol conversion, identity, rest of the panel, fleet update, Go worker, web console | text, files, containers | | | see section 8 |

The control plane is one JavaScript thread. Two requests therefore never run at
the same time, but they interleave at every `await`, and most of the
functions above await in the middle of a decision: `eligibleCandidates` awaits
the health of each account in turn, `selectAndReserve` sleeps in a queue,
`run` sends, pauses and selects again, `runHop` waits for restarts that other
hops asked for. Kernels crash and are restarted; clients go away; operators
change a cap or reload the configuration under running requests. Files are read
before an await and written after it (`credentials.json`, `vm.json`), memory and
database are counted apart (API keys), and a restore swaps the database under
the running process. These are the hazards; `PROJECT.json` lists each of them at
its line.

## 2. Modules

```
 AccountPool  <--implements--  PoolScheduler
      ^
      | INSTANCE
 FailoverRunner --EXTENDS--> UpstreamErrorPolicy          KernelHop

 ApiGateway --EXTENDS--> ApiKeys, ApiScheduler            CredentialRefresh

 SessionLimit      ProxyPool      BackupRestore      CodexPath
```

The theorems about a component are in a module of their own that extends it:
`PoolSchedulerProofs`, `FailoverRunnerProofs`, `CredentialRefreshProofs`,
`ApiGatewayProofs`, `SessionLimitProofs`, `ProxyPoolProofs`,
`BackupRestoreProofs`. `KernelProofs` is about the two ways to a kernel process
and extends both `KernelHop` and `CodexPath`, which therefore share no name
(`CodexInit`, `CodexNext` and so on in the latter).

An action is the code between two awaits. Everything such a stretch of code
changes belongs to the one action, including the notification at its end.

### `PoolScheduler`

Many requests, many accounts, and the schedulers built so far (`Pools`): a
reload builds a new `PoolScheduler` object, and requests that hold or wait on an
old one stay on it. The variables are the maps of the code: `inflight`,
`family` and `waiters` per scheduler, `quota` shared by all, `cap`, `gate` and
`cooldown` per account, `sticky` per conversation, `timers` for the timers of
`scheduleCooldownWake`; and the local variables of each running
`selectAndReserve` (`snap` is the list of candidates, `cleared` is
`stickyCleared`, `late` the expiry of `loopDeadline`).

| Action | Code |
|---|---|
| `Start`, `Scan`, `Reserve`, `GiveUp`, `Enqueue`, `Resume` | `selectAndReserve`: the entry, one turn of `eligibleCandidates`, and the four ways a decision ends |
| `WaitTimeout`, `Expire`, `Abort` | timer of `waitForCapacity`, `loopDeadline`, abort signal |
| `BindAll`, `MarkSuccess`, `MarkCooldown`, `Release` | what the failover runner does with a reservation |
| `CooldownLapses`, `CooldownWake`, `CooldownCleared` | the end of a cooldown, its timer, the early ends that notify |
| `GateChanges`, `SetConcurrency`, `Reload` | health, windows and switches; `applyVmConcurrency`; `initPoolRuntime` |

`Scan` reads one account (`CheckEligibility`) at one instant. The decision that
follows is taken on the whole outdated list, and only `CanReserve` looks at the
present. Abstractions: accounts are visited in any order; the ranking
strategies (lru, round robin, smooth weighted) are "any candidate that ranks
first by priority and load"; model-scoped cooldowns are folded into `"cool"`,
and a disabled organisation into `"blocked"`; the conversation limit per account
is not part of the eligibility; verdicts that come from files, usage windows
and health are the seven values of `gate`.

### `AccountPool`

What callers may rely on: ask, then a refusal or one grant below the limit of
the moment, then a return. `PoolScheduler` implements it under the mapping
`Phase`, `acct`, `cap` (checked in `pool`, proved as `Refinement`), and
`FailoverRunner` is built on it, so that its state space does not contain the
queues.

### `UpstreamErrorPolicy` and `FailoverRunner`

The policy is the decision table of `classifyUpstreamResult`, in the order of its
tests, over 24 kinds of answer. The runner has one action for each way an
attempt can end: `Finish` (success), `Repair` (body repaired once), `Conclude`
(answer passed on), `Fail` (retry or switch), `Throw` (the exception path, which
does not look at `max_account_switches`); `Wake` and `Abort` end the pause of a
same-account retry, in which the account is still held. `wrote`, `sent` and
`dead` are history variables for the properties. The attempt log and the
notifications are left out; cooldowns have no length, and any turn of the loop
after the first may find the retry deadline passed.

### `KernelHop`

One slot. A hop goes through `prepareRust` (`Arrive`, `Prepare`, `Bounce`,
`Health`, `Poll`), through a start of the kernel (`Probe`, `BootWait`, `Launch`,
`Boot`, joined by whoever asks while it is under way), into the wrap
(`Commit`, `Resend`, `Unauthorised`, `Renewed`, `Again`), and out
(`Answered`, `NotRenewed`, which contain `endWrapHop` and the recycle it may
schedule). A recycle is a job: `scheduled`, then `killed` (`KillWrapDataplane`,
which the restart awaits), then `starting` (`RestartRustKernel`: the socket is
removed and a start forced), then idle. `leaked` counts the kernel's slots that a dead
hop left occupied; `missed` remembers that a due recycle was skipped. The kernel
is up, booting, down (its socket gone) or dead (socket left behind).
Abstractions: health is read at one instant; the `docker exec` that kills the
processes is taken to reach them; the 500 ms grace of the ticket's
mtime is left out; so are a missing kernel binary, a kernel that is up without a
CLI, restarts from the panel, and `recycleWrapIfIdle`, which nothing calls. The
number of restarts that may overlap is bounded by `Jobs`: a hop whose end has to
schedule one waits for a free job.

### `CredentialRefresh`

The ticket of one slot. `file` is `credentials.json` (a ticket number and a
refresh token), `vm` the part of `vm.json` that is about it: the expiry it knows,
`refresh_error`, `schedulable`, the reason and `schedule_manual`. A call of
`refreshSlotCredentialIfNeeded` is `AlreadyFresh`, or `Post` (which reads the
file) followed by `Settle`, `SettleFailure` or `LoseAnswer`; the monitor and the
panel's button record the outcome in `vm.json`, a rejected hop and a probe do
not. In between run the token endpoint (`Grants` with or without rotation,
`Rejects`, `Fails`), other calls, the two passive mirrors (`BeginMirror`,
`EndMirror`, with the wait for the kernel's health between them), imports, the operator (`SetVmSchedulable`), a revocation and a crash. The order of
ticket numbers is the order of expiry times; `due` is the refresh window.
`crossed` remembers that two refreshers overlapped, that an answer was lost, or
that an import or a recording met somebody in mid-flight; `off` that the
operator's last word was off. The token endpoint is external and modelled by the
answers `postRefresh` tells apart.

An import is what lies between its awaits. `BeginImport` reads `vm.json` into the
handler's `copy`. `ReloadImport`, which happens only for a slot without a socket or
on another proxy, writes that copy back. `ImportWorkerCredential` writes
`credentials.json`. `CommitImport`, after the wait for the lock of the registry,
writes `vm.json` and `credentials.json` once more; `Stored` is the time between the
two. `AbortImport` is a failed login, start or worker. A crash between the two
writes counts as `crossed`.

### `ApiKeys`, `ApiScheduler`, `ApiGateway`

`ApiKeys` is the row of each managed key and the in-memory count of its
requests; `ApiScheduler` the cursors and cooling keys of the upstream endpoints.
Endpoints are numbered in the order of their priority, keys in that of
`api_key_entries`; `Turn` is the place of one in the list of those that count,
`Offset` the turn of the loop in which `pick`, beginning at `Start`, comes to an
endpoint, and `Pick` takes the `Ready` one with the least offset. This is the loop
of the code without the list.
`ApiGateway` composes them along a request: `Authenticate` (`requireAuth`: the
row is read and the gate asked), `Acquire` (after the body was awaited: the gate
again, with the old row, then `pick`), `Refuse`, `RateLimited`, `RunFails`,
`Finish` (the `finally` and `recordUsage`; a run that failed may be charged for
what it used). The panel acts at any time:
`SetStatus`, `SetLimits` (with or without a reset), `RemoveKey`,
`SwitchEndpoint`. Left out: creation and rotation of keys, the cursor inside a
list of model aliases, and expiry, requests per minute and spend windows, which
depend on the clock: `Refuse` may happen at any time on their account. The
account pool behind a key is a request that takes its time.

### `SessionLimit`

`bag` is `byAccount`, with a clock: `canAccept` and the panel prune, `touch` and
`release` do not. A pinned request (`skipQuota`) passes the gate by, and its
conversation is entered all the same. `seen` and `pinned` are history variables.

### `ProxyPool`

The proxies with enabled, status, number of failures and kind of last error; the
VMs bound to each; the VM files with `schedulable`, the reason and the proxy the
reason names, and `schedule_manual`. A sweep (`StartSweep`, `SweepProbe`) and a
probe by hand (`Ask`, `Answer`) apply their results (`Apply`,
`_applyProbeResult`) whatever has happened since they began; a failing request
reports at once (`RuntimeFailure`). The panel binds and allocates (`Bind`,
`BindRefused`, `Allocate`), after which the handler waits for the time zone and
the reload of the worker (`BeginReload`, `EndReload`), unbinds, removes,
switches proxies and toggles VMs. When the address of a proxy is edited, its VMs
are reloaded one after the other (`EditProxy`, the turn of one VM). The handler
reads the list of these VMs once; the model takes the VMs that are bound when
their turn comes, so an edit that meets a VM unbound meanwhile is left out. The
working set is the one in memory; restarts
and imports are left out. `adrift` is the set of VMs that the pool lost track of
in one of three ways (section 3).

### `BackupRestore`

The database with its generation of data, its ledger of archives and its
retention; the database set aside; the VM and config files, which are of one
generation or deleted; the archives. `createBackup` is one action, since it is
synchronous, with its two ways to fail; `restoreBackup` is cut into the steps a
crash can fall between: safety backup, extraction, close, set aside, copy,
deletion and copy of the VM files, reopen. An exception after the close leaves
the process without a database until it is started again (`Restart`), and a
torn database file keeps it from starting. Scheduled and manual backups are
both "ordinary" (retention treats them alike), only the tar flavour is modelled,
and rows of failed backups are left out. `pre` and `before` belong to the latest
restore; `dropped` and `cut` are history variables.

### `CodexPath`

A GPT request takes the first `FailoverMax` slots (`Pick`), makes sure of the
kernel (`Healthy`, `Start`, `NotReady`), sends (`Headers`, `Emit`, `TransportError`
with its one repetition, `Succeed`, `Refuse`) and goes on with the next slot or ends. The
slots come in the order of their ids, so the list of the code is the set `ids` of
the slots that are left, and `Slot`, the one in use, is its least element.
`file` is the slot's record: the switch, with a value for the reason an older
version wrote; `parked`, which stands for the stated windows and
`codex_limited_until` together; `restricted`, the reason
`syncCodexQuotaSchedule` writes; `stopped`. `procs` counts the kernels that run
and were not told to end, `starts` is the map of the supervisor. `Timed` are the steps
that a timer bounds: a send is among them until its headers come, its body is not.
`Probed` are the slots the usage monitor looks at, none if it is switched off; that
a slot has a token, a proxy and no hard state does not change in the model, that it
is stopped does. Left out:
headers without a reset time, the quota query of the panel, the panel's start of
a slot, deleted slots and restarts of the server.

## 3. What the runs check

| Run | Instance | Properties |
|---|---|---|
| `pool` | 3 requests (2 of the Fable family), 1 account, a cap of 1 or 2 that the operator changes, Fable cap 1, queues of length 1, one reload, one abortable request | `TypeOK`, `QueuesExact`, `CountersExact`, `FableWithinCap`, `AdmissionWithinCap`, `ImplementsAccountPool` |
| `sticky` | 2 requests of one conversation, 2 accounts, cap 1, authentication cooldowns | `UnboundRotates`, `ReleaseNotifies` |
| `liveness` | 1 account through all gates and three kinds of cooldown, an ordinary and a pinned abortable request | `SelectionSettles` |
| `failover` | a streaming request and a pinned, abortable one of the same conversation, 2 accounts, all kinds of answer, 4 attempts, 1 switch, 1 same-account retry | `TypeOK`, `AttemptsPerAccount`, `SwitchesExact`, `OutputEndsRun` |
| `hop` | 2 hops, 2 overlapping restarts, watchdog, crashes, 2 kernel slots | `TypeOK`, `InflightExact`, `DeferredHasOwner`, `LeakIsRecycled` |
| `hop_liveness` | 2 hops, 1 restart at a time, tickets rotating | `HopsSettle` |
| `credential` | 2 calls (one that records its outcome, one hop or probe), 1 import, 2 tickets | `GrantKept`, `DeathIsReal`, `OperatorOffKept`, `RevocationStands` |
| `gateway` | 3 requests, 2 keys of one user with cap 2, 2 models, 2 endpoints with 1 and 2 keys | `InflightExact`, `UserWithinCap`, `NoStuckExhaustion`, `DisabledStays`, `RoundRobin` |
| `sessions` | 3 requests, 3 conversations, cap 2, an idle window of 2 in 6 units of time | `ConversationsWithinCap`, `OpenConversationStays` |
| `proxy` | 2 proxies with 1 place each, 2 VMs, 2 failures to death, one proxy edited | `OneProxyPerVm`, `KilledProxyComesBack`, `OperatorOffKept`, `DeadProxyVmOff` |
| `backup` | 4 archives, 2 generations of data, retention 1 or 2 | `TypeOK`, `SafetyBackupStays`, `ArchivesListed` |
| `codex` | a stream and a request pinned to slot 1, 2 slots, the first one volatile | `OneAnswer`, `OneKernelPerSlot`, `CodexSettles`, `RestrictionFollowsPark` |

* `pool` asks whether the three counters that a reservation raises can come
  apart, in particular when a request is released on a scheduler that a reload
  has replaced, and lets the operator lower a cap between the check of an account
  and its reservation. The counters agree, no account gains a holder at or above
  its cap of the moment, a waiter is in exactly one bounded queue, and whatever
  queues and stale lists do, a caller sees only what `AccountPool` allows.
* `sticky` looks at the pair `pick`/`resolveWaitPlan`, which resolve the binding
  twice: a request that has dropped its binding does not wait under a sticky plan
  even if its sibling binds the key again in between.
* `liveness`: a woken request may lose the slot every time; it still ends,
  because one deadline covers all of its waits.
* `failover`: the reservation is returned on every way out; repairs, retries and
  switches together reach an account a bounded number of times; after output
  the run goes on only past a dead grant.
* `hop`: `wrapInflight` is exact over all three sends and every error path; a
  deferred recycle always has a hop left to run it; leaked slots are recycled
  after the last hop unless the cooldown or a resend hid them.
* `hop_liveness`: hops that wait for restarts, shared starts and each other's
  sends all end.
* `credential`: as long as no two refreshers overlap and no answer is lost, the
  refresh token on disk is a live one, over all orders of refreshes, imports,
  mirrors, crashes and revocations; a slot is recorded dead only for a revoked
  grant, after such an overlap, or for the moment between the two writes of an
  import, which then clears it. The operator's switch survives everything but
  an import, and a mirror never lifts a revocation.
* `gateway`: the gate is asked twice with a row that grows old in between, and the
  cap of the user still holds over both keys. A charge cannot bring a disabled key
  back as exhausted, nor an update leave a key exhausted below its quota. Two
  picks in a row for one model take different endpoints while two are ready; what
  picks for other models do to the cursor in between is below.
* `sessions`: a conversation pruned while its long request runs neither lets the
  cap be exceeded nor loses its count below zero when it comes back.
* `proxy`: late probes, refused binds and removals never give a VM two proxies or
  drop a killed proxy from the sweep; a VM behind a switched-off proxy is out of
  the pool except in the three cases below.
* `backup`: wherever a restore stops, its safety backup is on disk, whole and with
  the data of before; the gateway never runs without VM files; a restore that
  comes through lists every archive again.
* `codex`: repetition and failover never add a second answer to lines that are
  out; requests that find a silent socket start one kernel between them; every
  request ends, unless a kernel sends it headers and then hangs; the restriction
  shown on a probed slot follows the park recorded for it although results are
  recorded late.

### Where the code and its documents disagree

The models contain these behaviours; no run states them. A formula in brackets,
put into the configuration of its module, is violated by a behaviour of the code.

* **Waiting beside a free account** (`pool/pool-scheduler.mjs:302`). An account
  freed after its check and before the waiter is registered wakes nobody; the
  request sleeps until the next notification or its timer. [a request that
  enqueues has no usable account with room at that moment]
* **A switch after output** (`pool/upstream-error-policy.mjs:265`). A stream that has
  written and ends in a confirmed 401 is tried on another account;
  `docs/API.md:237` says that no account is changed once output is written.
  `OutputEndsRun` therefore excepts a dead grant.
* **A verified stream counts as failed** (`pool/failover-runner.mjs:31`): its content
  is empty where the runner looks for it, while
  `test/e2e/openai-chat.e2e.test.mjs:58` expects an answer.
* **A leak that stays** (`transport/kernel-router.mjs:308`,
  `rust-kernel-supervisor.mjs:372`). A recycle due within 30 s of the last one is
  dropped, not put off, against the comment at `kernel-router.mjs:134`.
  `LeakIsRecycled` excepts it by `missed`.
* **A second send after output** (`transport/kernel-router.mjs:287`). An
  authentication error in mid-stream leads, after a forced renewal, to a second
  send to the same client, against `docs/API.md:232`.
* **The rival refresh** (`oauth/host-token-refresh.mjs:119`). `docs/OAUTH.md:43-48`
  asks for a lock, a second look under it, and on `invalid_grant` a look whether
  somebody else has refreshed (rule 8). The host's refresh has none of these: two
  overlapping refreshes can end with the slot recorded dead beside a live ticket.
  [`GrantKept` and `DeathIsReal` without `crossed`]
* **VMs behind a dead proxy** (`vm/proxy-pool.mjs:7`, "On failure: disable proxy +
  disable bound VM scheduling"). It fails in three ways: a bind refused for
  `bind_limit` has already taken the VM from its old proxy (line 478), whose
  failure then does not reach it; a VM taken off while its worker reloads is put
  back by the end of the reload; the last probe of a removed proxy puts back the
  VMs it had. [`DeadProxyVmOff` without `adrift`]
* **A restore that deletes its target** (`admin/backup-service.mjs:365`). The safety
  backup applies the retention after the target was verified; with a retention
  lower than the number of archives the target can be the one deleted, and the
  extraction (line 372) fails. Nothing is lost but the archive.
  [`step = "made" => target \in files`]
* **Ledger rows without a file**: a restored ledger can name archives deleted since
  the backup; `test/unit/backup-service.test.mjs:131` expects every row to have its
  file. [`Idle => Rows(db.ledger) \subseteq files`]
* **Codex parks are never seen** (`pool/codex-slot-pool.mjs:74-86`). The test "parked
  slots come after ready ones" gives the picker full records; the summaries of
  `listVms` that it gets in the program carry neither the windows
  (`vm/codex-slot.mjs:292` summarises a summary) nor `codex_limited_until`. Slots
  are tried in the order of their ids, so with more than four of them a request
  can end in a 429 while a ready slot was not asked.
* **A crashed Codex kernel stays down** (`transport/codex-kernel-supervisor.mjs:76`).
  No handler takes an ended process out of `starts`, and `killed` is set only by
  `kill()`: every later request waits for the health of a process that is gone,
  until an operator stops the slot.
* **A Codex request without a timeout** (`protocol/handle-codex.mjs:262-276`). The hop
  is given neither `timeoutMs` nor `idleTimeoutMs` nor a signal. The slot client's
  default of 180 s ends at the headers (`transport/go-worker-client.mjs:82`), and
  with both values missing no idle timer is armed (lines 486-491): a kernel that
  hangs after its headers keeps the request for ever. `CodexSettles` excepts it.
  [`CodexSettles` without `[](at[r] = "body")`]
* **One cursor for all models** (`pool/api-scheduler.mjs:129`). A pick for one model
  moves the cursor of the others, whose lists are different: when requests for two
  models alternate, the picks for one of them can come to the same endpoint every
  time. `RoundRobin` is about picks in a row and does not exclude it.

Also in the models without a property: a request that loses the race for its
bound account moves to another one; a conversation is bound when an account is
reserved, although `docs/API.md:239` says after a terminal success; the recycle
after a renewed ticket kills sibling hops in flight; and a forced start does not
wait for one under way, so that two docker restarts of a slot can overlap, and the
one may remove the socket of the kernel that the other has started.

## 4. Bounds, and why they are enough

* Requests: every race of the scheduler is between the request that decides, one
  that takes or frees the account meanwhile, and one that is queued. Three
  requests give all three parts at once; `sticky` needs only the two of one
  conversation.
* Accounts: two where a choice between accounts matters (`sticky`, `failover`), so
  that there is "the account" and "another one". `pool` and `liveness` have one:
  counters, queues and admission are per account, and a second only gives a
  request more ways out. The proofs cover any number.
* `MaxWaiters = 1` makes the full queue reachable with three requests;
  `FableCap = 1` and caps of 1 and 2 make every limit binding.
* `MaxReloads = 1`: an old and a new scheduler. A third would relate to the second
  as the second to the first.
* `MaxAttempts = 4` is one more than an account can get (a first attempt, a retry,
  a repaired one), so the bound of `AttemptsPerAccount` does not come from it.
* `Hops = 2`: one hop and its sibling. `Jobs = 2` lets a forced bounce overlap with
  a recycle; `SlotMax = 2` lets the kernel be half or wholly leaked.
* `Callers = 2`, `Importers = 1`: a refresh, what overtakes it, and an import beside
  both. `MaxTickets = 2`: the one on disk and the one that replaces it, by a refresh
  or by an import. A third, which would make the second stale in turn, takes the
  run beyond a few minutes; the proofs are for any number.
* `gateway`: two requests on one key and one on another key of the same user make
  the user's cap binding; the second model is served by one of the two endpoints,
  so that the shared cursor is moved for lists of different length. The keys' own
  cap is "none" in this instance: with a changing one the run takes too long,
  and the user's cap goes through the same gate. The panel changes one key.
* `sessions`: one account (accounts do not interact), one conversation more than
  the cap, a clock that lets a conversation age out and come back twice.
* `proxy`: one VM is moved and one toggled, one proxy switched and edited and one
  removed and probed by hand (`Panel`); `BindLimit = 1` makes the refused bind reachable.
* `MaxArchives = 4`: a backup, its successor, a restore and a second restore.
  `KeepPre` is 3 in the code and 2 here, so that the limit is reached.
* `codex`: `Volatile = {1}`: kernel and switch of the first slot change, the second
  is the one failover reaches.
* Symmetry is used over accounts, requests that are alike, hops, jobs
  and conversations, in runs without liveness properties only.

## 5. Fairness

Weak fairness of each request's own continuations (`Fairness` in `PoolScheduler`):
the event loop runs every resolved promise and every expired timer, and an
attempt ends because the transport has first-byte, idle and total timeouts.
Nothing is assumed about clients, operators, gates, cooldowns or which request
wins a freed slot. In `KernelHop`, weak fairness of the steps of a hop, of a
restart and of a start: docker calls, health probes and sends have timeouts
(`protocol/handle-protocol.mjs:830-831` and `864-865` pass those of a send). The
kernel itself is not assumed to boot, nor any output to be written.

In `CodexPath`, weak fairness of the steps of a request that a timer bounds
(`Timed`: probes, boots, and a send until its headers) and of the usage monitor's
`Reconcile` for the slots it probes. Nothing is assumed about the end of a body,
since the Codex path passes no timeout for it. Kernels are not assumed to boot, and
windows not to reset.

Deadlock is checked in the scheduler's runs and in `codex`: a request can always
begin again. The other runs end when their requests are done or a bound (the
clock, the number of tickets or archives) is reached, so it is switched off
there.

## 6. What is proved

Every invariant and every action property that a run checks is also a theorem:
the run shows it on a small instance, TLAPS for every value of the constants.
The assumptions are those named in the modules (`PoolAssumption`,
`RunnerAssumption`, `HopAssumption`, `RefreshAssumption`, `KeysAssumption`,
`SchedulerAssumption`, `GatewayAssumption`, `SessionAssumption`,
`BackupAssumption`, `MarkersAssumption`, `CodexAssumption`, and `PoolAssumption`
again in `ProxyPool`); they say what the constants are (caps are naturals,
markers are not accounts, what is counted is finite), and TLC evaluates them in
each run. Bounds that the model has for TLC (`MaxReloads`, `MaxTickets`,
`MaxArchives`, `MaxTime`, `Jobs`) are parameters here, so the theorems hold for
any of them.

| Module | Theorems |
|---|---|
| `PoolSchedulerProofs` | `TypeCorrect`, `QueuesCorrect`, `CountersCorrect`, `FableCorrect`, `AdmissionCorrect` (action), `RotationCorrect`, `NotifyCorrect` (action), `Refinement` (`Spec => ImplementsAccountPool`) |
| `FailoverRunnerProofs` | `TypeCorrect`, `AttemptsBounded`, `SwitchesCorrect`, `OutputCorrect`, `UsesAccountPool` (`Spec => Pool!Spec`), `CapHeld`, `RunProgress` (action) |
| `KernelProofs` | `TypeCorrect`, `InflightCorrect`, `DeferredCorrect`, `LeakCorrect`, `HopProgress` (action); for the Codex path `CodexTypeCorrect`, `CodexKernelCorrect`, `CodexAnswerCorrect`, `CodexProgress` (action) |
| `CredentialRefreshProofs` | `TypeCorrect`, `GrantCorrect`, `DeathCorrect`, `OperatorOffCorrect`, `RevocationCorrect` (action) |
| `ApiGatewayProofs` | `TypeCorrect`, `InflightCorrect`, `UserCapCorrect`, `ExhaustionCorrect`, `DisabledCorrect`, `RoundRobinCorrect` |
| `SessionLimitProofs` | `TypeCorrect`, `CapCorrect`, `StaysCorrect` |
| `ProxyPoolProofs` | `TypeCorrect`, `BindingCorrect`, `ComesBackCorrect`, `OperatorOffCorrect`, `DeadProxyCorrect` |
| `BackupRestoreProofs` | `TypeCorrect`, `SafetyCorrect`, `ListedCorrect` |

An invariant `P` is proved from an inductive one: `Init => IInv`,
`IInv /\ [Next]_vars => IInv'`, `IInv => P`; an action property from `IInv` and the
step. The proofs go action by action, one step for each conjunct an action
can disturb. Why the invariants need strengthening says most about the code:

* **`PoolScheduler`**: `IInv == TypeOK /\ QueuesExact /\ CountersExact /\
  FableWithinCap`, no part of which is inductive alone. That only requests between
  reserve and release have an account survives a wake-up only because a queued
  request is waiting: `notifyCapacity` sets the state of everybody in a queue, and
  a holder in a queue would lose its reservation there. `FableWithinCap` is about
  requests while the guard of `reserve` reads a counter, so it needs
  `CountersExact`, which needs finite `Requests`. Admission follows from the guard
  `quota[a] < cap[a]` and `CountersExact`; the refinement from the same facts, since
  `AccountPool!Grant` counts holders and the code reads `quota`. `RotationCorrect`
  and `NotifyCorrect` rest on lemmas about how a wait begins and a hold ends
  (`WaitBegins`, `HeldEnds`).
* **`FailoverRunner`**: the bound on attempts becomes inductive as a ledger
  (`SentPaid`): each attempt on an account is paid for by a same-account retry, by
  the one repair of the body, or is the one extra attempt that is under way, gave
  the account up or ended the run. `SwitchesExact` needs that the account in use is
  not among those given up (`GivenUp`), `OutputEndsRun` that a run never pauses
  after output (`Silent`). `UsesAccountPool` is the runner's side of the contract
  that `Refinement` proves for the scheduler: both keep to `AccountPool`, and
  `CapHeld` follows from that contract alone.
* **`KernelHop`**: `DeferredHasOwner` and `InflightExact` need to know where callers
  of a shared start are (`StartsPlaced`: a hop in a start is at no other point, and
  only one that joined points at another caller), since the end of a start moves
  them all at once. `LeakIsRecycled` is only about the moment when nobody is in the
  wrap; its inductive form `LeakHasOwner` says who answers for a leak before that: a
  deferred recycle, or a pending one that has not yet come to its launch
  (`Unlaunched`).
* **`CodexPath`**: a running kernel is in the supervisor's map (`CodexStarted`); the
  lines seen belong to the current send, and the client has none beyond them
  (`CodexAnswers`). That a crashed kernel is never taken out of the map costs
  availability, but is what keeps the count at one. That a request under way
  always has a slot needs `Slot` to be one of those left: a set of numbers that is
  not empty has a least element (`LeastNumber`, from the library's `WFMin`).
* **`CredentialRefresh`**: two layers. What holds always: tickets are issued in
  order, an unwritten answer is newer than what was read for it, the operator's
  lock holds. What holds while nobody has acted on something replaced (`Clean`):
  one refresher, working on the ticket in the file; the grant is alive, revoked or
  in that refresher's answer; verdicts are about revoked grants, or about one that an import has just replaced
  (`RecordReal`, `Stored`). `crossed \/ Clean`
  is inductive; neither layer is without the other.
* **`ApiGateway`**: `canAccept` compares a sum of counts with a cap that is about
  requests. `RunsCounted` numbers the requests of each key (`InflightExact`) and so
  injects the running requests of a user into the pairs that make up the sum. This
  is why `UserInflight` is written as a number of pairs and not as a fold.
  `RoundRobinCorrect` is about places in a list: different endpoints have different
  ones (`TurnInjective`), and the cursor stands just behind the endpoint taken last
  (`InTurn`), so that the loop comes to that one after all the others. A pick for
  another model moves the shared cursor and replaces `last` with it; a switched
  endpoint changes the list and empties `last`.
* **`SessionLimit`**: an entry has the time of its latest reservation, and a
  conversation active within the window has an entry (`Agrees`), so what prune
  takes away is settled by the history alone.
* **`ProxyPool`**: `DeadProxyVmOff` needs that the VM's file and the pool agree on
  the proxy (`Tracked`), and that a VM taken off for a reload, which `EndReload`
  puts back without looking, has a proxy that is on (`Backed`).
* **`BackupRestore`**: retention sorts by age within the safety backups, so the
  latest stays because it is the newest of its kind in whichever ledger is open
  (`LedgerOrdered`), and the ledger changes when a restore brings back an old
  database: archives list older archives only (`ArchivesOlder`). `RestoreUnderWay`
  ties the steps of a restore to what is on disk between them.

Three theorems are the safe half of a liveness property. `RunProgress`,
`HopProgress` and `CodexProgress` give each run, hop and GPT request a rank, a
number with a bound in the constants, which its own steps lower and nobody's step
raises. The ranks show where the bounds of the loops are: attempts are what a run
cannot get back (`6 * MaxAttempts + 2`, two being the entry before the first
attempt, when nothing else can have happened yet: `AttemptsWithin`); a hop has one
resend and one renewal (13; a hop that is sent again has renewed its ticket:
`AgainRenewed`); a GPT request loses a slot with each failure
(`7 * FailoverMax + 6`). What is left to the model checker is that somebody's step
is always enabled and taken.

Only model-checked: the liveness properties `SelectionSettles`, `HopsSettle`,
`CodexSettles` and `RestrictionFollowsPark`. They need fairness and ENABLED, which
are beyond the proof system as it is used here. For `SelectionSettles` there is no
rank either: a selection may be woken and lose the account any number of times,
and ends because its deadline passes.

Recursive operators and induction schemes with an operator as parameter cannot be
used with the installed provers. The modules that are proved about therefore
speak of sets and least elements where the code walks a list.

## 7. Plan

1. `AccountRuntime`: rows with lengths of cooldowns, model scopes and the
   distinction between a revoked grant and a disabled organisation.
2. `FailoverRunner` with failing database writes: exceptions between reservation
   and `try`, and after a complete answer.
3. `CredentialRefresh` in place of `RotateTicket` and `Renewed` in `KernelHop`.
4. A module that runs `FailoverRunner` and `PoolScheduler` side by side. Both are
   proved to keep to `AccountPool` (`UsesAccountPool`, `Refinement`); the
   composition would add the errors that cross the boundary.

## 8. What is not modelled, and why

* Conversion between protocols, SSE parsing, identity rewriting and fingerprints:
  transformations of text without shared state. Only what they decide
  (complete, incomplete, refusal, committed) is in the models.
* The panel, release and fleet update: hundreds of HTTP routes that read and
  write one file or row each, and docker procedures. The handlers that race with
  the models above (proxies, imports, switches, restores, keys) are in them.
* The database layer: synchronous and treated as never failing, except in
  `BackupRestore`; the rows that matter are variables.
* The Go worker: the inference path no longer runs through it.
* The web console: a user interface.
* Times: only their order matters in the models (deadline passed or not, cooldown
  ended or not, ticket newer or not).

These parts are most of the repository by size: the modelled state machines are
a few thousand lines out of about a hundred thousand, and a larger share could
only be had by transliterating text conversion and record editing.

## 9. Running

    tlc -workers 2 -config MCPool.cfg MCPoolScheduler
    tlapm PoolSchedulerProofs.tla       (and so on for each *Proofs module)

`PROJECT.json` names the module and configuration of every run, the source lines
of every definition (`map`), and for every property a mutated definition that
breaks it (`mutants`), defined next to the original and marked "mutant".

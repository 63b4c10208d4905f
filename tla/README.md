# Agent Knock Knock: TLA+ models, checks and proofs

Agent Knock Knock (AKK) lets a host (OpenClaw, Pi, DeepSeek Harness, a generic
command) delegate work to a coding agent that runs in a terminal pane. There is
no server: every operation is a short-lived CLI process, and what keeps two of
them from hurting each other is a set of JSON files, lock files and durable
state machines. This directory models those machines. Paths below are relative
to the repository; the implementation is in `src/`, the connectors in
`connectors/`.

## 1. Inventory

| component | state it keeps | operations | what is hard | what makes it correct |
|---|---|---|---|---|
| Callback outbox (`callback-outbox-*.ts`, `durable-notification-kernel.ts`, the preparations in `terminal-monitor-*-store.ts`) | two lanes (`callback_delivery`, `callback_notification_delivery`) in the Turn's state file, the event log, claim and markers in `native_session_takeover` | prepare, begin transport, checkpoint, settle, retry monitor, manual retry, reconcile, supersede | detached retry processes read without the lock; any process may die between two durable writes; transports can be ambiguous | no blind retry, no false evidence, one completion, silence after release, answered prompts are fenced, retries are owned |
| Callback transports and routes (`callback-transport.ts`, `*-callback-transport.ts`, `callback-route-*.ts`) | none durable | deliver one envelope | ambiguous exits, checkpoint then failure | an explicit outcome per attempt |
| Terminal dispatch (`terminal-dispatch-*.ts`, `terminal-submission-*.ts`, `terminal-command-dispatch-transport.ts`) | the pane ledger and the submission of the Turn: two files | prepare, stage, accept, uncertain, zero-input abort, retry Enter, recover | irreversible input between two file writes | a prompt is typed at most once; zero-input is only claimed when nothing was typed; ledger and Turn converge |
| Locks (`file-lock-cli-adapter.ts`, `mutation-transaction.ts`, `store.ts`, `store-owner-*.ts`) | lock files with pid and token, `.reclaim` guards, the writer lease | acquire, reclaim a dead owner's lock, release | check-then-unlink by several waiters; crash inside a reclaim | mutual exclusion; progress after a crash; no lock-order cycle |
| Terminal Watch (`terminal-watch-*.ts`, `watch-history-*.ts`) | one record per Watch with its own notification outbox and leases | create, observe, settle, cancel, time out, deliver, retention | settlement while a notification is leased | one terminal settlement; attention notices superseded |
| Managed sessions and bindings (`managed-session.ts`, `session-store.ts`, `terminal-binding-*.ts`) | Session records with a revision and a binding generation | save with expected revision, rebind, quarantine | stale revision or generation | a Turn acts only on its own binding |
| Native thread transitions (`native-thread-transition-*.ts`, `native-thread-lifecycle-*.ts`) | transition record in the pane ledger | prepare, send, observe, settle, recover | crash around the native command | the old binding is retired exactly once |
| Deferred foreground transfer (`deferred-foreground-*.ts`) | transfer journal, fences on Sessions and Turns | prepare, activate, settle, recover, user close | two Turns share one pane | one Turn owns the pane |
| Store authority (`native-store-authority*.ts`) | authority stamp and transfer journal in the pane ledger, Sessions of two Stores, registered Hosts | register, stamp, request, retire, create, commit, resume | a crash or a new Host between any two of five writes in three files | one claim; it moves once; an unfinished transfer is resumed |
| Backend tasks (`codex-native-*.ts`, `claude-native-*.ts`, `desktop-*.ts`) | task records with a revision, own outboxes and leases | reserve, send, reconcile, watch, recover, renew, close, retry | an answer lost after dispatch; observations applied after somebody else's save; a deadline during a call | a send is never replayed; unsent is true; the outbox keeps its promise |
| Routing journal (`conversation-route-*.ts`) | append-only route journal | reserve, dispatch, settle | crash after reservation | idempotent dispatch |
| Terminal monitor (`terminal-monitor-*.ts`) | its lock and the Turn's monitor fields | poll, record prompts, complete, stall | several monitors, stale snapshots | what it recorded is acted on once |
| Host lifecycle (`host-*.ts`) | running flag, timers | start, supervise, reconcile, stop | overlapping cycles, stop during a cycle | no cycle after stop |
| Interaction responses (`terminal-interaction-*.ts`, `terminal-watch-interaction-*.ts`) | dispatch reservation of one answer | reserve, type, prove, settle | irreversible keystrokes | one answer per question |
| Approvals and controls (`terminal-approval-*`, `terminal-model-control-*`, `terminal-permission-*`) | decision fields of the Turn | approve, deny, set model | a stale prompt | a decision hits the prompt shown |
| Parsing, presentation, connectors, scripts | none (projections) | | | not modelled |

Components interact through files, not calls: a monitor, `akk callback`,
`akk retry-callback`, a retry monitor and a Host startup all open the same
state file under the same lock (order: terminal lock, Store writer lease, state
lock). PROJECT.json lists each component with what of it is modelled, and each
hazard at its line.

| module | what it models | section |
|---|---|---|
| CallbackOutbox, CallbackOutboxProofs, CallbackOutboxPromiseProofs | both callback lanes of a Turn, and the monitor's writes | 3 |
| CallbackPromise | what an outbox promises: the abstract specification that CallbackOutbox and NativeTask implement | 3, 8 |
| FileLock, FileLockProofs | one lock file, both implementations | 4 |
| TerminalDispatch, TerminalDispatchProofs | terminal input between two durable records | 5 |
| StoreAuthority, StoreAuthorityProofs | which Store may send to a native thread | 6 |
| TerminalWatch, TerminalWatchProofs | observers of a pane, their notifications, answers to questions | 7 |
| NativeTask, NativeTaskLemmas, NativeTaskProofs | tasks of a Codex CLI thread | 8 |

Each module has an `MC` module and one `.cfg` per run. Every operator whose
comment begins with "Mutant" is a plausible bug: put in place of the definition
that follows it, it breaks the property that is there to catch it.

## 2. Plan

Done: CallbackOutbox first, because it is what the user finally sees of every
other component; FileLock, on which the atomicity of all the others rests;
then TerminalDispatch, StoreAuthority, TerminalWatch and NativeTask, each where
an irreversible step (keys, a claim, a callback, a submission) lies between two
durable writes. Proved: what sections 3.5, 4.4, 5.3,
6.3, 7.3 and 8.3 say.

Next, in this order:

1. MutationLocks: the order of terminal lock, Store writer lease and state lock
   over the call sites, with its documented exceptions.
2. Native thread transitions with binding generations, and the deferred
   foreground transfer, which share the pane ledger with TerminalDispatch.

## 3. CallbackOutbox

### 3.1 How it corresponds to the code

One instance is one managed Turn with one task.

| variable | code |
|---|---|
| `status` | effective status of the Turn; `idle` also stands for `failed`, the other result of a completion |
| `marker` | `terminal_bridge_approval`, `terminal_bridge_interaction_notification` (the saved callback message id) |
| `claim` | `terminal_bridge_completion_claim` |
| `stallSent` | `stalled_notification_sent_at` |
| `outbox[lane]` | the delivery record of a lane: status, message, attempts, attempt id, `attempt_pid`, lease, `transport_started_at`, `attempt_outcome` |
| `log` | message ids in the event log |
| `lock` | owner of the state lock file |
| `proc` | one record per process slot: program counter and locals |
| `prompt` | what the agent's screen shows (environment) |
| `received`, `exposed` | observers only: attempts the host took in; messages whose last transport is not proven undelivered |

A locked operation that writes several files is one action per durable write
(`append`, `save`, `announce`), so a crash can fall between them; a locked
operation with one write is one action. Steps outside the lock (transport, the
retry monitor's read, manual retry's read) are actions of their own.

| actions | code |
|---|---|
| AcceptCallback | `prepare` for `akk callback` (duplicate, released Turn, watchdog) |
| RecordPrompt, RecoverPrompt | `#recordNewApproval`, `#recordNewInteraction`, `#recoverApprovalOutbox`, `#recoverInteractionOutbox` |
| ClaimCompletion | `claimTerminalCompletion` and `prepareTerminalCompletion` |
| NotifyStall, StallQuietly, StallDuplicate, AnnounceStall | `#markStalled`, `#stalledState` |
| AppendMessage, SavePrepared | `persistPreparation` |
| BeginTransport, LoseClaim | `beginPreparedCallbackTransport`, `runPrepared` |
| Reach (external), Checkpoint, Return | the host; `persistDeliveryProgress`; `deliverCallbackViaTransport` |
| SettleDelivered, SettleFailed, SettleSkipped | `settleDelivery`, `persistDelivered`, `persistFailed` |
| Observe*, PrepareRetry, RejectRetry, Recheck, SettleAccepted | `runCallbackRetryMonitor`, `retryCallback` |
| ManualRetry | `runRetryCallback` |
| ReconcileAccepted, ReconcileRetryable | `reconcileCallbackDelivery` (Host startup) |
| ResolveApproval, ResolveInteraction, Renew, Close | the commands, with what each supersedes |
| Show, Vanish, LeaseExpires, Crash | environment |

Abstractions, all of data: message bodies, routes, gateway fields and route
eligibility (which only refuses before any write); time is the order of events
plus `LeaseExpires` and sleeps of any length; a pid is a process slot, so that
a slot taken again is a reused pid; a prompt is one occurrence, shown once, at
most one blocking prompt at a time. What `akk callback` carries is one of two
kinds: a result (`done`, `error`) ends the task, everything else (question,
progress, blocked) leaves the Turn as it is or waiting for OpenClaw, as its
`requires_response` has it (`protocol.ts:576-609`; `StatusAfter` is a set). Not
modelled: the replacement of a Turn's task, `recordOnly` preparations, the option
`closeTerminalBridgeOnDone`, Respond to a plain question.

### 3.2 Runs

All of `MCCallbackOutbox`. `MaxIds` bounds attempt ids, i.e. the preparations of
a behaviour; `MaxCrashes`, `MaxRenewals` bound what their names say. Every lane
conflict needs two messages, so a run takes a few message kinds. Deadlock
is not checked: a Turn that is closed, or whose bounds are spent, rightly stops.
`AsyncQuestions` is empty in all of them (3.4).

| run | question | outcome |
|---|---|---|
| outbox_prompts | a question, a result and a blocking questionnaire share a lane, a stall uses the other; Renew, retries, manual retry, answers, Close, one death; two interchangeable processes | TypeOK, EvidenceIsTrue, ReleasedTurnIsQuiet, AnsweredInteractionIsFenced, and KeepsPromise: the outbox implements CallbackPromise, in particular it never repeats what the host may have |
| outbox_monitor | two monitors with different completion evidence, a result the agent reports itself, an approval, one death | OneCompletion; under the monitors' polling ClaimIsResumed, RecordedPromptIsOffered |
| outbox_retry | who owns a retry: a stall, two retry delays, manual retries, nobody dies | RetryIsOwned violated: finding |

### 3.3 Fairness and timing

* `RunningProcesses`: a process that does not die takes its next step, and a
  lease runs out. Nothing else is fair for `RetryIsOwned`: in particular neither
  a Host startup nor a user is needed.
* `MonitorPolls`: the Host replaces the dead monitor of a waiting Turn
  (`docs/openclaw-session-turn-delivery-requirement.md:24-27`), and a monitor
  polls the same screen again. It is the premise of outbox_monitor only.
* `Timely`, in `RetrySpec` only: a watchdog's first delay (5 s or more, real
  `CALLBACK_RETRY_DELAYS_MS`) outlasts the locked writes of its preparation;
  transports are killed after 30 s while a lease lasts 120 s; a pid is not
  reused while its attempt is pending. Without the first the watchdog can find
  nothing, exit, and leave the work of a dead sender to the next Host startup.
* outbox_prompts uses plain `Spec`: none of these assumptions.

*Nobody owns the attempts that are left* (`callback-outbox-service.ts:1695`).
`RetryIsOwned` is the promise of the comment at `:1676`, that a failed attempt is
followed by the next bounded retry. TLC violates it without any crash: the first
attempt fails; a retry monitor reads the delivery as retryable, without the lock;
a manual retry prepares the second attempt first; the monitor's own transaction is
refused, its recheck finds that attempt in flight, and it exits; the manual attempt
fails, and since `retryPending` is set (`callback-outbox-settlement.ts:203`) its
settlement launches no monitor. The attempt is failed, retryable and within the
budget, and only a Host restart or one more manual retry moves it. The trace has
two monitors, the preparation's watchdog and the one the failure launched; both
exit that way. Two delays are the least that leave an attempt over; the code has
four. With one delay the property holds, since the manual attempt is then the last.

### 3.4 Observations

Besides the finding of 3.3. Each is behaviour of the code seen in the model, which
the runs exclude by their bounds or conditions, for the reason given.

* `recoverInteractionOutbox` (`terminal-monitor-attention-store.ts:451`) offers a
  recorded asynchronous question again whenever its lane holds another message,
  whatever the outcome of its first transport was, while
  `docs/bidirectional-agent-protocol.md:100-102` forbids a blind retry. With an
  asynchronous question in the lane KeepsPromise is false.
* A second stall for one reason is announced as an event while the Turn is not
  saved as stalled (`terminal-monitor-state-cli-adapter.ts:991`): the Turn stays
  `waiting_for_agent` and Renew refuses it.
* Any accepted message of the notification lane, an asynchronous question
  included, sets `stalled_notification_sent_at` (`callback-outbox-settlement.ts:502`),
  so that a later stall is announced without a callback.
* A callback that failed for good within its budget still counts as an active
  outbox and defers every later questionnaire of the waiting Turn
  (`terminal-monitor-attention-store.ts:399`).
* A process of `akk callback` that dies between the append and the save loses its
  question: the repeated call is a duplicate. A decided approval leaves its
  pending callback in the lane.

### 3.5 Proofs

`CallbackOutboxProofs` proves for every value of the constants, from
`ConstantsAssumption` only (the message kinds are disjoint, at least one retry
delay):

* `Typing`: `Spec => []TypeOK`. That an attempt count stays within the budget is
  the part a test would not settle.
* `OneCompletionHolds`: `Spec => []OneCompletion`. It is about the completions
  that monitors detect; a result the agent reports itself needs no claim, and once
  one of the two has released the Turn the other is refused.
* `Invariance`: `Spec => []IInv`, the strengthening both need.

OneCompletion is not inductive: a process that has taken the lock but not yet
appended its completion could, as far as that property says, hold another
completion than the claimed one. `IInv` adds what a locked preparation knows:
`LockInv` (the lock belongs to the process inside a preparation, so at most one
is), `WriteInv` (it writes a message its lane does not hold, of a Turn that is
not released; a completion is the claimed one), `LaneInv` (lanes hold logged
messages of their own; a completion only in a released Turn), `ClaimInv`,
`MsgInv`. The step proof separates three kinds of action: those that start a
preparation (`PrepareStable`), the durable writes and the crash (`WriteStable`),
and everything else, which satisfies `Frame` (no process inside a preparation
moves; log, claim and lock stay; status changes only while unlocked) and
`FrameStable` finishes once for all of them.

`CallbackOutboxPromiseProofs` builds on it and proves what the outbox does to
the host:

* `EvidenceHolds`: `Spec => []EvidenceIsTrue`.
* `NothingTwice`: the host never takes a message twice, an asynchronous
  question excepted.
* `ReleasedIsQuiet`, `AnsweredIsFenced`: the action properties of outbox_prompts.
* `PromiseIsKept`: `AsyncQuestions = {} => (Spec => KeepsPromise)`. The
  hypothesis is that of the runs, and it is needed: 3.4 describes how the code
  offers an asynchronous question again. The other four theorems do without it.
* `DeliveryHolds`: `Spec => [](IInv /\ DeliveryInv)`, the strengthening.

EvidenceIsTrue relates a lane to what the host took; between the two stand a
process that carries an outcome, leases that run out and lanes that are
overwritten. `DeliveryInv` has a part for each:

| part | what it says |
|---|---|
| IdInv | attempt ids are numbered below `nextId` and each belongs to one process, so at most one process holds the claim of a lane (`OneHolder`) |
| ResultInv | a process that reports acceptance attempted what the host took; a lane whose claim is in transport is marked as started and knows no more than its process |
| EvidenceInv | a lane calls delivered or accepted only what the host took; a lane not marked as started has no outcome |
| ExposedInv | a message that may be with the host is in no lane open for an attempt, in no preparation, and in no failure still to be settled as retryable |
| TransportInv | at most one process transports a message, and at most one attempt of it was taken |
| OfferInv | why an exposed message is not prepared afresh: questions and stalls are logged, a completion has released the Turn, a prompt still on the screen keeps the lifecycle lane, since nothing else is prepared for that lane while it is shown |
| PromptInv | one blocking prompt at a time; a preparation writes no answered prompt; a lane open for an attempt holds no answered question |
| ReleasedInv | what a released Turn leaves in its lanes |

ExposedInv, TransportInv and the lane clause of OfferInv speak of the messages
that are prepared for their lane only once, all but asynchronous questions.
The invariant was checked with TLC on three instances (the two of outbox_prompts
and outbox_monitor, and one with an asynchronous question) before it was proved.

The step proof has one lemma for all steps that only supersede, settle or
unlease a lane while no process gains an attempt (`Quiet`, `QuietStable`), one
for the preparations, after the reason each of them has to be allowed is
reduced to `Prepares` (`PreparesOnce`), one for the two ways to freeze a fresh
attempt (`Freezes`), and one each for the append, the announcement, the
checkpoint, the failure and the three steps of a transport. Each action then
`Advances`: DeliveryInv again, the fence of a released Turn, and a step of
CallbackPromise (Expose for BeginTransport, Take for Reach, Refuse for a
retryable Return, Acknowledge for a lane that becomes delivered, Forget for a
delivered lane that is overwritten, Offer for the rest).

Model-checked only: the liveness properties (fairness and ENABLED are outside
the prover).

## 4. FileLock

### 4.1 How it corresponds to the code

One instance is one lock path. `AbsentIsStale` chooses between the two copies
of the protocol: TRUE is `src/file-lock-cli-adapter.ts` (terminals, routing,
backend tasks, monitor ownership), FALSE is `acquireConversationLock` and its
helpers in `src/store.ts` (Store writer lease, state of every Turn). They
differ only in what a reclaimer does when `lstat` finds no file.

| variable | code |
|---|---|
| `lock` | the file at the path: which process created it, the pid written in it, older than 30 s or not; `NoFile` if there is none |
| `guard` | creator of the `.reclaim` file |
| `pc`, `sawOld`, `sawPid` | next step and locals of a process |
| `raced` | observer: an owner unlinked the lock while another process was between its `lstat` and its `unlink` |

| actions | code |
|---|---|
| Request, Open, WriteOwner, WriteFails, Retry, TimeOut | `acquire`, `acquireConversationLock` |
| OpenGuard, GuardFails, CloseGuard | `reclaim`, `removeStaleConversationLock` |
| Stat, ReadOwner, Signal, Unlink | `stale` and `owner`, `removeStaleConversationLockAsReclaimer` |
| Release, Drop | the token check and the unlink of `release`, `releaseConversationLock` |
| Age, Crash | environment |

A descriptor writes to the file it opened even when the path has been unlinked
(`Written`); an unlink removes whatever is at the path. The token is fresh per
acquisition and the path holds one file, so the creator stands for it. Assumed:
pids are not reused, and the 30 s grace period is longer than a creator needs
to name itself and than one inspection takes (`Age`). Left out: symbolic links
and file modes, which only refuse; a process that awaits while it holds the
writer lease and is asked for it again by another of its own tasks; the legacy
file format with a bare pid.

### 4.2 Runs

All of `MCFileLock`, every interleaving of system calls. Deadlock is checked.
The only bounds are the number of processes and of deaths: a race needs an
owner, a reclaimer and a process that profits.

| run | variant, faults | outcome |
|---|---|---|
| filelock_store | Store; 3 processes, 2 of which die anywhere, the reclaim included; any write fails | TypeOK, OwnerKeepsItsFile, LockIsTakenAgain |
| filelock_adapter_race | adapter, no fault | MutualExclusion violated: finding |

Fairness (`FairSpec`): a process that has not died takes its next step, and
time passes. A process that gives up after its timeout asks again, as monitors
and supervision do on their next cycle. LockIsTakenAgain does not promise the
lock to any particular process: the code has no queue. It excuses three states
from which the code cannot recover, and nothing else: the reclaim guard was left
behind (`GuardLost`), the file names a living process that failed to sync it
(`Abandoned`), or the disk fails every time.

`OwnerKeepsItsFile` is conditional on `~raced` because the unconditional
statement is false of the Store's copy too: its reclaimer removes by path what it
judged by content (`store.ts:1922`). If the owner releases and ends between the
read of its pid and the signal, or releases a file older than 30 s between
`lstat` and the read, and a new owner creates its file before the unlink, that
file is lost; TLC shows it with `MutualExclusion` under the constants of
filelock_store. The window is a few system calls wide. The condition is exact in kind, a
release inside another process's inspection, and covers nothing else: crashes,
failed writes and any number of concurrent reclaimers are without it. For the
adapter no such statement holds: a reclaimer that finds the file gone removes
the next one.

### 4.3 Finding and observations

*The adapter's recovery gives one lock to two processes*
(`file-lock-cli-adapter.ts:102`): after a release, or when two processes wait
for a dead owner's lock. PROJECT.json quotes the sentence it contradicts.

A reclaim guard outlives its dead creator (`file-lock-cli-adapter.ts:110`; the
Store's copy is the same), and the lock is never reclaimed again. A pid that was
given out again keeps a dead owner's file alive (`:94`), and a creator that is
suspended for more than 30 s before it names itself loses its file (`:100`): both
are outside the model (4.1).

### 4.4 Proofs

`FileLockProofs` proves, for every set of processes and every fault:

* `LockTyping`: `Spec => []TypeOK`, both variants.
* `LockIsKept`: in the Store's variant
  `Spec => [](OwnerKeepsItsFile /\ (~raced => MutualExclusion))`.

OwnerKeepsItsFile is not inductive: it does not say why a reclaimer about to
unlink is right. `LockInv` adds `GuardInv` (whoever is inside a reclaim created
the guard, hence is alone), `FileInv` (a file names nobody but its creator and is
young and empty while being written) and `JudgementInv` (what a reclaimer has
read is still true of the file at the path, and a file about to be unlinked has no
owner). The assumption `~AbsentIsStale` is used in the step `Stat` alone, which is
where the adapter fails. The liveness properties are model-checked only.

## 5. TerminalDispatch

### 5.1 How it corresponds to the code

One instance is one terminal pane. Text and Enter cannot be taken back, so AKK
keeps two records of each message: the pane's dispatch ledger, which all Stores
of the machine share, and the submission in the state of the Turn.

| variable | code |
|---|---|
| `ledger` | the terminal dispatch ledger: current dispatch, its owner and agent process, and the append-only receipts |
| `turn` | phase, task message and submission of each Turn, per Store |
| `op` | the one Send, answer or monitor commit that holds the terminal lock, and its next step |
| `pane`, `typed`, `heard`, `proof` | the agent process and its composer, what was typed and received, what the transcript proves (environment and observers) |
| `budget` | failing writes, deaths and restarts that are left |

| actions | code |
|---|---|
| Send, Answer | the preflight against Turns, receipts and ledger, with `recoverPrepared...` and `recoverLagging...` (`terminal-dispatch-recovery-service.ts`) |
| SavePrepared*, RestoreLedger, Abort* | `terminal-dispatch-application.ts`, `terminal-dispatch-abort.ts` |
| DeliverText, TextNotDelivered, PressEnter, Save* | `terminal-dispatch-execution.ts`, `terminal-text-submission-bridge.ts`, the ledger codec |
| PollAcceptance, IdentityFailure, SaveFinalLedger, SaveUncertain* | `applyAcceptance` (Turn first), `applyIdentityFailure` and `applyUncertain` (ledger first) |
| ObservePane, CommitObserved, MarkUncertain, PollTurn | `terminal-acceptance-cli-adapter.ts`, the monitor |
| RecoverPreparedTurn, Close | the recovery of a prepared Turn, `terminal-maintenance-cli-adapter.ts` |
| HumanSubmits, HumanClears, RestartAgent, Crash | environment |

A write may fail before it took effect or after (an error from the directory
sync); both are outcomes of one action. The agent may echo late or not at all.

### 5.2 Runs

| run | question | outcome |
|---|---|---|
| dispatch_safety | two Stores share the pane: three Turns, two tasks, an answer; one failed write, one death, one restart | TypedOnce, NothingTypedOverUnproven, SafeAbortIsUntyped, DroppedDispatchIsUntyped, AcceptanceIsProven |
| dispatch_live | one Turn and an answer; three failed writes, two deaths, a restart | UnprovenIsSettled, LedgerCatchesUp |

Three Turns in two Stores are the least for which a command meets a Turn it can
see, one it cannot, and a ledger that names the other. The liveness run has one
Turn because nothing another Turn does can help or hinder it beyond the failures
that are bounded anyway. Fairness: a transaction under way goes on unless its
process dies; the Host polls every Turn that is not closed, strongly, because a
monitor that finds the terminal busy tries again at its next poll and no
controller repeats a failing command without a gap. Deadlock is not checked:
when all Turns are closed there is nothing to do.

Observations. Recovery of a lagging Turn may turn an "uncertain" that only the
ledger had into an earlier stage. A blocking message is held back three times (by
the list of Turns, by OthersSettled and by the ledger's preflight), but between
Stores only by the last. When Close fails to resolve the ledger, the pane stays
blocked until Close is repeated.

Not modelled: `send --turn` (the retry of a submission), deferred foreground
sends, raw attach and its rollback, user-explicit Send, the legacy states of
ledger and submission, a message id used again for something else, and Close's
read and write of the ledger as two steps. After an uncertain dispatch, the sender's
own or one the monitor recovers from the ledger, the code also stalls the other
blocking Turns of the pane in its Store (`terminal-monitor-collateral-recovery.ts:68-150`,
called at `terminal-command-dispatch-transport.ts:1100` and
`terminal-monitor-cli-adapter.ts:233`). This is left out
because it finds none in the states modelled here: Send refuses a pane on which its
Store has a blocking Turn (`terminal-dispatch-recovery-service.ts`). TLC confirms on
the instance of dispatch_safety that no two Turns of one Store block the same agent
process; legacy documents, in which this may happen, are not modelled.

### 5.3 Proofs

`TerminalDispatchProofs` proves, for every set of Turns, messages and Stores and
every number of failing writes, deaths and restarts, from the named assumptions
of the module, all that dispatch_safety checks: `Typing`, `TypesOnce`,
`TypesOverNothing`, `SafeAborts`, `AcceptanceHasProof` and `DropsOnlyUntyped`.

None of them is inductive, because each relates the pane to a record that is
written later, possibly by another process after a crash. `IInv` says for every
point between the writes what the records still to be read will show:

* `ShapeInv`, `HolderInv`: documents name existing things; a message has an open
  outcome in at most one Turn, as its current one;
* `TypedInv`: whatever was typed is on record in a Turn, and a Turn that aborted
  the same message earlier aborted it safely;
* `BeforeInv`: what Send has established while nothing is typed yet: the message
  is new, everything else typed into this process is settled, and the ledger it
  may have to restore is about something else;
* `AfterInv`: a transaction that may have typed is the current one of its Turn;
* `PaneInv`, the heart of it: what was typed into this agent process without an
  outcome holds the ledger in an open status, whatever write failed;
* `PreparedInv`: a "prepared" ledger is either of the transaction under way or of
  a Turn that tells whether the text was typed;
* `AcceptedInv`: acceptance passes from the transcript to the Turn to the ledger,
  never the other way.

The lemmas about recovery (`RecoverPreparedFacts`, `RecoverLaggingFacts`,
`ReconcileFacts`) reduce its case analysis to one relation, `Follows`, between
the old and the new ledger; `LedgerWrite` and `TurnWrite` state once what a write
that may or may not have taken effect leaves behind. `BeginIsFresh`, the lemma on
the preflight, uses neither the list of Turns nor OthersSettled: what keeps a
second message from being typed over an unproven one is, in every case, the
preflight of the ledger together with `PaneInv`. `IInv` was checked with TLC on
the instance of dispatch_safety first. UnprovenIsSettled and LedgerCatchesUp are
liveness and stay with TLC.

## 6. StoreAuthority

### 6.1 How it corresponds to the code

One instance is one native thread on one terminal. The ledger names the Store
that may send to it; a transfer is a journal in the ledger plus one save in each
Store (`native-store-authority-transfer.ts`), under leases taken one after the
other.

| variable | code |
|---|---|
| `ledger` | status, authority stamp, generation and the `transfer` journal |
| `session` | the Session of the thread in each Store, with its revision and receipts |
| `owners`, `alive` | registrations of Hosts (never removed) and the processes behind them |
| `work` | Stores with an unsettled Turn or Watch of the thread |
| `op` | the transfer a command is executing, and its next step |

`Request` is the preflight with eligibility; it prepares a journal, which
`FenceSource` writes. The steps are `ReadyTarget`, `FenceSource`, `RetireSource`, `RecordRetired`,
`CreateTarget`, `RecordCreated`, `Commit`, each repeatable after an interruption; `Send`,
`Settle`, `StartWatch`, `TouchSession` are what others may do meanwhile. The
first owner may predate registrations (`legacy`), in which case the command
carries the user's acknowledgement, which the model takes as true.

### 6.2 Run

`authority_transfer`: three Stores (so that a claim can move twice), two Hosts,
one of them ephemeral, two interruptions or failing saves, one unrelated change
of a Session. OneClaim, AuthorityHoldsClaim (no crash leaves a thread that
nobody may send to and no journal explains), NoLiveOwnerIsRetired, CopyIsLast
and AuthorityMovesOnce are safety; TransferIsResumed assumes that a transfer
that goes on is not stopped for ever, and that the person who asked repeats the
command. It has three exceptions, `Refused`, the comparisons after which the code
itself refuses to go on, each for good: a Host has registered in the source
(`native-store-authority-transfer.ts:55`), a command has changed the source Session
before its retirement (`:143-145`) or the target Session before the commit (`:160`;
no save reads the ledger, so `TouchSession` may fall anywhere). In each of them the
journal stays unfinished and the thread fenced, although the comment at `:130` says
that a prepared transfer is resumed from every crash point. That no other state is
stuck, however often saves fail or the command dies, is what the run shows. Deadlock
is not checked: all Hosts may be dead.

A Session can never return to a Store it has left (`targetAvailable`). Not
modelled: the reconciliation of a replaced terminal incarnation, the comparison
of tokens (a Host is its token).

### 6.3 Proofs

`StoreAuthorityProofs` proves for every set of Stores and Hosts and every number
of faults, from the named assumptions of the module, everything the run checks
except its liveness property: `Typing`, `OneClaimHolds`, `AuthorityIsHeld`,
`LiveOwnersKeepTheirClaim`, `TheLastCopyMoves` and `AuthorityIsNotTakenBack`.

OneClaim alone is not inductive: it does not say that no third Store is bound
when a target is created, nor that a resumed journal is about the Store that
lost its claim. `IInv` adds

* `ClaimInv`: without an unfinished journal exactly the Store of the ledger is
  bound; with one, either only its source is, or at most its target;
* `JournalInv`: an unfinished journal starts at the Store of the ledger, leads
  elsewhere, and its id is above the generation of the ledger;
* `OpInv`: the running command works from the Store of the ledger and, once a
  journal is written, on that journal;
* `InspectedInv`: before that, the Hosts it saw are dead and still registered,
  and if none has been added the id is still above the generation. This is why
  re-reading the registrations under the lease suffices: a `Settle` by a live Host
  may stamp an old ledger and raise its generation, but registers that Host too;
* `RetireInv`: what the lease of the source protects between the write of the
  journal and the retirement (no work, no live owner, the copied revision);
* `RetiredInv`: the source is retired under the id of the journal in every later
  step, and the target bound once created.

`TypeStep` and `StableStep` have one step per action; the facts about a journal
or a save they share are lemmas (`JournaledFacts`, `StampedFacts`,
`PersistFacts`). `IInv` was checked with TLC on the instance of 6.2 first.

## 7. TerminalWatch

### 7.1 How it corresponds to the code

One instance is the Watches of one pane. A Watch follows an exact task, or only
the activity of the terminal.

| variable | code |
|---|---|
| `watch` | the Watch record: status, displayed question and its state, notification outbox with leases, checkpoint |
| `job` | what each process is doing: an observation not yet applied, or a notification being delivered |
| `reply` | the answer a responder is typing, under the writer lease |
| `due`, `collected` | passed deadlines, records that retention removed |
| `managed` | the managed Turn that owns the prompt, if any: it may still answer (a claim) or has used it (a fence) |
| `screen`, `task`, `heard` | environment and observers |

| actions | code |
|---|---|
| Observe | `observeTerminalWatch` and the questionnaire's observation, without a lock |
| Apply* | `reconcile` and `applyObservation`, `applyInteractionObservation` in `terminal-watch-service.ts`, checkpoints of the codec |
| TimeOut, Cancel | `settleTimeout`, `cancel` |
| Claim, Reach, Accepted, Fails, Lapse | `deliverNextNotification` and `durable-notification-kernel.ts` |
| Reserve, Type, Consume, Release and what the responder decides (`Executable`) | `terminal-watch-response-authority.ts`, `terminal-interaction-response-*.ts`, `terminal-watch-interaction-response-store.ts` |
| Collect | `watch-history-policy.ts` |

### 7.2 Runs

| run | question | outcome |
|---|---|---|
| watch_answers | two Watches of two controllers, overlapping observations of two interchangeable questions, two answers, a managed Turn that claims the prompt or has used it | OneAnswer |
| watch_delivery | one Watch of either kind, two senders, a question and an approval, a failing call, a lapsed lease, a death, every end | OnceUnlessLapsed, SettledWatchIsQuiet, RemovedIsReceived |
| watch_live | one Watch of either kind, two questions, a deadline, a failing call, a death | EndIsNoticed, OutcomeIsDelivered, QuestionIsAnnounced |

Two Watches are the least for which one may use a prompt that another still
offers; two questions the least for which an old observation can replace a newer
one. Fairness: a sweep observes every active Watch and takes up a notification
of every Watch (strong: the lock of a Watch may be busy), a sweep or an answer
under way goes on, the transport bounds a call and a lease runs out. Nothing
obliges a controller to answer. Deadlock is not checked: all Watches settle.

Assumed: an observation takes longer than the clock's millisecond, so that a
question is first withdrawn and replaced by the next sweep.

Observations. A slow observation of an earlier question replaces the one
recorded later, which is then never announced or answerable again while it is
displayed; `docs/architecture/orchestration-refactor-history.md:2867-2868` says
that an observation cannot overwrite a newer revision, and the code compares
revisions only for paginated anchors (`terminal-watch-service.ts:313-330`).
QuestionIsAnnounced names these cases (`Spoilt`). An announcement that was
dropped when another question took its place counts as a duplicate when the
question returns. A reservation whose process died blocks every later question
of its Watch, and fences other active Watches; deadline and outcome still work.
A settled Watch no longer fences. A lapsed lease makes delivery at-least-once.

Not modelled: drafts and the revision check of the paginated anchor, withdrawal
of asynchronous questions, fallback anchors, unavailable observations, managed
Turns answering the prompt themselves, tasks that replace one another on one
pane, failing disk writes.

### 7.3 Proofs

`TerminalWatchProofs` proves, for every number of Watches, processes, questions,
approvals, failing calls, lapses and deaths, all that watch_answers and
watch_delivery check: `Typing`, `Once`, `Removed`, `OneAnswerHolds` and
`SettledQuiet`. None of these is inductive; they follow from `WatchInv`:

* `TypeInv`: the records are well formed; an active Watch has not been found idle
  twice, and an observation that counts a second idleness concludes completion
  (so that no record can keep counting);
* `CarriedInv`, one `Carried` per Watch, ties its outbox, the processes that
  deliver from it and what its controller has heard. A notification is stored once
  (`Distinct`); nothing before the one in flight is still to be delivered
  (`InOrder`); without a lapse a pending or failed notification was not heard and
  no other more than once (`Truthful`), and at most one process holds it, with the
  attempt the record counts (`Carries`);
* `ReportsInv`: an active Watch holds attention only, a settled one its outcome, and
  the attention it has left is neither pending nor failed;
* `CollectedInv`: what retention removed was completed, resolved and heard;
* `ReplyInv` and `AnswerInv`: the responder works for a reserved question at a
  display no active Watch has used; an active Watch that has used it still records
  that question, as resolved or reserved (`Used`), and once it is resolved no
  observation that could replace it has seen another question (`Abreast`).

OnceUnlessLapsed needs the last part of `Carried`: of two processes with one
notification the second would tell it again. SettledWatchIsQuiet needs `InOrder`:
a claim looks at the head of the outbox only, so a settled Watch could resume an
attempt behind an attention it has just dropped. OneAnswer needs `Abreast`: an
observation made before the keys and applied after them would offer the prompt
again if it showed another question. It is kept because an observation that began
before a question was resolved may not replace it (`Overtaken`, the codec's
comparison of times), and because nothing replaces a question that is reserved.

The proof has one lemma per action. `AroundKeeps` finishes the actions that change
neither a record nor a delivery; `Improves` collects what every save under the
lock keeps (the outbox only grows, is tidied or is told an end), so that the
reducers of an observation only show that their record improves the stored one;
`RewrittenCarried` is the same for a change of one notification. `WatchInv` was
checked with TLC on the instances of watch_answers and watch_delivery first.
PromptAssumption gained that None is no Watch and that prompts are not states of
a question: both only keep model values apart.

EndIsNoticed, OutcomeIsDelivered and QuestionIsAnnounced are liveness and stay
with TLC.

## 8. NativeTask

### 8.1 How it corresponds to the code

One instance is the tasks of one controller on one Codex CLI thread, reached
through its app-server (`codex-native-task-service.ts` and the files around it).
Every change is load, modify, save under the record's lock, with a revision; the
app-server is observed without the lock.

| variable | code |
|---|---|
| `task` | the task record: status, send intent, native turn, receipt, renewals, pending interactions and notifications; `due` is the clock past its deadline |
| `job` | the command or monitor poll of each process, with the snapshot it has taken and whether the record is still the one it loaded (`fresh`: the revision check) |
| `wire` | `turn/start` requests the app-server has not taken yet |
| `turn`, `latest`, `home`, `shown`, `asking`, `starts`, `heard`, `exposed` | the thread, the user and the controller: environment and observers |
| `troubles` | what has left the usual course, against `MaxTroubles` |

| actions | code |
|---|---|
| Send, Reserve, CommitDispatch, Dispatch, Response, RecordResult, Settle | `send`, `start` of the client, `call` of the RPC layer, `settleAcceptance` |
| Monitor, Reconcile, ApplyReconcile, ApplyAcceptance | `runCodexNativeMonitor`, `reconcile` with `apply` and `bindSubmission` |
| Watch, ApplyWatch, Unwatch, Close | the commands of these names |
| Order, Refuse, ApplyRecover, ApplyRenew, RetryCallback, ApplyRetry | `recover`, `renew`, `retryCallback` |
| Claim, Call, Reach, Checkpoint, Return, NotReached, Fail, Lapse | `deliverPending` and `settle` of `codex-native-outbox.ts` |
| Take, Materialize, UserSends, TurnEnds, Ask, Answer, Deadline, Crash | environment |

Abstractions: the load of a record and its observation are one step (what
happens between them only makes the observation stale, which is modelled); one
acceptance poll stands for up to sixteen; the app-server's own read and the
commit before the dispatch are one step, and so are the last look at the record
and the call of the controller. A save makes the observations of others stale;
their snapshots are then forgotten, since the code never looks at them again.
`completed` stands for every way a turn may end. Input that joined a running turn is
answered with a receipt that names it: that turn was started after the thread was
last read idle, so `codex-native-client.ts:107-110` cannot tell it from one of its own.

### 8.2 Run

`native_task`: two processes, two messages, a Watch, a turn of the user and a
question; two things in all may leave the usual course (`Trouble`), a second task
being one of them. Two are enough for every pair of them: a death and a
recovery, a deadline and a renewal, a failed call and a question.

* SubmittedOnce: a message is submitted once at most, and two submissions whose
  turns are not known are never open at once, so a turn that appears can be
  attributed.
* NotSentIsTrue: a record that says "not sent" is right for ever, however late a
  request arrives.
* KeepsPromise: the outbox implements CallbackPromise, like that of the Turns.
* AnsweredStaysAnswered: a question found answered never returns, i.e. an
  observation is never applied over somebody else's later save.

No liveness is checked here: the monitors' polling is that of section 7.
Deadlock is not checked: settled tasks leave nothing to do.

Observations. A send that is proven not sent after Unwatch or the deadline keeps
its status, and a later Recover turns its intent into "uncertain"
(`codex-native-task-service.ts:154`), which holds the thread until Close. The
reservation of a dead process holds it too. A question whose callback Unwatch
withdrew is not announced again after Renew. An uncertain send without a receipt
is only found while its turn is the latest.

Not modelled: the response service, the legacy status "cancelled", threads that
are not loaded, receipts that conflict with the history, incomplete items,
eligibility of callback routes, failing disk writes, several threads, and the
Claude and Desktop services, which have the same shape.

### 8.3 Proofs

`NativeTaskProofs` proves, for all processes, messages, Watches, turns and
(finitely many) questions and every number of troubles, all that native_task
checks: `Typing`, `SubmitsOnce`, `NotSentHolds`, `AnswersStay` and `PromiseIsKept`,
the refinement of CallbackPromise. They follow from one inductive invariant,
`IInv` of `NativeTaskLemmas`:

* `TypeInv`: the records are well formed (a turn is known exactly when the status
  and the intent need one, `Orderly` notifications), and each process holds an
  observation that may still be applied to the record as it is;
* `TurnInv`: a turn that a record names has begun, and that of a message was
  started by a submission that arrived;
* `SendInv`, the heart of the sends: whoever is between the reservation and the
  result has not been contradicted by the record, only one process is there per
  message, and only one unresolved send can be engaged with the app-server;
* `WatchInv`, `RenewInv`: a Watch under creation belongs to one process, and
  renewals, which name the timeouts, are bounded by the orders given;
* `AskInv`: what a record announced was asked, what it dropped was answered, and
  an observation that is still fresh `Fits` the record;
* `OutboxInv`: a notification that may be offered is not with the controller, and
  the process that claimed it is the only one, with the attempt the record counts.

The transformations of a record (`apply`, `bindSubmission`, the deadline, `suppress`,
`recover`, `renew`) are composed of parts that each satisfy `Carries`: the box only
changes passively or grows by new keys, what is dropped was answered, the turn stays
once known. `SaveType` to `SaveOutbox` say once, part by part of `IInv`, what a save of
such a record keeps; a step lemma then only says which record it saves. The action
property and the refinement need no second case analysis: `SaveAdvances` and
`SilentAdvances` conclude `Advances`, which is `IInv'` together with `Steady` (no answered
question returns) and a step of CallbackPromise, and each action's lemma passes that
on. `IInv` was checked with TLC on the instance of native_task first.
NativeAssumption gained `IsFiniteSet(Questions)`: an observation lists what is pending.

## 9. Not modelled

Recognition of screens and transcripts, and presentation, keep no state. The
native thread transitions and the deferred foreground transfer are large and
tied to the screens of two agents; of them only the fence of section 6 and the
pane ledger of section 5 are covered. The order of several locks, the routing
journal, the service loop of the Host and the keystrokes of answers, approvals
and model controls are not covered. PROJECT.json gives the reason per component.

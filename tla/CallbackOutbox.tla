--------------------------- MODULE CallbackOutbox ---------------------------
(***************************************************************************)
(* The durable callback outbox of one managed Turn                         *)
(* (src/callback-outbox-service.ts, callback-outbox-settlement.ts,         *)
(* callback-outbox-policy.ts, durable-notification-kernel.ts and the       *)
(* callers that prepare, supersede and retry callbacks).                   *)
(*                                                                         *)
(* A callback is logged, then frozen in one of two single-slot lanes of    *)
(* the conversation state file, and only then handed to a host transport.  *)
(* Everything durable is written under the state lock; the transport, the  *)
(* retry monitor's reads and the manual retry's read happen outside it.    *)
(* Any process can die between two writes.  Operations whose order of      *)
(* durable writes matters are split at each write: a process first takes   *)
(* the lock ("append" or "save"), appends the message to the event log,    *)
(* and saves the state.                                                    *)
(***************************************************************************)
EXTENDS Naturals, FiniteSets

CONSTANTS
    Procs,          \* process slots: a terminal monitor, CLI call or retry monitor
    Questions,      \* `akk callback` during the task: question, blocked, progress
    Results,        \* `akk callback` that ends the task: done, error
    Approvals,      \* approval prompts found on the terminal screen
    Interactions,   \* blocking native questionnaires found on the screen
    AsyncQuestions, \* native questions that do not block the task
    Completions,    \* completion evidence, one message id per fingerprint
    Stalls,         \* stall reasons: the message fingerprint depends on it only
    RetryLimit,     \* the number of configured retry delays
    MaxIds,         \* bound: attempt ids (random UUIDs in the code) ever drawn
    MaxCrashes,     \* bound: process deaths
    MaxRenewals,    \* bound: Renew commands of a stalled Turn
    NoProc, NoMsg

Prompts     == Approvals \cup Interactions \cup AsyncQuestions
Blocking    == Approvals \cup Interactions
Calls       == Questions \cup Results
Ends        == Completions \cup Results
Messages    == Calls \cup Prompts \cup Completions \cup Stalls
Lanes       == {"lifecycle", "notification"}
Ids         == 1..MaxIds

ASSUME ConstantsAssumption ==
    /\ RetryLimit \in Nat \ {0}
    /\ MaxIds \in Nat /\ MaxCrashes \in Nat /\ MaxRenewals \in Nat
    /\ NoProc \notin Procs
    /\ NoMsg \notin Messages
    /\ Stalls \cap (Calls \cup Prompts \cup Completions) = {}
    /\ Completions \cap (Calls \cup Prompts) = {}
    /\ Calls \cap Prompts = {}
    /\ Results \cap Questions = {}
    /\ Approvals \cap (Interactions \cup AsyncQuestions) = {}
    /\ Interactions \cap AsyncQuestions = {}

\* Advisory messages use the notification lane, the others the lifecycle lane.
LaneOf(m) == IF m \in AsyncQuestions \cup Stalls THEN "notification" ELSE "lifecycle"

\* The prompt kinds whose stable identity is saved in the Turn before dispatch.
Kinds   == {"approval", "interaction"}
KindOf(m) == IF m \in Approvals THEN "approval" ELSE "interaction"

VARIABLES
    status,    \* status of the Turn in the state file
    marker,    \* terminal_bridge_approval / ..._interaction_notification
    claim,     \* terminal_bridge_completion_claim
    stallSent, \* stalled_notification_sent_at is set
    outbox,    \* callback_delivery and callback_notification_delivery
    log,       \* messages in the event log
    lock,      \* owner of the state file lock
    proc,      \* what each process is doing
    prompt,    \* the life of each prompt on the terminal screen
    nextId,    \* the next fresh attempt id
    received,  \* observer: <<message, attempt id>> pairs the host took in
    exposed,   \* observer: messages whose last transport is not proven undelivered
    crashes, renewals \* bound counters

turn   == <<status, marker, claim, stallSent>>
host   == <<received, exposed>>
bounds == <<crashes, renewals>>
vars   == <<turn, outbox, log, lock, proc, prompt, nextId, host, bounds>>


(* ------------------------------ data ------------------------------ *)

TurnStatus == {"waiting_for_agent", "waiting_for_openclaw", "stalled", "idle", "closed"}
Outcomes   == {"none", "accepted", "retryable_failure", "permanent_failure", "uncertain"}

Delivery ==
    [status   : {"none", "pending", "failed", "delivered", "superseded"},
     msg      : Messages \cup {NoMsg},
     attempts : 0..(RetryLimit + 1),
     id       : Ids \cup {0},
     pid      : Procs \cup {NoProc},   \* attempt_pid
     lease    : BOOLEAN,               \* attempt_lease_expires_at is in the future
     started  : BOOLEAN,               \* transport_started_at is set
     outcome  : Outcomes]              \* attempt_outcome, accepted checkpoints included

EmptyDelivery ==
    [status |-> "none", msg |-> NoMsg, attempts |-> 0, id |-> 0, pid |-> NoProc,
     lease |-> FALSE, started |-> FALSE, outcome |-> "none"]

PCs == {"free", "append", "save", "announce", "prepared", "transport", "settle",
        "sleep", "retry", "recheck", "accept"}

Process ==
    [pc : PCs, lane : Lanes, msg : Messages \cup {NoMsg},
     attempts : 0..(RetryLimit + 1), \* of the claim it prepared
     seen : 0..(RetryLimit + 1),     \* attempts a retry monitor observed
     id : Ids \cup {0},              \* of the claim it prepared
     retry : BOOLEAN,                \* retryPending
     monitor : BOOLEAN,              \* runs the retry monitor's loop
     outcome : Outcomes]             \* what the transport reported so far

Idle == [pc |-> "free", lane |-> "lifecycle", msg |-> NoMsg, attempts |-> 0, seen |-> 0,
         id |-> 0, retry |-> FALSE, monitor |-> FALSE, outcome |-> "none"]

Monitor(l) == [Idle EXCEPT !.pc = "sleep", !.lane = l, !.monitor = TRUE]

FreeProcs == {p \in Procs : proc[p] = Idle}
Alive(p)  == p \in Procs /\ proc[p] # Idle

(* --------------------------- retry policy --------------------------- *)

Unsettled(d) == d.status \in {"pending", "failed"}

AcceptedEvidence(d) == Unsettled(d) /\ d.outcome = "accepted"

\* Mutant: the attempt budget is checked one attempt too late.
BudgetOffByOne(d) ==
    /\ Unsettled(d)
    /\ d.outcome \in {"none", "retryable_failure"}
    /\ d.attempts <= RetryLimit + 1

\* Neither a recorded outcome nor the attempt budget forbids another attempt.
Undecided(d) ==
    /\ Unsettled(d)
    /\ d.outcome \in {"none", "retryable_failure"}
    /\ d.attempts <= RetryLimit

Leased(d) == d.status = "pending" /\ Alive(d.pid) /\ d.lease

\* Mutant: the transport-start marker is not looked at.
StartForgotten(d) == d.started /\ FALSE

\* A transport that may have reached the host without leaving evidence.
StartedWithoutOutcome(d) == d.started /\ d.outcome # "retryable_failure"

InFlight(d)  == Undecided(d) /\ Leased(d)
Retryable(d) == Undecided(d) /\ ~Leased(d) /\ ~StartedWithoutOutcome(d)

\* Would block a new notification of the terminal monitor.
ActiveOutbox(d) ==
    d.status = "pending" \/ (d.status = "failed" /\ d.attempts <= RetryLimit)

\* Mutant: only an attempt in progress is fenced, not a failed one awaiting retry.
PendingSuperseded(d) ==
    IF d.status = "pending" /\ d.outcome # "accepted"
    THEN [d EXCEPT !.status = "superseded", !.pid = NoProc, !.lease = FALSE]
    ELSE d

Superseded(d) ==
    IF Unsettled(d) /\ d.outcome # "accepted"
    THEN [d EXCEPT !.status = "superseded", !.pid = NoProc, !.lease = FALSE]
    ELSE d

Released == {"idle", "closed"}

Init ==
    /\ status = "waiting_for_agent"
    /\ marker = [k \in Kinds |-> NoMsg]
    /\ claim = NoMsg
    /\ stallSent = FALSE
    /\ outbox = [l \in Lanes |-> EmptyDelivery]
    /\ log = {}
    /\ lock = NoProc
    /\ proc = [p \in Procs |-> Idle]
    /\ prompt = [m \in Prompts |-> "new"]
    /\ nextId = 1
    /\ received = {} /\ exposed = {}
    /\ crashes = 0 /\ renewals = 0

Unlocked == lock = NoProc
Shown(m) == prompt[m] = "shown"

Goto(p, pc) == proc' = [proc EXCEPT ![p].pc = pc]
Exit(p)     == proc' = [proc EXCEPT ![p] = Idle]

(* --------------------------- preparation ---------------------------- *)

\* The next durable write of a preparation: a message already in the log (its
\* first preparation died before the state was saved) is not appended again.
NextWrite(m) == IF m \in log THEN "save" ELSE "append"

\* Take the lock and launch the detached watchdog; the message and the claim
\* are written by the next two steps.
StartPreparing(p, m) ==
    \E w \in FreeProcs \ {p} :
        /\ lock' = p
        /\ proc' = [proc EXCEPT
              ![p] = [Idle EXCEPT !.pc = NextWrite(m), !.lane = LaneOf(m), !.msg = m],
              ![w] = Monitor(LaneOf(m))]

\* `akk callback`: refused for a released Turn, ignored when already logged.
\* An agent stopped at a blocking prompt makes no call.
AcceptCallback(p, m) ==
    /\ p \in FreeProcs /\ Unlocked
    /\ status \notin Released
    /\ m \notin log
    /\ ~\E b \in Blocking : Shown(b)
    /\ StartPreparing(p, m)
    /\ UNCHANGED <<turn, outbox, log, prompt, nextId, host, bounds>>

\* A prompt the monitor has not recorded yet: the marker that carries the
\* message id is saved first.  Only the interaction path waits for its lane.
RecordPrompt(p, m) ==
    /\ p \in FreeProcs /\ Unlocked
    /\ status = "waiting_for_agent"
    /\ Shown(m) /\ m \notin log /\ marker[KindOf(m)] # m
    /\ KindOf(m) = "interaction" => ~ActiveOutbox(outbox[LaneOf(m)])
    /\ marker' = [marker EXCEPT ![KindOf(m)] = m]
    /\ StartPreparing(p, m)
    /\ UNCHANGED <<status, claim, stallSent, outbox, log, prompt, nextId, host, bounds>>

\* Mutant: only a prompt whose message was logged is recovered.
RecoverLogged(p, k) ==
    LET m == marker[k]  d == outbox[LaneOf(m)] IN
    /\ p \in FreeProcs /\ Unlocked
    /\ status = "waiting_for_agent"
    /\ m # NoMsg /\ m \in log /\ Shown(m) /\ d.msg # m /\ ~ActiveOutbox(d)
    /\ StartPreparing(p, m)
    /\ UNCHANGED <<turn, outbox, log, prompt, nextId, host, bounds>>

\* The recorded prompt is still on the screen but its lane never got it, or
\* lost it to another message: dispatch the same message id again.
RecoverPrompt(p, k) ==
    LET m == marker[k]  d == outbox[LaneOf(m)] IN
    /\ p \in FreeProcs /\ Unlocked
    /\ status = "waiting_for_agent"
    /\ m # NoMsg /\ Shown(m) /\ d.msg # m /\ ~ActiveOutbox(d)
    /\ StartPreparing(p, m)
    /\ UNCHANGED <<turn, outbox, log, prompt, nextId, host, bounds>>

\* Mutant: a later claim replaces the first.
ClaimReplaced(p, c) ==
    /\ p \in FreeProcs /\ Unlocked
    /\ status \notin Released
    /\ claim' = c
    /\ StartPreparing(p, c)
    /\ UNCHANGED <<status, marker, stallSent, outbox, log, prompt, nextId, host, bounds>>

\* Mutant: a claim left by a dead monitor is refused, not resumed.
ClaimOnce(p, c) ==
    /\ p \in FreeProcs /\ Unlocked
    /\ status \notin Released
    /\ claim = NoMsg
    /\ claim' = c
    /\ StartPreparing(p, c)
    /\ UNCHANGED <<status, marker, stallSent, outbox, log, prompt, nextId, host, bounds>>

\* Completion evidence: claim it for one message id, or resume the same claim.
\* Dead-agent and dispatch recovery also complete a Turn that no longer waits.
ClaimCompletion(p, c) ==
    /\ p \in FreeProcs /\ Unlocked
    /\ status \notin Released
    /\ claim \in {NoMsg, c}
    /\ claim' = c
    /\ StartPreparing(p, c)
    /\ UNCHANGED <<status, marker, stallSent, outbox, log, prompt, nextId, host, bounds>>

\* markStalled with something to tell the host.
NotifyStall(p, s) ==
    /\ p \in FreeProcs /\ Unlocked
    /\ status = "waiting_for_agent"
    /\ ~stallSent /\ ~Unsettled(outbox["notification"])
    /\ s \notin log
    /\ StartPreparing(p, s)
    /\ UNCHANGED <<turn, outbox, log, prompt, nextId, host, bounds>>

\* markStalled while an advisory is outstanding or was sent: saves the status.
StallQuietly(p) ==
    /\ p \in FreeProcs /\ Unlocked
    /\ status = "waiting_for_agent"
    /\ stallSent \/ Unsettled(outbox["notification"])
    /\ status' = "stalled"
    /\ lock' = p /\ Goto(p, "announce")
    /\ UNCHANGED <<marker, claim, stallSent, outbox, log, prompt, nextId, host, bounds>>

\* markStalled for a reason this Turn already logged: the preparation answers
\* "duplicate", and the caller saves only when there is no preparation.
StallDuplicate(p, s) ==
    /\ p \in FreeProcs /\ Unlocked
    /\ status = "waiting_for_agent"
    /\ ~stallSent /\ ~Unsettled(outbox["notification"])
    /\ s \in log
    /\ lock' = p /\ Goto(p, "announce")
    /\ UNCHANGED <<turn, outbox, log, prompt, nextId, host, bounds>>

AppendMessage(p) ==
    /\ proc[p].pc = "append"
    /\ log' = log \cup {proc[p].msg}
    /\ Goto(p, "save")
    /\ UNCHANGED <<turn, outbox, lock, prompt, nextId, host, bounds>>

\* The state file of a Turn whose message m was prepared; whether the agent waits
\* for an answer is part of its callback.
StatusAfter(m) ==
    CASE m \in Ends -> {"idle"}
      [] m \in Stalls -> {"stalled"}
      [] m \in AsyncQuestions -> {status}
      [] m \in Questions -> {status, "waiting_for_openclaw"}
      [] OTHER -> {"waiting_for_openclaw"}

\* A fresh attempt of m: a retry inherits the attempts made so far.
Attempt(m, p, previous) ==
    [EmptyDelivery EXCEPT !.status = "pending", !.msg = m, !.attempts = previous + 1,
                          !.id = nextId, !.pid = p, !.lease = TRUE]

Previous(l, m) == IF outbox[l].msg = m THEN outbox[l].attempts ELSE 0

SavePrepared(p) ==
    LET m == proc[p].msg  l == proc[p].lane
        fresh == Attempt(m, p, Previous(l, m)) IN
    /\ proc[p].pc = "save" /\ nextId <= MaxIds
    /\ status' \in StatusAfter(m)
    /\ outbox' = IF m \in Ends
                 THEN [lifecycle |-> fresh, notification |-> Superseded(outbox["notification"])]
                 ELSE [outbox EXCEPT ![l] = fresh]
    /\ proc' = [proc EXCEPT ![p].pc = IF m \in Stalls THEN "announce" ELSE "prepared",
                            ![p].attempts = fresh.attempts, ![p].id = nextId]
    /\ lock' = IF m \in Stalls THEN p ELSE NoProc
    /\ nextId' = nextId + 1
    /\ UNCHANGED <<marker, claim, stallSent, log, prompt, host, bounds>>

\* The conversation_stalled event, then the lock is released.
AnnounceStall(p) ==
    /\ proc[p].pc = "announce"
    /\ IF proc[p].id = 0 THEN Exit(p) ELSE Goto(p, "prepared")
    /\ lock' = NoProc
    /\ UNCHANGED <<turn, outbox, log, prompt, nextId, host, bounds>>

(* ---------------------------- transport ----------------------------- *)

\* Mutant: the claim is compared by message, not by attempt.
HoldsMessage(p) ==
    LET d == outbox[proc[p].lane] IN d.status = "pending" /\ d.msg = proc[p].msg

\* The lane still holds the exact attempt the process prepared.
HoldsClaim(p) ==
    LET d == outbox[proc[p].lane] IN
    /\ d.status = "pending"
    /\ d.msg = proc[p].msg /\ d.id = proc[p].id /\ d.attempts = proc[p].attempts

BeginTransport(p) ==
    LET l == proc[p].lane IN
    /\ proc[p].pc = "prepared" /\ Unlocked
    /\ HoldsClaim(p) /\ ~outbox[l].started
    /\ outbox' = [outbox EXCEPT ![l].started = TRUE]
    /\ Goto(p, "transport")
    /\ exposed' = exposed \cup {proc[p].msg}
    /\ UNCHANGED <<turn, log, lock, prompt, nextId, received, bounds>>

LoseClaim(p) ==
    /\ proc[p].pc = "prepared" /\ Unlocked
    /\ ~HoldsClaim(p) \/ outbox[proc[p].lane].started
    /\ Exit(p)
    /\ UNCHANGED <<turn, outbox, log, lock, prompt, nextId, host, bounds>>

Attempted(p) == <<proc[p].msg, proc[p].id>>

\* The host takes the message in.
Reach(p) ==
    /\ proc[p].pc = "transport" /\ Attempted(p) \notin received
    /\ received' = received \cup {Attempted(p)}
    /\ UNCHANGED <<turn, outbox, log, lock, proc, prompt, nextId, exposed, bounds>>

\* Transports checkpoint acceptance only; when the claim is gone the evidence
\* stays with the process.
Checkpoint(p) ==
    LET l == proc[p].lane IN
    /\ proc[p].pc = "transport" /\ Unlocked
    /\ Attempted(p) \in received /\ proc[p].outcome = "none"
    /\ proc' = [proc EXCEPT ![p].outcome = "accepted"]
    /\ outbox' = IF HoldsClaim(p)
                 THEN [outbox EXCEPT ![l].outcome = "accepted", ![l].lease = TRUE]
                 ELSE outbox
    /\ UNCHANGED <<turn, log, lock, prompt, nextId, host, bounds>>

\* One explicit outcome: a definite failure is reported only for a message the
\* host did not take in, and a checkpoint overrides any later failure.
Return(p) ==
    /\ proc[p].pc = "transport"
    /\ \E o \in Outcomes \ {"none"} :
          /\ o = "accepted" => Attempted(p) \in received
          /\ o \in {"retryable_failure", "permanent_failure"} => Attempted(p) \notin received
          /\ proc[p].outcome = "accepted" => o = "accepted"
          /\ proc' = [proc EXCEPT ![p].pc = "settle", ![p].outcome = o]
          /\ exposed' = IF o = "retryable_failure" THEN exposed \ {proc[p].msg} ELSE exposed
    /\ UNCHANGED <<turn, outbox, log, lock, prompt, nextId, received, bounds>>

(* ---------------------------- settlement ---------------------------- *)

Delivered(d) == [d EXCEPT !.status = "delivered", !.outcome = "accepted",
                          !.pid = NoProc, !.lease = FALSE]

\* The advisory lane also marks the stall notification as sent.
StallSentAfter(l) == stallSent \/ l = "notification"

SettleDelivered(p) ==
    LET l == proc[p].lane IN
    /\ proc[p].pc = "settle" /\ Unlocked
    /\ HoldsClaim(p) /\ proc[p].outcome = "accepted"
    /\ outbox' = [outbox EXCEPT ![l] = Delivered(@)]
    /\ stallSent' = StallSentAfter(l)
    /\ Exit(p)
    /\ UNCHANGED <<status, marker, claim, log, lock, prompt, nextId, host, bounds>>

\* A failed attempt that was no retry launches the monitor that owns the next.
RetryAuthorized(p) ==
    /\ proc[p].outcome = "retryable_failure"
    /\ ~proc[p].retry /\ proc[p].attempts <= RetryLimit

AfterFailure(p) == IF proc[p].monitor THEN [proc[p] EXCEPT !.pc = "recheck"] ELSE Idle

SettleFailed(p) ==
    LET l == proc[p].lane IN
    /\ proc[p].pc = "settle" /\ Unlocked
    /\ HoldsClaim(p) /\ proc[p].outcome # "accepted"
    /\ outbox' = [outbox EXCEPT ![l] = [@ EXCEPT !.status = "failed", !.outcome = proc[p].outcome,
                                                 !.pid = NoProc, !.lease = FALSE]]
    /\ IF RetryAuthorized(p)
       THEN \E w \in FreeProcs \cup {p} :
              proc' = [[proc EXCEPT ![p] = Idle] EXCEPT ![w] = Monitor(l)]
       ELSE proc' = [proc EXCEPT ![p] = AfterFailure(p)]
    /\ UNCHANGED <<turn, log, lock, prompt, nextId, host, bounds>>

\* The claim changed hands: the late result is only logged.
SettleSkipped(p) ==
    /\ proc[p].pc = "settle" /\ Unlocked
    /\ ~HoldsClaim(p)
    /\ proc' = [proc EXCEPT ![p] = IF proc[p].outcome = "accepted" THEN Idle
                                   ELSE AfterFailure(p)]
    /\ UNCHANGED <<turn, outbox, log, lock, prompt, nextId, host, bounds>>
(* ----------------------------- retries ------------------------------ *)

\* The retry monitor wakes and reads the state file without the lock.  It goes
\* back to sleep while the attempt is in flight.
ObserveAccepted(p) ==
    LET d == outbox[proc[p].lane] IN
    /\ proc[p].pc = "sleep" /\ AcceptedEvidence(d)
    /\ proc' = [proc EXCEPT ![p].pc = "accept", ![p].msg = d.msg]
    /\ UNCHANGED <<turn, outbox, log, lock, prompt, nextId, host, bounds>>

ObserveRetryable(p) ==
    LET d == outbox[proc[p].lane] IN
    /\ proc[p].pc = "sleep" /\ Retryable(d)
    /\ proc' = [proc EXCEPT ![p] = [Monitor(proc[p].lane) EXCEPT
                    !.pc = "retry", !.msg = d.msg, !.seen = d.attempts]]
    /\ UNCHANGED <<turn, outbox, log, lock, prompt, nextId, host, bounds>>

ObserveNothing(p) ==
    LET d == outbox[proc[p].lane] IN
    /\ proc[p].pc = "sleep"
    /\ ~AcceptedEvidence(d) /\ ~InFlight(d) /\ ~Retryable(d)
    /\ Exit(p)
    /\ UNCHANGED <<turn, outbox, log, lock, prompt, nextId, host, bounds>>

\* The retried message, read earlier, is prepared again under the lock: the
\* disposition is decided anew, and a lane that holds another message makes it
\* a logged duplicate.
PrepareRetry(p) ==
    LET l == proc[p].lane  d == outbox[l]  m == proc[p].msg IN
    /\ proc[p].pc = "retry" /\ Unlocked
    /\ d.msg = m /\ Retryable(d) /\ nextId <= MaxIds
    /\ outbox' = [outbox EXCEPT ![l] = Attempt(m, p, d.attempts)]
    /\ proc' = [proc EXCEPT ![p].pc = "prepared", ![p].retry = TRUE, ![p].outcome = "none",
                            ![p].attempts = d.attempts + 1, ![p].id = nextId]
    /\ nextId' = nextId + 1
    /\ UNCHANGED <<turn, log, lock, prompt, host, bounds>>

RejectRetry(p) ==
    LET d == outbox[proc[p].lane] IN
    /\ proc[p].pc = "retry" /\ Unlocked
    /\ d.msg # proc[p].msg \/ ~Retryable(d)
    /\ proc' = [proc EXCEPT ![p] = IF d.msg = proc[p].msg THEN AfterFailure(p) ELSE Idle]
    /\ UNCHANGED <<turn, outbox, log, lock, prompt, nextId, host, bounds>>

\* After a failed attempt the monitor goes on only while the budget advances.
Recheck(p) ==
    LET d == outbox[proc[p].lane] IN
    /\ proc[p].pc = "recheck"
    /\ proc' = [proc EXCEPT ![p] =
          IF AcceptedEvidence(d)
          THEN [Monitor(proc[p].lane) EXCEPT !.pc = "accept", !.msg = d.msg]
          ELSE IF Retryable(d) /\ d.attempts > proc[p].seen
          THEN Monitor(proc[p].lane)
          ELSE Idle]
    /\ UNCHANGED <<turn, outbox, log, lock, prompt, nextId, host, bounds>>

\* Accepted evidence left by an attempt whose process died is settled.
AcceptWhileLocked(l) ==
    /\ outbox' = [outbox EXCEPT ![l] = Delivered(@)]
    /\ stallSent' = StallSentAfter(l)

SettleAccepted(p) ==
    LET l == proc[p].lane  d == outbox[l] IN
    /\ proc[p].pc = "accept" /\ Unlocked
    /\ IF d.status = "pending" /\ d.outcome = "accepted" /\ d.msg = proc[p].msg
       THEN AcceptWhileLocked(l)
       ELSE UNCHANGED <<outbox, stallSent>>
    /\ Exit(p)
    /\ UNCHANGED <<status, marker, claim, log, lock, prompt, nextId, host, bounds>>

\* `akk retry-callback`: the disposition is read without the lock.
ManualRetry(p, l) ==
    LET d == outbox[l] IN
    /\ p \in FreeProcs
    /\ AcceptedEvidence(d) \/ Retryable(d)
    /\ proc' = [proc EXCEPT ![p] = [Idle EXCEPT
                    !.pc = IF AcceptedEvidence(d) THEN "accept" ELSE "retry",
                    !.lane = l, !.msg = d.msg]]
    /\ UNCHANGED <<turn, outbox, log, lock, prompt, nextId, host, bounds>>

\* Host startup: settle accepted evidence, give retryable work a new monitor.
ReconcileAccepted(l) ==
    /\ Unlocked /\ AcceptedEvidence(outbox[l]) /\ outbox[l].status = "pending"
    /\ AcceptWhileLocked(l)
    /\ UNCHANGED <<status, marker, claim, log, lock, proc, prompt, nextId, host, bounds>>

ReconcileRetryable(l) ==
    /\ Unlocked /\ Retryable(outbox[l])
    /\ \E w \in FreeProcs : proc' = [proc EXCEPT ![w] = Monitor(l)]
    /\ UNCHANGED <<turn, outbox, log, lock, prompt, nextId, host, bounds>>

(* ------------------- the Turn moves on; the world ------------------- *)

\* The agent shows a prompt, one blocking prompt at a time; a prompt leaves the
\* screen when it is answered in the terminal.
Show(m) ==
    /\ prompt[m] = "new"
    /\ m \in Blocking => ~\E b \in Blocking : Shown(b)
    /\ prompt' = [prompt EXCEPT ![m] = "shown"]
    /\ UNCHANGED <<turn, outbox, log, lock, proc, nextId, host, bounds>>

Vanish(m) ==
    /\ Shown(m)
    /\ prompt' = [prompt EXCEPT ![m] = "gone"]
    /\ UNCHANGED <<turn, outbox, log, lock, proc, nextId, host, bounds>>

\* An approval the user decided: the marker goes, the callback stays.
ResolveApproval ==
    /\ Unlocked /\ marker["approval"] # NoMsg /\ Shown(marker["approval"])
    /\ status \in {"waiting_for_agent", "waiting_for_openclaw"}
    /\ marker' = [marker EXCEPT !["approval"] = NoMsg]
    /\ prompt' = [prompt EXCEPT ![marker["approval"]] = "answered"]
    /\ status' = "waiting_for_agent"
    /\ UNCHANGED <<claim, stallSent, outbox, log, lock, proc, nextId, host, bounds>>

\* An answered interaction, or an asynchronous question gone from the screen,
\* takes its unaccepted callback with it.
ResolveInteraction ==
    LET m == marker["interaction"]  l == LaneOf(m) IN
    /\ Unlocked /\ m # NoMsg
    /\ Shown(m) \/ m \in AsyncQuestions
    /\ status \in {"waiting_for_agent", "waiting_for_openclaw"}
    /\ outbox' = IF outbox[l].msg = m THEN [outbox EXCEPT ![l] = Superseded(@)] ELSE outbox
    /\ marker' = [marker EXCEPT !["interaction"] = NoMsg]
    /\ prompt' = [prompt EXCEPT ![m] = "answered"]
    /\ status' = "waiting_for_agent"
    /\ UNCHANGED <<claim, stallSent, log, lock, proc, nextId, received, exposed, bounds>>

\* Renew resumes a stalled Turn and forgets the advisory of the old stall.
Renew ==
    /\ Unlocked /\ status = "stalled" /\ renewals < MaxRenewals
    /\ outbox' = [outbox EXCEPT !["notification"] = Superseded(@)]
    /\ status' = "waiting_for_agent"
    /\ stallSent' = FALSE
    /\ renewals' = renewals + 1
    /\ UNCHANGED <<marker, claim, log, lock, proc, prompt, nextId, host, crashes>>

\* Close fences both lanes.
Close ==
    /\ Unlocked /\ status # "closed"
    /\ outbox' = [l \in Lanes |-> Superseded(outbox[l])]
    /\ status' = "closed"
    /\ UNCHANGED <<marker, claim, stallSent, log, lock, proc, prompt, nextId, host, bounds>>

\* Attempts may outlive their lease.
LeaseExpires(l) ==
    /\ outbox[l].lease
    /\ outbox' = [outbox EXCEPT ![l].lease = FALSE]
    /\ UNCHANGED <<turn, log, lock, proc, prompt, nextId, host, bounds>>

\* A process dies; its lock is taken over by the next one that wants it.
Crash(p) ==
    /\ proc[p] # Idle /\ crashes < MaxCrashes
    /\ Exit(p)
    /\ lock' = IF lock = p THEN NoProc ELSE lock
    /\ crashes' = crashes + 1
    /\ UNCHANGED <<turn, outbox, log, prompt, nextId, host, renewals>>

(* -------------------------- specification --------------------------- *)

Prepare(p) ==
    \/ \E m \in Calls : AcceptCallback(p, m)
    \/ \E m \in Prompts : RecordPrompt(p, m)
    \/ \E k \in Kinds : RecoverPrompt(p, k)
    \/ \E c \in Completions : ClaimCompletion(p, c)
    \/ \E s \in Stalls : NotifyStall(p, s) \/ StallDuplicate(p, s)
    \/ StallQuietly(p)

\* The steps a running process takes by itself.
Step(p) ==
    \/ AppendMessage(p) \/ SavePrepared(p) \/ AnnounceStall(p)
    \/ BeginTransport(p) \/ LoseClaim(p)
    \/ Return(p)
    \/ SettleDelivered(p) \/ SettleFailed(p) \/ SettleSkipped(p)
    \/ ObserveAccepted(p) \/ ObserveRetryable(p) \/ ObserveNothing(p)
    \/ PrepareRetry(p) \/ RejectRetry(p) \/ Recheck(p) \/ SettleAccepted(p)

Environment ==
    \/ \E m \in Prompts : Show(m) \/ Vanish(m)
    \/ ResolveApproval \/ ResolveInteraction \/ Renew \/ Close

Next ==
    \/ \E p \in Procs : \/ Prepare(p) \/ Step(p) \/ Reach(p) \/ Checkpoint(p) \/ Crash(p)
                         \/ \E l \in Lanes : ManualRetry(p, l)
    \/ \E l \in Lanes : ReconcileAccepted(l) \/ ReconcileRetryable(l) \/ LeaseExpires(l)
    \/ Environment

Spec == Init /\ [][Next]_vars

\* A process that does not die takes its next step, and leases run out.
RunningProcesses ==
    /\ \A p \in Procs : WF_vars(Step(p))
    /\ \A l \in Lanes : WF_vars(LeaseExpires(l))

\* The Host replaces a dead monitor of a waiting Turn; a monitor polls the same
\* screen and the same completion evidence again until it is dealt with.
MonitorPolls ==
    /\ WF_vars(\E p \in Procs : \E k \in Kinds : RecoverPrompt(p, k))
    /\ WF_vars(\E p \in Procs : \E m \in Prompts : RecordPrompt(p, m))
    /\ WF_vars(\E p \in Procs : /\ status = "waiting_for_agent" /\ claim # NoMsg
                                \* the same evidence gives the same message
                                /\ ClaimCompletion(p, claim))

\* Two delays the code sets apart by minutes: a watchdog sleeps for a retry delay
\* (5 s or more) and does not wake up while its preparation is still writing;
\* transports are killed after 30 s, the lease of an attempt lasts 120 s.  And a
\* pid is not given out again while the attempt it stands for is pending.
Timely ==
    /\ \A p \in Procs : ObserveNothing(p) => Unlocked
    /\ \A l \in Lanes : LeaseExpires(l) => ~\E p \in Procs : proc[p].id = outbox[l].id
    /\ \A l \in Lanes : LET p == outbox[l].pid IN
          p \in FreeProcs /\ outbox[l].status = "pending" => proc'[p] = Idle

RetrySpec == Init /\ [][Next /\ Timely]_vars /\ RunningProcesses
FairSpec  == Spec /\ RunningProcesses /\ MonitorPolls

(* ---------------------------- properties ---------------------------- *)

\* Every variable stays within its type.
TypeOK ==
    /\ status \in TurnStatus
    /\ marker \in [Kinds -> Prompts \cup {NoMsg}]
    /\ claim \in Completions \cup {NoMsg}
    /\ stallSent \in BOOLEAN
    /\ outbox \in [Lanes -> Delivery]
    /\ log \subseteq Messages
    /\ lock \in Procs \cup {NoProc}
    /\ proc \in [Procs -> Process]
    /\ prompt \in [Prompts -> {"new", "shown", "answered", "gone"}]
    /\ nextId \in 1..(MaxIds + 1)
    /\ received \subseteq Messages \X Ids
    /\ exposed \subseteq Messages
    /\ crashes \in 0..MaxCrashes /\ renewals \in 0..MaxRenewals

\* The lane never records as delivered what the host did not take in, and never
\* keeps open for retry what some transport may have delivered.
EvidenceIsTrue ==
    \A l \in Lanes : LET d == outbox[l] IN
        /\ d.status = "delivered" => <<d.msg, d.id>> \in received
        /\ Retryable(d) => d.msg \notin exposed \ AsyncQuestions

\* One completion the monitors detect reaches the log, and it is the claimed one,
\* although they find different evidence and may die after their claim.  It says
\* nothing of a result the agent reports itself, which needs no claim.
OneCompletion ==
    /\ log \cap Completions \subseteq {claim}
    /\ outbox["lifecycle"].msg \in Completions => outbox["lifecycle"].msg = claim

\* Once the Turn is closed nothing more is logged or handed to a transport.
\* Once it completed, only what ended it is.
ReleasedTurnIsQuiet ==
    [][/\ status = "closed" => status' = "closed" /\ log' = log /\ exposed' \subseteq exposed
       /\ status = "idle" => log' = log /\ exposed' \ exposed \subseteq Ends]_vars

\* After an interaction is answered its callback is not handed to a transport,
\* although a retry monitor may have read it as retryable just before.
AnsweredInteractionIsFenced ==
    [][\A p \in Procs : BeginTransport(p) => LET m == proc[p].msg IN
         ~(m \in Prompts \ Approvals /\ prompt[m] = "answered")]_vars

\* After a failed attempt the bounded automatic retry follows
\* (callback-outbox-service.ts:1676): work that may be retried always has a process
\* (the attempt's own, its watchdog or a newly launched monitor) that retries it or
\* finds it settled, without a Host restart.
RetryIsOwned ==
    \A l \in Lanes : Retryable(outbox[l]) ~> ~Retryable(outbox[l])

\* A claimed completion never leaves its Turn waiting for the agent: when the
\* monitor dies between its durable writes, the next one resumes the same claim
\* (docs/openclaw-session-turn-delivery-requirement.md:24-27).
ClaimIsResumed == claim # NoMsg ~> status # "waiting_for_agent"

\* A prompt saved in the Turn reaches its lane although the monitor dies before
\* it is logged, unless the prompt is answered, the Turn moves on, or the lane
\* is kept by a live or retryable callback.
RecordedPromptIsOffered ==
    \A m \in Prompts : LET k == KindOf(m) l == LaneOf(m) IN
        marker[k] = m ~> \/ outbox[l].msg = m \/ marker[k] # m \/ ~Shown(m)
                         \/ status # "waiting_for_agent" \/ ActiveOutbox(outbox[l])

\* The outbox implements the promise of CallbackPromise.
Taken == [m \in Messages |-> Cardinality({x \in received : x[1] = m})]
Known == {outbox[l].msg : l \in {k \in Lanes : outbox[k].status = "delivered"}}
Promise == INSTANCE CallbackPromise WITH offered <- log, taken <- Taken, known <- Known
KeepsPromise == Promise!Spec
=============================================================================

----------------------------- MODULE NativeTask -----------------------------
(***************************************************************************)
(* Tasks of a Codex CLI thread that is controlled through its app-server:  *)
(* managed sends, standalone Watches and their notifications.              *)
(*                                                                         *)
(* A record is loaded and saved under its lock, the app-server is observed *)
(* without it.  What was observed is applied only to the revision it was   *)
(* loaded with, and every save makes a new revision.  The submission of a  *)
(* task and the call to the controller are made between two saves, and the *)
(* process may die anywhere: a submission or a notification whose outcome  *)
(* is unknown is never repeated.                                           *)
(*                                                                         *)
(* One controller, one thread, one Store; a message identifies its task.   *)
(***************************************************************************)
EXTENDS Naturals, Sequences, SequencesExt, FiniteSets

CONSTANTS
  Procs,        \* commands and monitors that run at the same time
  Messages,     \* tasks the controller sends
  Watches,      \* tasks it only watches
  UserTurns,    \* turns the user starts in the terminal
  Questions,    \* questions and approvals, each of which is asked once
  None,
  MaxAttempts,  \* automatic attempts of a notification
  MaxTroubles   \* orders, questions, turns of the user, deadlines, deaths,
                \* failed calls and leases that run out early, together

Ids == Messages \cup Watches

\* The turn a message starts is named after it.
Turns == Messages \cup UserTurns

ASSUME NativeAssumption ==
  /\ Messages \cap Watches = {}
  /\ UserTurns \cap Messages = {} /\ None \notin Ids \cup Turns \cup Questions
  /\ IsFiniteSet(Questions)
  /\ MaxAttempts \in Nat \ {0}
  /\ MaxTroubles \in Nat

VARIABLES
  task,     \* the stored record of each task
  job,      \* the command each process executes
  turn,     \* the state of each native turn
  latest,   \* the turn that was started last
  home,     \* the turn that took each message
  shown,    \* messages the history shows
  wire,     \* submissions the app-server has not taken yet
  starts,   \* how often the app-server took each message
  asking,   \* what the running turn has asked for
  heard,    \* how often the controller took each notification
  exposed,  \* notifications that may be with the controller
  troubles

native == <<turn, latest, home, shown, wire, starts, asking>>

vars == <<task, job, turn, latest, home, shown, wire, starts, asking, heard,
          exposed, troubles>>

Keys == [kind : {"settled"}] \cup [kind : {"timed_out"}, gen : 0 .. MaxTroubles]
          \cup [kind : {"interaction"}, ask : Questions]

Notices == Ids \X Keys

Absent == [status |-> "none"]

Idle == [pc |-> "idle"]

Init ==
  /\ task = [t \in Ids |-> Absent]
  /\ job = [p \in Procs |-> Idle]
  /\ turn = [u \in Turns |-> "none"]
  /\ latest = None
  /\ home = [m \in Messages |-> None]
  /\ shown = {}
  /\ wire = {}
  /\ starts = [m \in Messages |-> 0]
  /\ asking = [q \in Questions |-> "unasked"]
  /\ heard = [n \in Notices |-> 0]
  /\ exposed = {}
  /\ troubles = 0

\* Anything that is not the usual course counts against the bound.
Trouble == troubles < MaxTroubles /\ troubles' = troubles + 1

Usual(course) == IF course THEN troubles' = troubles ELSE Trouble

-----------------------------------------------------------------------------
(* The record of a task *)

Stored(t) == task[t] # Absent

Stopped(x) == x.closed \/ x.unwatched

Settled(x) == x.status \in {"completed", "failed"}

Live(x) == ~Stopped(x) /\ x.status \in {"awaiting_acceptance", "watching"}

\* Mutant: a send that has been dispatched no longer holds the thread.
OnlyReserved(x) ==
  ~x.closed /\ x.turn = None /\ x.intent = "reserved"

\* A send whose outcome is open holds the thread until it is closed.
UnresolvedSend(x) ==
  ~x.closed /\ x.turn = None /\ x.intent \in {"reserved", "uncertain"}

Note(key) ==
  [key |-> key, status |-> "ready", attempts |-> 0, granted |-> 0,
   outcome |-> "none", lapsed |-> FALSE]

Record(status, intent, u) ==
  [status |-> status, intent |-> intent, turn |-> u, receipt |-> FALSE,
   closed |-> FALSE, unwatched |-> FALSE, due |-> FALSE, renewals |-> 0,
   pending |-> {}, box |-> <<>>]

Has(x, key) == \E i \in DOMAIN x.box : x.box[i].key = key

\* Mutant: every observation announces what it finds.
NotifyAgain(x, keys) ==
  LET new == SetToSeq(keys)
  IN IF Stopped(x) THEN x
     ELSE [x EXCEPT !.box = @ \o [i \in DOMAIN new |-> Note(new[i])]]

\* Notifications are recorded once each, and only while somebody watches.
Notify(x, keys) ==
  LET new == SetToSeq({k \in keys : ~Has(x, k)})
  IN IF Stopped(x) THEN x
     ELSE [x EXCEPT !.box = @ \o [i \in DOMAIN new |-> Note(new[i])]]

Withdraw(n) == [n EXCEPT !.status = "failed", !.outcome = "permanent"]

EachNote(x, Change(_)) == [x EXCEPT !.box = [i \in DOMAIN @ |-> Change(@[i])]]

\* What has not been dispatched, or is known not to have arrived, is withdrawn.
Withdrawable(n) ==
  n.status \in {"ready", "retry_wait", "failed"} /\ n.outcome # "permanent"

Suppress(x) ==
  LET Change(n) == IF Withdrawable(n) THEN Withdraw(n) ELSE n
  IN EachNote(x, Change)

SuppressTimeouts(x) ==
  LET Change(n) == IF Withdrawable(n) /\ n.key.kind = "timed_out"
                   THEN Withdraw(n)
                   ELSE n
  IN EachNote(x, Change)

Timeout(x) == [kind |-> "timed_out", gen |-> x.renewals]

\* The deadline ends the observation, not the task.
Expire(x) ==
  IF Live(x) /\ x.due
  THEN [Notify(x, {Timeout(x)}) EXCEPT !.status = "timed_out"]
  ELSE x

\* A notification about a state that is no longer the current one.
Stale(x, n) ==
  CASE n.key.kind = "timed_out" -> x.status # "timed_out" \/ n.key # Timeout(x)
    [] n.key.kind = "interaction" -> n.key.ask \notin x.pending
    [] OTHER -> FALSE

Unavailable == [bind |-> None, state |-> "error", pending |-> {}]

\* Mutant: an observation is applied whatever has been saved since.
SaveOver(p, t, x, after) ==
  /\ task' = [task EXCEPT ![t] = x]
  /\ job' = [job EXCEPT ![p] = after]

\* Process p saves x as t: what others have observed of t is of an old revision.
SaveBy(p, t, x, after) ==
  /\ task' = [task EXCEPT ![t] = x]
  /\ job' = [r \in Procs |->
               CASE r = p -> after
                 [] r # p /\ job[r].pc = "observed" /\ job[r].id = t ->
                      [job[r] EXCEPT !.fresh = FALSE, !.snap = Unavailable]
                 [] OTHER -> job[r]]

Goto(p, after) == task' = task /\ job' = [job EXCEPT ![p] = after]

-----------------------------------------------------------------------------
(* Observation *)

Running == {u \in Turns : turn[u] = "running"}

Pending == {q \in Questions : asking[q] = "open"}

CanSend == Running = {} /\ Pending = {}

\* The exact turn is read when the receipt names it, else the latest one.
Submission(t) ==
  IF t \in shown /\ (task[t].receipt \/ home[t] = latest) THEN home[t] ELSE None

\* A snapshot of the thread as it concerns task t, bound to turn u if any.
Snapshot(t, u) ==
  LET own == IF u = None /\ t \in Messages THEN Submission(t) ELSE u
  IN [bind |-> own,
      state |-> IF own = None THEN "absent" ELSE turn[own],
      pending |-> IF own \in Running THEN Pending ELSE {}]

\* A submission counts as accepted when the history shows it; as long as it
\* does not, a send that was dispatched is uncertain.
BindSubmission(x, s) ==
  CASE x.intent = "none" \/ x.turn # None -> x
    [] x.intent # "none" /\ x.turn = None /\ s.bind # None ->
         [x EXCEPT !.turn = s.bind, !.intent = "accepted", !.status = "watching"]
    [] x.intent # "none" /\ x.turn = None /\ s.bind = None ->
         [x EXCEPT !.intent = IF @ = "reserved" THEN @ ELSE "uncertain"]

Answered(x, s) ==
  LET Change(n) ==
        IF n.key.kind = "interaction" /\ n.key.ask \notin s.pending
             /\ n.status \in {"ready", "retry_wait"}
        THEN Withdraw(n)
        ELSE n
  IN [EachNote(x, Change) EXCEPT !.pending = s.pending]

Asked(q) == [kind |-> "interaction", ask |-> q]

Announce(x, s) == Notify(Answered(x, s), {Asked(q) : q \in s.pending})

\* What a snapshot says of the turn the record is bound to.
Follow(x, s) ==
  CASE x.turn = None \/ s.state = "absent" -> x
    [] x.turn # None /\ s.state = "running" -> Announce(x, s)
    [] x.turn # None /\ s.state = "ended" ->
         Notify([Announce(x, s) EXCEPT !.status = "completed"],
                {[kind |-> "settled"]})

Apply(x, s, refresh) ==
  IF s = Unavailable \/ x.closed \/ Settled(x) \/ ~(refresh \/ Live(x))
  THEN x
  ELSE Follow(BindSubmission(x, s), s)

\* A task that was only observed again keeps its timeout.
KeepTimeout(x, before) ==
  IF before.status = "timed_out" /\ x.status = "watching"
  THEN [x EXCEPT !.status = "timed_out"]
  ELSE x

-----------------------------------------------------------------------------
(* Send *)

At(p, pc) == job[p].pc = pc

First(m) == \A n \in Messages \ {m} :
  ~Stored(n) /\ \A p \in Procs : ~At(p, "idle") => job[p].id # n

\* The preflight reads the thread before anything is stored.
Send(p, m) ==
  /\ At(p, "idle") /\ ~Stored(m)
  /\ \E idle \in {CanSend, FALSE} :
       /\ Goto(p, [pc |-> "preflight", id |-> m, idle |-> idle])
       /\ Usual(idle = CanSend /\ First(m))
  /\ UNCHANGED <<native, heard, exposed>>

\* Under the lock a message is reserved once, and no other send of the thread
\* may be open.
Reserve(p) ==
  /\ At(p, "preflight")
  /\ LET m == job[p].id
         held == \E t \in Ids : Stored(t) /\ UnresolvedSend(task[t])
     IN CASE Stored(m) \/ (job[p].idle /\ held) -> Goto(p, Idle)
          [] ~Stored(m) /\ ~job[p].idle ->
               SaveBy(p, m, Record("failed", "not_sent", None), Idle)
          [] ~Stored(m) /\ job[p].idle /\ ~held ->
               SaveBy(p, m, Record("awaiting_acceptance", "reserved", None),
                      [pc |-> "start", id |-> m])
  /\ UNCHANGED <<native, heard, exposed, troubles>>

Result(m, outcome) == [pc |-> "result", id |-> m, outcome |-> outcome]

Dispatchable(x) ==
  ~Stopped(x) /\ x.status = "awaiting_acceptance" /\ x.intent = "reserved"

\* The thread is read again, and the send is uncertain before it is dispatched.
CommitDispatch(p) ==
  /\ At(p, "start")
  /\ LET m == job[p].id
         ready == CanSend /\ Dispatchable(task[m])
     IN \/ /\ ready /\ Usual(TRUE)
           /\ SaveBy(p, m, [task[m] EXCEPT !.intent = "uncertain"],
                     [pc |-> "dispatch", id |-> m])
        \/ Goto(p, Result(m, "not_sent")) /\ Usual(~ready)
  /\ UNCHANGED <<native, heard, exposed>>

\* A closed connection refuses the request; a failing write may lose it.
Dispatch(p) ==
  /\ At(p, "dispatch")
  /\ LET m == job[p].id
     IN \/ /\ wire' = wire \cup {m} /\ Usual(TRUE)
           /\ Goto(p, [pc |-> "wait", id |-> m])
        \/ /\ wire' = wire /\ Trouble
           /\ \E o \in {"not_sent", "unknown"} : Goto(p, Result(m, o))
  /\ UNCHANGED <<turn, latest, home, shown, starts, asking, heard, exposed>>

\* The answer names the turn that took the input.  A running one was started
\* after the thread was last read idle, so the client cannot tell it from a turn of
\* its own.  Or the app-server rejects the request; or no answer comes in time.
Response(p) ==
  /\ At(p, "wait")
  /\ LET m == job[p].id
     IN \/ /\ home[m] # None /\ wire' = wire /\ Usual(TRUE)
           /\ Goto(p, Result(m, "receipt"))
        \/ /\ m \in wire /\ wire' = wire \ {m} /\ Trouble
           /\ Goto(p, Result(m, "not_sent"))
        \/ /\ wire' = wire /\ Usual(home[m] = None)
           /\ Goto(p, Result(m, "unknown"))
  /\ UNCHANGED <<turn, latest, home, shown, starts, asking, heard, exposed>>

\* Mutant: any failed request counts as not sent.
FailureIsNotSent(x, outcome) ==
  CASE outcome = "receipt" ->
         [x EXCEPT !.receipt = TRUE,
                   !.intent = IF x.turn # None THEN "accepted" ELSE "uncertain"]
    [] outcome # "receipt" /\ x.turn # None -> x
    [] outcome # "receipt" /\ x.turn = None -> [x EXCEPT !.intent = "not_sent"]

Submitted(x, outcome) ==
  CASE outcome = "receipt" ->
         [x EXCEPT !.receipt = TRUE,
                   !.intent = IF x.turn # None THEN "accepted" ELSE "uncertain"]
    [] outcome # "receipt" /\ x.turn # None -> x
    [] outcome = "unknown" /\ x.turn = None -> [x EXCEPT !.intent = "uncertain"]
    [] outcome = "not_sent" /\ x.turn = None ->
         LET y == [x EXCEPT !.intent = "not_sent"]
         IN IF Live(x)
            THEN Notify([y EXCEPT !.status = "failed"], {[kind |-> "settled"]})
            ELSE y

RecordResult(p) ==
  /\ At(p, "result")
  /\ LET m == job[p].id
     IN SaveBy(p, m, Submitted(task[m], job[p].outcome),
               [pc |-> "settle", id |-> m])
  /\ UNCHANGED <<native, heard, exposed, troubles>>

-----------------------------------------------------------------------------
(* Commands and monitors *)

Observed(t, why, s) ==
  [pc |-> "observed", id |-> t, why |-> why, snap |-> s, fresh |-> TRUE,
   only |-> None]

\* A notification is delivered next, the given one or the first that is due.
Deliver(t, only) == [pc |-> "deliver", id |-> t, only |-> only]

Look(p, t, why) ==
  \E s \in {Snapshot(t, task[t].turn), Unavailable} :
    Goto(p, Observed(t, why, s)) /\ Usual(s # Unavailable)

\* A send that timed out unobserved is looked for again.
Recoverable(x) == ~Stopped(x) /\ x.status = "timed_out" /\ UnresolvedSend(x)

\* The record and the thread are read; only an observation waits for a reply.
Begin(p, t) ==
  IF Live(task[t]) \/ Recoverable(task[t])
  THEN Look(p, t, "reconcile")
  ELSE Goto(p, Deliver(t, None)) /\ Usual(TRUE)

\* A send with a receipt looks for its turn for a while, then reconciles.
Settle(p) ==
  /\ At(p, "settle")
  /\ LET t == job[p].id
         x == task[t]
         looks == /\ ~Stopped(x) /\ x.status = "awaiting_acceptance"
                  /\ x.turn = None /\ x.receipt /\ ~x.due
     IN IF looks
        THEN Look(p, t, "acceptance")
        ELSE Begin(p, t)
  /\ UNCHANGED <<native, heard, exposed>>

Reconcile(p) ==
  /\ At(p, "reconcile") /\ Begin(p, job[p].id)
  /\ UNCHANGED <<native, heard, exposed>>

NeedsReconciliation(x) ==
  LET Some(statuses) == \E i \in DOMAIN x.box : x.box[i].status \in statuses
  IN \/ Some({"leased"})
     \/ ~Stopped(x) /\ (Live(x) \/ Some({"ready", "retry_wait"}))

\* A monitor's poll, or the Host's.
Monitor(p, t) ==
  /\ At(p, "idle") /\ Stored(t) /\ NeedsReconciliation(task[t])
  /\ Begin(p, t)
  /\ UNCHANGED <<native, heard, exposed>>

Reconciled(x, s) ==
  Expire(IF Recoverable(x) /\ s # Unavailable
         THEN Apply([x EXCEPT !.status = "awaiting_acceptance"], s, FALSE)
         ELSE Apply(x, s, FALSE))

ApplyReconcile(p) ==
  /\ At(p, "observed") /\ job[p].why = "reconcile"
  /\ LET t == job[p].id
     IN SaveBy(p, t, IF job[p].fresh THEN Reconciled(task[t], job[p].snap) ELSE task[t],
               Deliver(t, None))
  /\ UNCHANGED <<native, heard, exposed, troubles>>

ApplyAcceptance(p) ==
  /\ At(p, "observed") /\ job[p].why = "acceptance"
  /\ LET t == job[p].id
     IN SaveBy(p, t, IF job[p].fresh THEN Apply(task[t], job[p].snap, FALSE) ELSE task[t],
               [pc |-> "reconcile", id |-> t])
  /\ UNCHANGED <<native, heard, exposed, troubles>>

-----------------------------------------------------------------------------
(* Orders of the controller *)

\* The running turn that was started last is watched.
Watch(p, w) ==
  /\ At(p, "idle") /\ ~Stored(w) /\ latest \in Running
  /\ \A r \in Procs : ~At(r, "idle") => job[r].id # w
  /\ Goto(p, Observed(w, "watch", Snapshot(w, latest)))
  /\ Trouble
  /\ UNCHANGED <<native, heard, exposed>>

ApplyWatch(p) ==
  /\ At(p, "observed") /\ job[p].why = "watch"
  /\ LET w == job[p].id
         s == job[p].snap
     IN SaveBy(p, w, Apply(Record("watching", "none", s.bind), s, FALSE),
               Deliver(w, None))
  /\ UNCHANGED <<native, heard, exposed, troubles>>

Unwatch(p, t) ==
  /\ At(p, "idle") /\ Stored(t) /\ ~task[t].closed
  /\ SaveBy(p, t, Suppress([task[t] EXCEPT !.unwatched = TRUE]), Idle)
  /\ Trouble
  /\ UNCHANGED <<native, heard, exposed>>

Close(p, m) ==
  /\ At(p, "idle") /\ m \in Messages /\ Stored(m) /\ ~task[m].closed
  /\ SaveBy(p, m, Suppress([task[m] EXCEPT !.closed = TRUE]), Idle)
  /\ Trouble
  /\ UNCHANGED <<native, heard, exposed>>

\* Recover and Renew read the thread first; they fail if it cannot be read.
Order(p, t, why) ==
  /\ At(p, "idle") /\ Stored(t) /\ ~task[t].closed /\ why \in {"recover", "renew"}
  /\ Goto(p, Observed(t, why, Snapshot(t, task[t].turn)))
  /\ Trouble
  /\ UNCHANGED <<native, heard, exposed>>

Changed(p) == ~job[p].fresh \/ task[job[p].id].closed

Refuse(p, why) ==
  /\ At(p, "observed") /\ job[p].why = why /\ Changed(p)
  /\ Goto(p, Idle)
  /\ UNCHANGED <<native, heard, exposed, troubles>>

Unless(x, t) == IF Stopped(x) THEN Idle ELSE Deliver(t, None)

ApplyRecover(p) ==
  /\ At(p, "observed") /\ job[p].why = "recover" /\ ~Changed(p)
  /\ LET t == job[p].id
         x == Expire(KeepTimeout(Apply(task[t], job[p].snap, TRUE), task[t]))
         y == IF Settled(x) THEN SuppressTimeouts(x) ELSE x
     IN SaveBy(p, t, y, Unless(y, t))
  /\ UNCHANGED <<native, heard, exposed, troubles>>

Resumed(x) ==
  SuppressTimeouts([x EXCEPT !.renewals = @ + 1, !.due = FALSE,
                             !.unwatched = FALSE, !.status = "watching"])

\* Only a task whose turn still runs is observed again.
ApplyRenew(p) ==
  /\ At(p, "observed") /\ job[p].why = "renew" /\ ~Changed(p)
  /\ LET t == job[p].id
         s == job[p].snap
         x == Apply(task[t], s, TRUE)
     IN CASE Settled(x) -> LET y == SuppressTimeouts(x) IN SaveBy(p, t, y, Unless(y, t))
          [] ~Settled(x) /\ x.turn = None ->
               SaveBy(p, t, [x EXCEPT !.status = task[t].status], Idle)
          [] ~Settled(x) /\ x.turn # None ->
               SaveBy(p, t, Apply(Resumed(x), s, FALSE), Deliver(t, None))
  /\ UNCHANGED <<native, heard, exposed, troubles>>

Retryable(n) == n.status \in {"failed", "retry_wait"} /\ n.outcome = "retryable"

Authorize(n) ==
  [n EXCEPT !.granted = IF @ > n.attempts THEN @ ELSE n.attempts + 1,
            !.status = "ready"]

\* A question's callback is retried only if the question is still asked.
RetryCallback(p, t, i) ==
  /\ At(p, "idle") /\ Stored(t) /\ ~Stopped(task[t])
  /\ i \in DOMAIN task[t].box
  /\ LET n == task[t].box[i]
     IN /\ Retryable(n)
        /\ IF n.key.kind = "interaction"
           THEN Goto(p, [Observed(t, "retry", Snapshot(t, task[t].turn))
                           EXCEPT !.only = n.key])
           ELSE SaveBy(p, t, [task[t] EXCEPT !.box[i] = Authorize(n)],
                       Deliver(t, n.key))
  /\ UNCHANGED <<native, heard, exposed, troubles>>

ApplyRetry(p) ==
  /\ At(p, "observed") /\ job[p].why = "retry"
  /\ LET t == job[p].id
         key == job[p].only
         s == job[p].snap
         x == KeepTimeout(Apply(task[t], s, TRUE), task[t])
         i == CHOOSE k \in DOMAIN x.box : x.box[k].key = key
     IN CASE Changed(p) \/ Stopped(task[t]) -> Goto(p, Idle)
          [] ~Changed(p) /\ ~Stopped(task[t]) /\ key.ask \notin s.pending ->
               SaveBy(p, t, [x EXCEPT !.box[i] = Withdraw(@)], Idle)
          [] ~Changed(p) /\ ~Stopped(task[t]) /\ key.ask \in s.pending ->
               SaveBy(p, t, [x EXCEPT !.box[i] = Authorize(@)], Deliver(t, key))
  /\ UNCHANGED <<native, heard, exposed, troubles>>

-----------------------------------------------------------------------------
(* Delivery *)

Budget(n) == IF n.granted > MaxAttempts THEN n.granted ELSE MaxAttempts

Eligible(x, n) ==
  /\ ~Stopped(x) /\ ~Stale(x, n)
  /\ n.status \in {"ready", "retry_wait"} /\ n.attempts < Budget(n)

\* Mutant: an attempt whose lease has run out is repeated.
Repeated(x, n) ==
  CASE n.status = "leased" /\ n.lapsed ->
         [n EXCEPT !.status = "retry_wait", !.outcome = "retryable"]
    [] ~Stopped(x) /\ n.status \in {"ready", "retry_wait"} /\ Stale(x, n) -> Withdraw(n)
    [] OTHER -> n

\* An attempt whose lease has run out is uncertain; what is stale is withdrawn.
Swept(x, n) ==
  CASE n.status = "leased" /\ n.lapsed ->
         [n EXCEPT !.status = "uncertain", !.outcome = "expired"]
    [] ~Stopped(x) /\ n.status \in {"ready", "retry_wait"} /\ Stale(x, n) -> Withdraw(n)
    [] OTHER -> n

Selected(p, n) == job[p].only \in {None, n.key}

\* The first notification that is due is claimed; a retry may still wait.
Claim(p) ==
  /\ At(p, "deliver")
  /\ LET t == job[p].id
         x == task[t]
         Due(i) == Selected(p, x.box[i]) /\ Eligible(x, x.box[i])
         dues == {i \in DOMAIN x.box : Due(i)}
         SweptBefore(c) ==
           [i \in DOMAIN x.box |->
              IF i < c /\ Selected(p, x.box[i]) THEN Swept(x, x.box[i]) ELSE x.box[i]]
         Waits(i) == x.box[i].status = "retry_wait"
         all == SweptBefore(Len(x.box) + 1)
     IN \/ \E c \in dues :
             LET n == [x.box[c] EXCEPT !.status = "leased", !.lapsed = FALSE,
                                       !.attempts = @ + 1]
             IN /\ \A i \in dues : i < c => Waits(i)
                /\ SaveBy(p, t, [x EXCEPT !.box = [SweptBefore(c) EXCEPT ![c] = n]],
                          [pc |-> "claimed", id |-> t, note |-> c,
                           attempt |-> n.attempts])
        \/ /\ dues = {} \/ (all # x.box /\ \A i \in dues : Waits(i))
           /\ SaveBy(p, t, [x EXCEPT !.box = all], Idle)
  /\ UNCHANGED <<native, heard, exposed, troubles>>

Definitive(outcome) == outcome \in {"accepted", "proven"}

\* Only the attempt in flight settles; once its lease has run out, only by an
\* answer or by proof that nothing was dispatched.
Finish(x, n, attempt, outcome) ==
  LET refused == outcome \in {"retryable", "proven"}
  IN CASE n.attempts # attempt -> n
       [] n.attempts = attempt /\ n.status # "leased"
            /\ ~(n.status = "uncertain" /\ n.outcome = "expired" /\ Definitive(outcome)) -> n
       [] OTHER ->
            CASE outcome = "accepted" -> [n EXCEPT !.status = "accepted", !.outcome = "accepted"]
              [] outcome \in {"permanent", "uncertain"} ->
                   [n EXCEPT !.status = IF outcome = "permanent" THEN "failed" ELSE outcome,
                             !.outcome = outcome]
              [] refused /\ Stale(x, n) -> Withdraw(n)
              [] refused /\ ~Stale(x, n) ->
                   [n EXCEPT !.outcome = "retryable",
                             !.status = IF ~Stopped(x) /\ n.attempts < Budget(n)
                                        THEN "retry_wait" ELSE "failed"]

Finished(p, outcome) ==
  LET j == job[p]
      x == task[j.id]
  IN [x EXCEPT !.box[j.note] = Finish(x, @, j.attempt, outcome)]

Notice(p) == <<job[p].id, task[job[p].id].box[job[p].note].key>>

\* The task is read once more before the controller is called.
Call(p) ==
  /\ At(p, "claimed")
  /\ LET x == task[job[p].id]
     IN IF Stopped(x) \/ Stale(x, x.box[job[p].note])
        THEN /\ SaveBy(p, job[p].id, Finished(p, "permanent"), Idle)
             /\ exposed' = exposed
        ELSE /\ Goto(p, [job[p] EXCEPT !.pc = "calling"])
             /\ exposed' = exposed \cup {Notice(p)}
  /\ UNCHANGED <<native, heard, troubles>>

Reach(p) ==
  /\ At(p, "calling")
  /\ heard' = [heard EXCEPT ![Notice(p)] = @ + 1]
  /\ Goto(p, [job[p] EXCEPT !.pc = "reached"])
  /\ UNCHANGED <<native, exposed, troubles>>

\* The transport reports the acceptance before it returns.
Checkpoint(p) ==
  /\ At(p, "reached")
  /\ SaveBy(p, job[p].id, Finished(p, "accepted"), [job[p] EXCEPT !.pc = "reported"])
  /\ UNCHANGED <<native, heard, exposed, troubles>>

Return(p) ==
  /\ job[p].pc \in {"reached", "reported"}
  /\ SaveBy(p, job[p].id, Finished(p, "accepted"), Idle)
  /\ UNCHANGED <<native, heard, exposed, troubles>>

\* The connection was refused: the controller did not get the message.
NotReached(p) ==
  /\ At(p, "calling")
  /\ \E o \in {"retryable", "proven"} : SaveBy(p, job[p].id, Finished(p, o), Idle)
  /\ exposed' = exposed \ {Notice(p)}
  /\ Trouble
  /\ UNCHANGED <<native, heard>>

\* The call failed for good, or ended in doubt.
Fail(p) ==
  /\ job[p].pc \in {"calling", "reached"}
  /\ \E o \in {"permanent", "uncertain"} :
       /\ o = "permanent" => At(p, "calling")
       /\ SaveBy(p, job[p].id, Finished(p, o), Idle)
  /\ Trouble
  /\ UNCHANGED <<native, heard, exposed>>

-----------------------------------------------------------------------------
(* The app-server, the user, the clock and the operating system *)

\* Input starts a turn, or goes into the one that runs.
Take(m) ==
  /\ m \in wire
  /\ wire' = wire \ {m}
  /\ starts' = [starts EXCEPT ![m] = @ + 1]
  /\ IF Running = {}
     THEN turn' = [turn EXCEPT ![m] = "running"] /\ latest' = m /\ home' = [home EXCEPT ![m] = m]
     ELSE /\ home' = [home EXCEPT ![m] = CHOOSE u \in Running : TRUE]
          /\ UNCHANGED <<turn, latest>>
  /\ UNCHANGED <<task, job, shown, asking, heard, exposed, troubles>>

\* The history is written some time after the turn has started.
Materialize(m) ==
  /\ home[m] # None /\ m \notin shown
  /\ shown' = shown \cup {m}
  /\ UNCHANGED <<task, job, turn, latest, home, wire, starts, asking, heard, exposed, troubles>>

UserSends(u) ==
  /\ Running = {} /\ turn[u] = "none"
  /\ turn' = [turn EXCEPT ![u] = "running"] /\ latest' = u
  /\ Trouble
  /\ UNCHANGED <<task, job, home, shown, wire, starts, asking, heard, exposed>>

TurnEnds ==
  /\ Running # {}
  /\ turn' = [u \in Turns |-> IF turn[u] = "running" THEN "ended" ELSE turn[u]]
  /\ asking' = [q \in Questions |-> IF asking[q] = "open" THEN "done" ELSE asking[q]]
  /\ UNCHANGED <<task, job, latest, home, shown, wire, starts, heard, exposed, troubles>>

Ask(q) ==
  /\ Running # {} /\ asking[q] = "unasked"
  /\ asking' = [asking EXCEPT ![q] = "open"]
  /\ Trouble
  /\ UNCHANGED <<task, job, turn, latest, home, shown, wire, starts, heard, exposed>>

Answer(q) ==
  /\ asking[q] = "open"
  /\ asking' = [asking EXCEPT ![q] = "done"]
  /\ UNCHANGED <<task, job, turn, latest, home, shown, wire, starts, heard, exposed, troubles>>

Deadline(t) ==
  /\ Stored(t) /\ ~task[t].due /\ Live(task[t])
  /\ task' = [task EXCEPT ![t].due = TRUE]
  /\ Trouble
  /\ UNCHANGED <<job, native, heard, exposed>>

InCall(t, i) ==
  \E p \in Procs :
    /\ job[p].pc \in {"claimed", "calling", "reached", "reported"}
    /\ job[p].id = t /\ job[p].note = i

\* A lease always runs out when its holder has died.
Lapse(t) ==
  /\ Stored(t)
  /\ \E i \in DOMAIN task[t].box :
       /\ task[t].box[i].status = "leased" /\ ~task[t].box[i].lapsed
       /\ task' = [task EXCEPT ![t].box[i].lapsed = TRUE]
       /\ IF InCall(t, i) THEN Trouble ELSE troubles' = troubles
  /\ UNCHANGED <<job, native, heard, exposed>>

Crash(p) ==
  /\ ~At(p, "idle")
  /\ Goto(p, Idle)
  /\ Trouble
  /\ UNCHANGED <<native, heard, exposed>>

-----------------------------------------------------------------------------

Proceed(p) ==
  \/ Reserve(p) \/ CommitDispatch(p) \/ Dispatch(p) \/ Response(p)
  \/ RecordResult(p) \/ Settle(p) \/ Reconcile(p)
  \/ ApplyReconcile(p) \/ ApplyAcceptance(p) \/ ApplyWatch(p)
  \/ ApplyRecover(p) \/ ApplyRenew(p) \/ ApplyRetry(p)
  \/ \E why \in {"recover", "renew"} : Refuse(p, why)
  \/ Claim(p) \/ Call(p) \/ Reach(p) \/ Checkpoint(p) \/ Return(p)
  \/ NotReached(p) \/ Fail(p)

Command(p) ==
  \/ \E m \in Messages : Send(p, m) \/ Close(p, m)
  \/ \E w \in Watches : Watch(p, w)
  \/ \E t \in Ids :
       \/ Unwatch(p, t) \/ Order(p, t, "recover") \/ Order(p, t, "renew")
       \/ \E i \in DOMAIN (IF Stored(t) THEN task[t].box ELSE <<>>) : RetryCallback(p, t, i)

Environment ==
  \/ \E m \in Messages : Take(m) \/ Materialize(m)
  \/ \E u \in UserTurns : UserSends(u)
  \/ TurnEnds
  \/ \E q \in Questions : Ask(q) \/ Answer(q)
  \/ \E t \in Ids : Deadline(t) \/ Lapse(t)

Next ==
  \/ \E p \in Procs : Proceed(p) \/ Command(p) \/ Crash(p)
  \/ \E p \in Procs : \E t \in Ids : Monitor(p, t)
  \/ Environment

Spec == Init /\ [][Next]_vars

-----------------------------------------------------------------------------
(* Safety *)

Statuses == {"awaiting_acceptance", "watching", "completed", "failed", "timed_out"}

Notes ==
  [key : Keys, status : {"ready", "leased", "retry_wait", "accepted", "failed", "uncertain"},
   attempts : Nat, granted : Nat, lapsed : BOOLEAN,
   outcome : {"none", "accepted", "retryable", "permanent", "uncertain", "expired"}]

\* Every stored record is one the repository accepts: a followed task names its
\* turn, an accepted send does and no other, a notification is recorded once
\* and its attempts stay within what was granted (assertCodexNativeTaskRecord).
TypeOK ==
  /\ \A t \in Ids : Stored(t) =>
       LET x == task[t]
       IN /\ x.status \in Statuses
          /\ x.intent \in {"none", "reserved", "uncertain", "accepted", "not_sent"}
          /\ (x.intent = "none") = (t \in Watches)
          /\ x.turn \in Turns \cup {None}
          /\ x.status \in {"watching", "completed"} => x.turn # None
          /\ t \in Messages => (x.intent = "accepted") = (x.turn # None)
          /\ x.closed => t \in Messages
          /\ x.pending \subseteq Questions
          /\ x.renewals \in 0 .. MaxTroubles
          /\ \A i \in DOMAIN x.box :
               x.box[i] \in Notes /\ x.box[i].attempts <= Budget(x.box[i])
          /\ \A i, j \in DOMAIN x.box : x.box[i].key = x.box[j].key => i = j
  /\ turn \in [Turns -> {"none", "running", "ended"}]
  /\ wire \subseteq Messages /\ shown \subseteq Messages
  /\ exposed \subseteq Notices
  /\ troubles \in 0 .. MaxTroubles

Sent(m) == m \in wire \/ starts[m] > 0

\* It was sent, and which turn it started is not known.
Unattributed(m) ==
  /\ Sent(m) /\ Stored(m) /\ ~task[m].closed
  /\ task[m].turn = None /\ task[m].intent \in {"reserved", "uncertain"}

\* A message reaches the app-server at most once, and never while another send
\* of the thread that reached it is still open: a turn that appears can be
\* attributed to one send.
SubmittedOnce ==
  /\ \A m \in Messages : starts[m] + (IF m \in wire THEN 1 ELSE 0) <= 1
  /\ \A m, n \in Messages : Unattributed(m) /\ Unattributed(n) => m = n

\* A send that is reported as not sent never reaches the app-server, however
\* late the request arrives.
NotSentIsTrue ==
  \A m \in Messages : Stored(m) /\ task[m].intent = "not_sent" => ~Sent(m)

\* A question that was announced and found answered is not asked again: an
\* observation made before somebody else's save is not applied after it.
AnsweredStaysAnswered ==
  [][\A t \in Ids : Stored(t) =>
       \A q \in Questions :
         Has(task[t], Asked(q))
           /\ q \in task'[t].pending => q \in task[t].pending]_vars

\* What the outbox promises the controller.
Recorded(statuses) ==
  UNION {LET box == task[t].box
         IN {<<t, box[i].key>> : i \in {j \in DOMAIN box : box[j].status \in statuses}}
           : t \in {u \in Ids : Stored(u)}}

Offered ==
  Recorded({"ready", "leased", "retry_wait", "accepted", "failed", "uncertain"})

Known == Recorded({"accepted"})

Promise == INSTANCE CallbackPromise WITH
  Messages <- Notices, offered <- Offered, taken <- heard, known <- Known

\* The outbox of the native tasks keeps the same promise as that of the Turns.
KeepsPromise == Promise!Spec

=============================================================================

--------------------------- MODULE TerminalWatch ---------------------------
(***************************************************************************)
(* Terminal Watches: durable observers of an agent somebody else started.  *)
(*                                                                         *)
(* Every sweep of every process (the Host's monitor, a status command)     *)
(* observes the terminal of an active Watch without any lock, then applies *)
(* what it saw under the writer lease and the Watch's lock; in a second    *)
(* phase it claims one notification of the Watch, calls the controller and *)
(* records the outcome.  A controller answers a displayed question through *)
(* a responder that holds the writer lease from the reservation to the     *)
(* receipt.  An observation may therefore be applied long after it was     *)
(* made, a Watch may settle while its notification is in flight, and a     *)
(* process may die between any two of its steps.                           *)
(*                                                                         *)
(* All Watches of the model follow one pane.  A Watch follows the activity *)
(* of the terminal only, or an exact task that it shares with the others.  *)
(***************************************************************************)
EXTENDS Naturals, Sequences, SequencesExt, FiniteSets

CONSTANTS
  Procs,        \* processes that sweep
  Senders,      \* those in the Host the callback routes belong to
  Watches,
  Kinds,        \* what a Watch may follow: "task", "activity"
  Rank,         \* order in which the Watches were created
  Controller,   \* the controller session each Watch reports to
  Questions,    \* questionnaires the agent may display
  Approvals,    \* approval prompts it may display
  None,         \* no question
  Ends,         \* the ways in which a Watch may come to its end
  MaxShows,     \* how often the display changes while the task runs
  MaxClaims,    \* how often a managed Turn takes or leaves the prompt
  MaxProgress,  \* how far the transcript is followed
  MaxReplies,   \* answers the controllers give
  MaxFails,     \* callbacks that fail
  MaxLapses,    \* leases that lapse while their sender lives
  MaxCrashes

Prompts == Questions \cup Approvals

Sessions == {Controller[w] : w \in Watches}

ManagedTurns == [by : Sessions, used : BOOLEAN]

ASSUME WatchAssumption ==
  /\ Senders \subseteq Procs
  /\ Kinds \subseteq {"task", "activity"}
  /\ Rank \in [Watches -> Nat]
  /\ \A v, w \in Watches : Rank[v] = Rank[w] => v = w
  /\ DOMAIN Controller = Watches
ASSUME PromptAssumption ==
  /\ Questions \cap Approvals = {}
  /\ None \notin Questions \cup Watches \cup {Controller[w] : w \in Watches}
  /\ {"working", "idle", "gone", "pending", "completed", "invalidated"}
       \cap (Questions \cup Approvals) = {}
ASSUME BoundAssumption ==
  /\ Ends \subseteq {"task", "exit", "deadline", "cancel"}
  /\ {MaxShows, MaxClaims, MaxProgress, MaxReplies, MaxFails, MaxLapses,
      MaxCrashes} \subseteq Nat

VARIABLES
  watch,      \* the stored record of each Watch
  due,        \* the Watches whose deadline has passed
  collected,  \* the Watches whose record the retention has removed
  job,        \* the observation or the delivery each process has under way
  reply,      \* the answer being typed, under the writer lease
  screen,     \* what the pane displays, and who has answered it
  task,       \* the agent's task: its transcript and whether it has ended
  managed,    \* the managed Turn that may answer, or has answered, the prompt
  heard,      \* how often each notification reached its controller
  budget

vars == <<watch, due, collected, job, reply, screen, task, managed, heard,
          budget>>

Outcomes == {"completed", "invalidated", "timed_out", "cancelled"}

\* A notification is identified by its kind and the fingerprint of its cause.
Keys ==
  [kind : {"required", "manual"}, ev : Questions]
    \cup [kind : {"approval"}, ev : Approvals]
    \cup [kind : {"outcome"}, ev : Outcomes]

Resolved == {"consumed", "uncertain", "superseded"}

NoJob == [kind |-> "none"]

NoReply == [watch |-> None, stage |-> "none"]

Init ==
  /\ watch \in [Watches ->
       [kind : Kinds, status : {"active"}, question : {None}, state : {"none"},
        exec : {FALSE}, box : {<<>>}, offset : {0}, armed : {FALSE},
        idle : {0}]]
  /\ due = {}
  /\ collected = {}
  /\ job = [p \in Procs |-> NoJob]
  /\ reply = NoReply
  /\ screen = [show |-> "working", by |-> {}]
  /\ task = [progress |-> 0, ended |-> FALSE]
  /\ managed = None
  /\ heard = [w \in Watches |-> [k \in Keys |-> 0]]
  /\ budget = [shows |-> MaxShows, claims |-> MaxClaims,
               replies |-> MaxReplies, fails |-> MaxFails,
               lapses |-> MaxLapses, crashes |-> MaxCrashes]

Spend(what) == budget[what] > 0 /\ budget' = [budget EXCEPT ![what] = @ - 1]

Active(w) == watch[w].status = "active"

Activity == {w \in Watches : watch[w].kind = "activity"}

\* A responder keeps the writer lease from its reservation to its receipt.
LeaseIsFree == reply = NoReply

-----------------------------------------------------------------------------
(* The outbox of a Watch *)

Attention(n) == n.key.kind # "outcome"

Note(kind, ev) ==
  [key |-> [kind |-> kind, ev |-> ev], status |-> "pending", attempt |-> 0,
   lapsed |-> FALSE, ever |-> FALSE]

Has(box, kind, ev) ==
  \E i \in DOMAIN box : box[i].key = [kind |-> kind, ev |-> ev]

\* Attention the controller has not been given is dropped, except in flight.
DropUndelivered(box) ==
  [i \in DOMAIN box |->
    IF Attention(box[i]) /\ box[i].status \in {"pending", "failed", "dead"}
    THEN [box[i] EXCEPT !.status = "superseded"]
    ELSE box[i]]

Unsettled(n) == n.status \in {"pending", "failed", "delivering"}

\* A notification delivered, dropped or failed for good never blocks the next.
HeadOf(box) == SelectInSeq(box, Unsettled)

\* Mutant: a lease that ran out is left to its sender.
NeverReclaimed(n) == n.status \in {"pending", "failed"}

\* A retry waits for its delay, a lease in flight for its end.
Claimable(n) == n.status \in {"pending", "failed"} \/ n.lapsed

-----------------------------------------------------------------------------
(* Writing the record of a Watch *)

\* Mutant: no observation is compared with what was resolved while it was made.
NeverLate(w, x, o) == o

\* An observation of w is late for x when x resolves a question that was open
\* when the observation began.
Overtaken(w, x, o) ==
  IF x.state \in Resolved /\ watch[w].state \notin Resolved
  THEN [o EXCEPT !.late = TRUE]
  ELSE o

\* Process p, or no process of Procs, leaves x as the record of w.
SaveBy(p, w, x) ==
  /\ watch' = [watch EXCEPT ![w] = x]
  /\ job' = [r \in Procs |->
               CASE r = p -> NoJob
                 [] r # p /\ job[r].kind = "observe" /\ job[r].watch = w ->
                      Overtaken(w, x, job[r])
                 [] OTHER -> job[r]]

Done(p) == watch' = watch /\ job' = [job EXCEPT ![p] = NoJob]

\* A pending question is withdrawn by a save of its own.
Withdrawn(x) ==
  IF x.state = "pending"
  THEN [x EXCEPT !.state = "superseded", !.box = DropUndelivered(@)]
  ELSE x

Settled(x, outcome) ==
  [Withdrawn(x) EXCEPT
     !.status = outcome,
     !.box = Append(DropUndelivered(x.box), Note("outcome", outcome))]

\* Mutant: settlement waits for a reservation nobody finishes.
SettleUnreserved(p, w, x, outcome) ==
  /\ watch[w].state # "reserved"
  /\ SaveBy(p, w, Settled(x, outcome)) /\ UNCHANGED budget

\* Two saves when a question is pending, and the process may die in between.
SettleBy(p, w, x, outcome) ==
  \/ SaveBy(p, w, Settled(x, outcome)) /\ UNCHANGED budget
  \/ /\ watch[w].state = "pending"
     /\ SaveBy(p, w, Withdrawn(watch[w]))
     /\ Spend("crashes")

-----------------------------------------------------------------------------
(* Who may answer *)

\* A Watch that could answer a question of the pane.
Responsive(w) == Active(w) /\ w \notin Activity

\* Another Watch of the task, or w itself, has used the prompt up.
Fenced(q) ==
  {v \in Watches : Responsive(v) /\ watch[v].question = q
                                 /\ watch[v].state # "pending"}

Claims(w, q) ==
  {w} \cup {v \in Watches : Responsive(v) /\ watch[v].question = q
                                          /\ watch[v].exec}

Winner(w, q) ==
  CHOOSE v \in Claims(w, q) : \A u \in Claims(w, q) : Rank[u] <= Rank[v]

\* Whether w may answer q, and whether its controller need not hear of it.
Executable(w, q) ==
  /\ Responsive(w)
  /\ managed = None
  /\ Fenced(q) = {}
  /\ Winner(w, q) = w

\* Whoever has used the prompt up comes before whoever may still answer it, and
\* a managed Turn before a Watch.
Suppressed(w, q) ==
  LET fences == {Controller[v] : v \in Fenced(q)}
                  \cup {m.by : m \in {n \in {managed} \ {None} : n.used}}
  IN /\ Responsive(w)
     /\ CASE fences # {} -> Controller[w] \in fences
          [] fences = {} /\ managed # None -> Controller[w] = managed.by
          [] OTHER -> Winner(w, q) # w /\ Controller[Winner(w, q)] = Controller[w]

-----------------------------------------------------------------------------
(* Observation *)

\* What an observation of the activity concludes from an idle terminal.
IdleCount(w) == IF screen.show = "idle" /\ watch[w].armed
                THEN watch[w].idle + 1
                ELSE 0

SeenByActivity(w) ==
  CASE screen.show = "gone" -> "invalidated"
    [] screen.show \in Prompts -> screen.show
    [] screen.show = "idle" -> IF IdleCount(w) >= 2 THEN "completed" ELSE "pending"
    [] OTHER -> "pending"

\* The transcript settles an exact task, whatever the terminal displays.
SeenByTask(w) ==
  CASE task.ended -> "completed"
    [] ~task.ended /\ screen.show = "gone" -> "invalidated"
    [] ~task.ended /\ screen.show \in Prompts -> screen.show
    [] OTHER -> "pending"

\* A question leaves the activity checkpoint as it was listed.
Observation(w) ==
  LET active == screen.show = "working" \/ screen.show \in Approvals
      activity == w \in Activity
      question == screen.show \in Questions
  IN [kind |-> "observe", watch |-> w, late |-> FALSE,
      seen |-> IF activity THEN SeenByActivity(w) ELSE SeenByTask(w),
      offset |-> IF activity THEN 0 ELSE task.progress,
      armed |-> activity /\ (watch[w].armed \/ active),
      idle |-> IF activity
               THEN IF question THEN watch[w].idle ELSE IdleCount(w)
               ELSE 0,
      exec |-> question /\ Executable(w, screen.show),
      mute |-> question /\ Suppressed(w, screen.show)]

Observe(p, w) ==
  /\ job[p] = NoJob
  /\ Active(w)
  /\ w \notin due
  /\ job' = [job EXCEPT ![p] = Observation(w)]
  /\ UNCHANGED <<watch, due, collected, reply, screen, task, managed, heard,
                 budget>>

Observed(p) == job[p].kind = "observe" /\ LeaseIsFree

\* The Watch is loaded again under its lock.
Applies(p) ==
  /\ Observed(p)
  /\ Active(job[p].watch)
  /\ job[p].watch \notin due
  /\ job[p].offset >= watch[job[p].watch].offset

\* The checkpoint an observation carries may not go back on the record.
Advances(x, o) == (x.armed => o.armed) /\ o.idle <= x.idle + 1

Checkpointed(x, o) ==
  [x EXCEPT !.offset = o.offset, !.armed = o.armed, !.idle = o.idle]

\* Save x with the checkpoint of the observation of p, if it may be saved.
Commit(p, x) ==
  LET o == job[p]
  IN IF Advances(watch[o.watch], o)
     THEN SaveBy(p, o.watch, Checkpointed(x, o))
     ELSE Done(p)

ApplyNothing(p) ==
  /\ Observed(p)
  /\ LET w == job[p].watch
     IN \/ ~Active(w)
        \/ Active(w) /\ w \notin due /\ job[p].offset < watch[w].offset
  /\ Done(p)
  /\ UNCHANGED <<due, collected, reply, screen, task, managed, heard, budget>>

ApplyPending(p) ==
  /\ Applies(p)
  /\ job[p].seen = "pending"
  /\ Commit(p, watch[job[p].watch])
  /\ UNCHANGED <<due, collected, reply, screen, task, managed, heard, budget>>

ApplyApproval(p) ==
  /\ Applies(p)
  /\ job[p].seen \in Approvals
  /\ LET x == watch[job[p].watch]
         a == job[p].seen
     IN Commit(p, IF Has(x.box, "approval", a) THEN x
                  ELSE [x EXCEPT !.box = Append(@, Note("approval", a))])
  /\ UNCHANGED <<due, collected, reply, screen, task, managed, heard, budget>>

\* Mutant: a refreshed question is announced again.
AnnouncedAgain(box, q, exec, mute) ==
  IF mute THEN DropUndelivered(box)
  ELSE Append(DropUndelivered(box), Note(IF exec THEN "required" ELSE "manual", q))

\* Mutant: only the first question of a Watch is announced.
AnnouncedFirst(box, q, exec, mute) ==
  IF mute \/ (\E i \in DOMAIN box : Attention(box[i])) THEN DropUndelivered(box)
  ELSE Append(box, Note(IF exec THEN "required" ELSE "manual", q))

\* The notification of a question the Watch now holds.
Announced(box, q, exec, mute) ==
  LET kind == IF exec THEN "required" ELSE "manual"
  IN IF mute THEN DropUndelivered(box)
     ELSE IF Has(box, kind, q) THEN box
     ELSE Append(DropUndelivered(box), Note(kind, q))

Asked(x, o) ==
  [x EXCEPT !.question = o.seen, !.state = "pending", !.exec = o.exec,
            !.box = Announced(@, o.seen, o.exec, o.mute)]

\* A question seen again is refreshed while it is pending and is otherwise
\* left alone.  A new one replaces a question resolved before it was seen: one
\* still pending is withdrawn first, which is later than any observation.
ApplyQuestion(p) ==
  /\ Applies(p)
  /\ job[p].seen \in Questions
  /\ LET o == job[p]
         x == watch[o.watch]
         same == x.question = o.seen
     IN \/ x.state = "none" /\ Commit(p, Asked(x, o))
        \/ same /\ x.state = "pending" /\ Commit(p, Asked(x, o))
        \/ same /\ x.state \notin {"none", "pending"} /\ Done(p)
        \/ ~same /\ x.state = "pending" /\ SaveBy(p, o.watch, Withdrawn(x))
        \/ ~same /\ x.state = "reserved" /\ Done(p)
        \/ /\ ~same /\ x.state \in Resolved
           /\ IF o.late THEN Done(p) ELSE Commit(p, Asked(x, o))
  /\ UNCHANGED <<due, collected, reply, screen, task, managed, heard, budget>>

ApplyEnd(p) ==
  /\ Applies(p)
  /\ job[p].seen \in Outcomes
  /\ LET o == job[p]
         x == watch[o.watch]
     IN IF Advances(x, o)
        THEN SettleBy(p, o.watch, Checkpointed(x, o), o.seen)
        ELSE SaveBy(p, o.watch, Withdrawn(x)) /\ UNCHANGED budget
  /\ UNCHANGED <<due, collected, reply, screen, task, managed, heard>>

\* The deadline is found passed before an observation or after it.
TimeOut(p, w) ==
  /\ LeaseIsFree
  /\ Active(w)
  /\ w \in due
  /\ \/ job[p] = NoJob
     \/ job[p].kind = "observe" /\ job[p].watch = w
  /\ SettleBy(p, w, watch[w], "timed_out")
  /\ UNCHANGED <<due, collected, reply, screen, task, managed, heard>>

Cancel(w) ==
  /\ "cancel" \in Ends
  /\ LeaseIsFree
  /\ Active(w)
  /\ SettleBy(None, w, watch[w], "cancelled")
  /\ UNCHANGED <<due, collected, reply, screen, task, managed, heard>>

-----------------------------------------------------------------------------
(* Delivery *)

Outbox(w, box) == watch' = [watch EXCEPT ![w].box = box]

\* The Watch settled, so its attention no longer matters.
Quieted(w) ==
  LET box == watch[w].box
      i == HeadOf(box)
  IN IF ~Active(w) /\ i > 0 /\ Attention(box[i]) /\ Claimable(box[i])
     THEN [box EXCEPT ![i].status = "superseded"]
     ELSE box

Claim(p, w) ==
  /\ LeaseIsFree
  /\ p \in Senders
  /\ job[p] = NoJob
  /\ w \notin collected
  /\ LET box == Quieted(w)
         i == HeadOf(box)
     IN IF i > 0 /\ Claimable(box[i])
        THEN /\ Outbox(w, [box EXCEPT ![i].status = "delivering",
                                    ![i].attempt = @ + 1,
                                    ![i].lapsed = FALSE])
             /\ job' = [job EXCEPT ![p] =
                  [kind |-> "deliver", watch |-> w, note |-> i,
                   attempt |-> box[i].attempt + 1, sent |-> FALSE,
                   told |-> FALSE]]
        ELSE box # watch[w].box /\ Outbox(w, box) /\ job' = job
  /\ UNCHANGED <<due, collected, reply, screen, task, managed, heard, budget>>

Delivering(p) == job[p].kind = "deliver"

\* The call reaches the controller, at most once for each attempt.
Reach(p) ==
  /\ Delivering(p)
  /\ ~job[p].sent
  /\ LET w == job[p].watch
     IN heard' = [heard EXCEPT ![w][watch[w].box[job[p].note].key] = @ + 1]
  /\ job' = [job EXCEPT ![p].sent = TRUE]
  /\ UNCHANGED <<watch, due, collected, reply, screen, task, managed, budget>>

\* Mutant: an unknown end is retried like a definite failure.
FinishedUnknown(w, n, outcome) ==
  CASE outcome = "accepted" -> "delivered"
    [] outcome # "accepted" /\ Attention(n) /\ ~Active(w) -> "superseded"
    [] outcome \in {"retryable", "uncertain"} /\ ~(Attention(n) /\ ~Active(w)) ->
         "failed"
    [] OTHER -> "dead"

\* Mutant: the end of the Watch is not looked at.
FinishedUnaware(w, n, outcome) ==
  CASE outcome = "accepted" -> "delivered"
    [] outcome = "retryable" -> "failed"
    [] OTHER -> "dead"

\* What an outcome leaves of note n of Watch w.
Finished(w, n, outcome) ==
  CASE outcome = "accepted" -> "delivered"
    [] outcome # "accepted" /\ Attention(n) /\ ~Active(w) -> "superseded"
    [] outcome = "retryable" /\ ~(Attention(n) /\ ~Active(w)) -> "failed"
    [] OTHER -> "dead"

\* Only the attempt that holds the lease settles the notification.
Finish(p, outcome) ==
  LET w == job[p].watch
      i == job[p].note
      n == watch[w].box[i]
  IN IF n.status = "delivering" /\ n.attempt = job[p].attempt
     THEN Outbox(w, [watch[w].box EXCEPT
                       ![i].status = Finished(w, n, outcome),
                       ![i].lapsed = FALSE])
     ELSE watch' = watch

\* The transport reports the acceptance before it returns.
AcceptEarly(p) ==
  /\ Delivering(p)
  /\ LeaseIsFree
  /\ job[p].sent /\ ~job[p].told
  /\ Finish(p, "accepted")
  /\ job' = [job EXCEPT ![p].told = TRUE]
  /\ UNCHANGED <<due, collected, reply, screen, task, managed, heard, budget>>

Accepted(p) ==
  /\ Delivering(p)
  /\ LeaseIsFree
  /\ job[p].sent
  /\ Finish(p, "accepted")
  /\ job' = [job EXCEPT ![p] = NoJob]
  /\ UNCHANGED <<due, collected, reply, screen, task, managed, heard, budget>>

\* A definite failure, of which the controller heard nothing, or an unknown end.
Fails(p, outcome) ==
  /\ Delivering(p)
  /\ LeaseIsFree
  /\ ~job[p].told
  /\ outcome = "uncertain" \/ ~job[p].sent
  /\ Finish(p, outcome)
  /\ job' = [job EXCEPT ![p] = NoJob]
  /\ Spend("fails")
  /\ UNCHANGED <<due, collected, reply, screen, task, managed, heard>>

\* The lease of notification i runs out, its sender dead or only slow.
Lapse(w, i) ==
  LET n == watch[w].box[i]
      held == \E p \in Procs : /\ Delivering(p)
                               /\ job[p].watch = w
                               /\ job[p].note = i
                               /\ job[p].attempt = n.attempt
  IN /\ n.status = "delivering"
     /\ ~n.lapsed
     /\ Outbox(w, [watch[w].box EXCEPT ![i].lapsed = TRUE, ![i].ever = TRUE])
     /\ IF held THEN Spend("lapses") ELSE UNCHANGED budget
     /\ UNCHANGED <<due, collected, job, reply, screen, task, managed, heard>>

\* Mutant: a settled task with nothing to answer is removed.
HealthyUntold(w) ==
  /\ watch[w].status = "completed"
  /\ watch[w].state \in {"none", "consumed", "superseded"}

\* Retention removes a task that completed and left nothing to tell or to ask.
Healthy(w) ==
  /\ watch[w].status = "completed"
  /\ watch[w].state \in {"none", "consumed", "superseded"}
  /\ \A i \in DOMAIN watch[w].box :
       watch[w].box[i].status \in {"delivered", "superseded"}

Collect(w) ==
  /\ LeaseIsFree
  /\ w \notin collected
  /\ Healthy(w)
  /\ collected' = collected \cup {w}
  /\ UNCHANGED <<watch, due, job, reply, screen, task, managed, heard, budget>>

-----------------------------------------------------------------------------
(* The responder *)

\* The prompt is captured twice and the authority decided again.
Reserve(w) ==
  /\ LeaseIsFree
  /\ Active(w)
  /\ watch[w].state = "pending" /\ watch[w].exec
  /\ screen.show = watch[w].question
  /\ Executable(w, watch[w].question)
  /\ Spend("replies")
  /\ SaveBy(None, w, [watch[w] EXCEPT !.state = "reserved"])
  /\ reply' = [watch |-> w, stage |-> "reserved"]
  /\ UNCHANGED <<due, collected, screen, task, managed, heard>>

\* The last capture before the keys differs, or failed.
Release(w) ==
  /\ reply = [watch |-> w, stage |-> "reserved"]
  /\ SaveBy(None, w, [watch[w] EXCEPT !.state = "pending"])
  /\ reply' = NoReply
  /\ UNCHANGED <<due, collected, screen, task, managed, heard, budget>>

\* The last capture agrees and keys are sent, all of them or some.
Type(w) ==
  /\ reply = [watch |-> w, stage |-> "reserved"]
  /\ screen.show = watch[w].question
  /\ screen' = [screen EXCEPT !.by = @ \cup {w}]
  /\ reply' = [reply EXCEPT !.stage = "typed"]
  /\ UNCHANGED <<watch, due, collected, job, task, managed, heard, budget>>

\* An announcement the answer has overtaken is dropped.
Consumed(x) ==
  [x EXCEPT !.state = "consumed",
     !.box = [i \in DOMAIN @ |->
       IF /\ @[i].key = [kind |-> "required", ev |-> x.question]
          /\ @[i].status \in {"pending", "failed", "dead"}
       THEN [@[i] EXCEPT !.status = "superseded"]
       ELSE @[i]]]

Consume(w) ==
  /\ reply = [watch |-> w, stage |-> "typed"]
  /\ SaveBy(None, w, Consumed(watch[w]))
  /\ reply' = NoReply
  /\ UNCHANGED <<due, collected, screen, task, managed, heard, budget>>

\* Some key may have been sent, or not even the first.
Uncertain(w) ==
  /\ reply.watch = w
  /\ SaveBy(None, w, [watch[w] EXCEPT !.state = "uncertain"])
  /\ reply' = NoReply
  /\ UNCHANGED <<due, collected, screen, task, managed, heard, budget>>

-----------------------------------------------------------------------------
(* Processes that die, the agent, its human and the clock *)

Die(p) ==
  /\ job[p] # NoJob
  /\ Spend("crashes")
  /\ job' = [job EXCEPT ![p] = NoJob]
  /\ UNCHANGED <<watch, due, collected, reply, screen, task, managed, heard>>

ReplyDies ==
  /\ reply # NoReply
  /\ Spend("crashes")
  /\ reply' = NoReply
  /\ UNCHANGED <<watch, due, collected, job, screen, task, managed, heard>>

\* The agent, or the human at its terminal, changes the display.
Show(s) ==
  /\ screen.show \notin {s, "gone"}
  /\ ~task.ended
  /\ Spend("shows")
  /\ screen' = [show |-> s, by |-> {}]
  /\ \/ task' = task
     \/ task.progress < MaxProgress /\ task' = [task EXCEPT !.progress = @ + 1]
  /\ UNCHANGED <<watch, due, collected, job, reply, managed, heard>>

TaskEnds ==
  /\ "task" \in Ends
  /\ ~task.ended
  /\ screen.show # "gone"
  /\ task' = [task EXCEPT !.ended = TRUE]
  /\ screen' = [show |-> "idle", by |-> {}]
  /\ UNCHANGED <<watch, due, collected, job, reply, managed, heard, budget>>

AgentExits ==
  /\ "exit" \in Ends
  /\ screen.show # "gone"
  /\ screen' = [show |-> "gone", by |-> {}]
  /\ UNCHANGED <<watch, due, collected, job, reply, task, managed, heard,
                 budget>>

\* A managed Turn comes to own the prompt, answers it or is done with it.
Manage(c) ==
  /\ c # managed
  /\ Spend("claims")
  /\ managed' = c
  /\ UNCHANGED <<watch, due, collected, job, reply, screen, task, heard>>

Deadline(w) ==
  /\ "deadline" \in Ends
  /\ Active(w)
  /\ w \notin due
  /\ due' = due \cup {w}
  /\ UNCHANGED <<watch, collected, job, reply, screen, task, managed, heard,
                 budget>>

Apply(p) ==
  \/ ApplyNothing(p) \/ ApplyPending(p) \/ ApplyApproval(p)
  \/ ApplyQuestion(p) \/ ApplyEnd(p)

Sweep(p) ==
  \/ \E w \in Watches : Observe(p, w) \/ TimeOut(p, w) \/ Claim(p, w)
  \/ Apply(p)
  \/ Reach(p) \/ AcceptEarly(p) \/ Accepted(p)
  \/ \E outcome \in {"retryable", "permanent", "uncertain"} : Fails(p, outcome)
  \/ Die(p)

Respond ==
  \/ \E w \in Watches :
       Reserve(w) \/ Release(w) \/ Type(w) \/ Consume(w) \/ Uncertain(w)
  \/ ReplyDies

Environment ==
  \/ \E s \in {"working", "idle"} \cup Prompts : Show(s)
  \/ TaskEnds \/ AgentExits
  \/ \E c \in ManagedTurns \cup {None} : Manage(c)
  \/ \E w \in Watches : Deadline(w) \/ Cancel(w) \/ Collect(w)
  \/ \E w \in Watches : \E i \in DOMAIN watch[w].box : Lapse(w, i)

Next == (\E p \in Procs : Sweep(p)) \/ Respond \/ Environment

Spec == Init /\ [][Next]_vars

-----------------------------------------------------------------------------
(* Safety *)

Observations ==
  [kind : {"observe"}, watch : Watches, late : BOOLEAN,
   seen : Prompts \cup {"pending", "completed", "invalidated"},
   offset : 0 .. MaxProgress, armed : BOOLEAN, idle : 0 .. 3,
   exec : BOOLEAN, mute : BOOLEAN]

Deliveries ==
  [kind : {"deliver"}, watch : Watches, note : Nat \ {0},
   attempt : Nat \ {0}, sent : BOOLEAN, told : BOOLEAN]

Notes ==
  [key : Keys, attempt : Nat, lapsed : BOOLEAN, ever : BOOLEAN,
   status : {"pending", "delivering", "failed", "dead", "delivered",
             "superseded"}]

\* Every variable stays in its type and no notification is stored twice.
TypeOK ==
  /\ \A w \in Watches :
       LET x == watch[w]
       IN /\ x.kind \in Kinds
          /\ x.status \in Outcomes \cup {"active"}
          /\ x.question \in Questions \cup {None}
          /\ x.state \in Resolved \cup {"none", "pending", "reserved"}
          /\ (x.state = "none") = (x.question = None)
          /\ x.exec \in BOOLEAN /\ x.armed \in BOOLEAN
          /\ x.offset \in 0 .. MaxProgress /\ x.idle \in 0 .. 3
          /\ \A i \in DOMAIN x.box : x.box[i] \in Notes
          /\ \A i, j \in DOMAIN x.box : x.box[i].key = x.box[j].key => i = j
  /\ due \subseteq Watches
  /\ collected \subseteq Watches
  /\ \A p \in Procs : job[p] \in Observations \cup Deliveries \cup {NoJob}
  /\ reply \in [watch : Watches, stage : {"reserved", "typed"}] \cup {NoReply}
  /\ screen.show \in {"working", "idle", "gone"} \cup Prompts
  /\ screen.by \subseteq Watches
  /\ task \in [progress : 0 .. MaxProgress, ended : BOOLEAN]
  /\ managed \in ManagedTurns \cup {None}
  /\ \A w \in Watches : heard[w] \in [Keys -> Nat]
  /\ \A b \in DOMAIN budget : budget[b] \in Nat

\* Keys of an answer never follow those of another answer to the same display
\* of a question, by this Watch or by another one still active: neither two
\* controllers nor a stale observation open a used prompt a second time.
OneAnswer ==
  [][\A w \in Watches :
       Type(w) => \A v \in screen.by : watch[v].status # "active"]_vars

\* A controller hears of the same thing twice only when a sender's lease ran
\* out before its receipt was saved: a notification whose outcome is uncertain
\* or a permanent failure is never sent again.
OnceUnlessLapsed ==
  \A w \in Watches : \A i \in DOMAIN watch[w].box :
    heard[w][watch[w].box[i].key] > 1 => watch[w].box[i].ever

\* Once a Watch has settled no sender takes up a question or an approval of
\* its task again, however the attempt in flight at that moment ends.
SettledWatchIsQuiet ==
  [][\A w \in Watches : \A i \in DOMAIN watch[w].box :
       (watch[w].status # "active" /\ Attention(watch[w].box[i])) =>
         /\ watch'[w].box[i].attempt = watch[w].box[i].attempt
         /\ watch'[w].box[i].status # "failed"]_vars

\* Retention removes no record whose outcome the controller has not received
\* or whose question may still be waiting for an answer.
RemovedIsReceived ==
  \A w \in collected :
    /\ heard[w][[kind |-> "outcome", ev |-> watch[w].status]] > 0
    /\ watch[w].state \notin {"pending", "reserved", "uncertain"}

-----------------------------------------------------------------------------
(* Liveness *)

\* A sweep observes every active Watch and then takes up one notification of
\* every Watch, so none is passed over for ever; the transport bounds a call
\* and a lease always runs out.  Nothing obliges a controller to answer.
Fairness ==
  /\ \A p \in Procs : \A w \in Watches :
       SF_vars(Observe(p, w) \/ TimeOut(p, w)) /\ SF_vars(Claim(p, w))
  /\ \A p \in Procs : WF_vars(Apply(p)) /\ WF_vars(Reach(p) \/ Accepted(p))
  /\ \A w \in Watches :
       /\ WF_vars(Release(w) \/ Consume(w))
       /\ WF_vars(\E i \in DOMAIN watch[w].box : Lapse(w, i))

FairSpec == Spec /\ Fairness

Ended(w) ==
  \/ w \in due
  \/ screen.show = "gone"
  \/ w \notin Activity /\ task.ended
  \/ w \in Activity /\ screen.show = "idle" /\ watch[w].armed

\* A deadline, the end of the task, the end of the agent and, for a Watch of
\* the activity alone, lasting idleness after work each settle every Watch,
\* whatever question, orphaned reservation or failing callback it has.
EndIsNoticed == \A w \in Watches : <>[]Ended(w) => <>~Active(w)

Told(w, kinds, ev) ==
  \E i \in DOMAIN watch[w].box :
    LET n == watch[w].box[i]
    IN n.key.kind \in kinds /\ n.key.ev = ev /\ n.status \in {"delivered", "dead"}

\* The outcome of a settled Watch reaches its controller, or fails for good,
\* behind whatever attention was in flight or failing when the Watch settled.
OutcomeIsDelivered ==
  \A w \in Watches :
    ~Active(w) ~> Told(w, {"outcome"}, watch[w].status)

\* A question the Watch can no longer announce: it was answered or withdrawn
\* while still displayed, it is fenced behind an orphaned reservation, or its
\* announcement was dropped when another question took its place for a while.
Spoilt(w, q) ==
  \/ watch[w].state = "reserved"
  \/ watch[w].question = q /\ watch[w].state \in Resolved
  \/ \E i \in DOMAIN watch[w].box :
       /\ watch[w].box[i].key.ev = q
       /\ watch[w].box[i].status = "superseded"

\* A question that stays on display is announced, however many observations
\* of an earlier display are still under way and whatever died before.
QuestionIsAnnounced ==
  \A w \in Watches : \A q \in Questions :
    <>[](Active(w) /\ screen.show = q /\ ~Spoilt(w, q) /\ ~Suppressed(w, q)) =>
      <>Told(w, {"required", "manual"}, q)
=============================================================================

-------------------------- MODULE TerminalDispatch --------------------------
(***************************************************************************)
(* One terminal pane and the messages AKK types into it.                   *)
(*                                                                         *)
(* Two durable records follow a message: the ledger of the pane (one       *)
(* current dispatch and the append-only receipts of all messages) and the  *)
(* submission in the state of the Turn that owns it.  A Send or an answer  *)
(* writes both before it types, again after the text, after Enter and when *)
(* the agent's transcript proves acceptance; a process may die, and a      *)
(* write may fail, between any two of these.  Later commands and the       *)
(* monitor of the Turn decide from the two records what happened.          *)
(*                                                                         *)
(* Send and the monitor's commits hold the lock of the terminal and the    *)
(* writer lease of their Store, so at most one of them, op, is under way.  *)
(* Close holds the lease of its Store alone: it may fall between a         *)
(* monitor's observation and its commit, and between any two steps of a    *)
(* Send from another Store that shares the pane.  The locks of a dead      *)
(* process are reclaimed (FileLock).                                       *)
(***************************************************************************)
EXTENDS Naturals, FiniteSets

CONSTANTS
  Turns,        \* Turns that may be created for this pane
  Tasks,        \* messages that start a Turn
  Answers,      \* messages that answer a Turn waiting for the controller
  Store,        \* the Store of each Turn, and the one each message is sent to
  NoTurn,
  NoMsg,
  MaxFaults,    \* writes that may fail, before or after they took effect
  MaxCrashes,   \* how often a process may die with a transaction under way
  MaxRestarts   \* how often the agent process of the pane may be replaced

Msgs == Tasks \cup Answers

ASSUME MsgAssumption == Tasks \cap Answers = {} /\ NoMsg \notin Msgs
ASSUME TurnAssumption == NoTurn \notin Turns
ASSUME StoreAssumption == DOMAIN Store = Turns \cup Msgs
ASSUME BoundAssumption ==
  MaxFaults \in Nat /\ MaxCrashes \in Nat /\ MaxRestarts \in Nat

VARIABLES
  ledger,   \* the dispatch ledger of the pane
  turn,     \* the durable state of each Turn
  op,       \* the transaction under way
  pane,     \* the agent process and the messages in its composer
  typed,    \* how often each message was typed
  heard,    \* how often the agent received each message
  proof,    \* messages whose acceptance the agent's transcript proves
  budget    \* writes, processes and restarts left to go wrong

vars == <<ledger, turn, op, pane, typed, heard, proof, budget>>

Entered == {"enter_dispatched", "agent_accepted"}

Failures == {"not_accepted", "uncertain", "aborted"}

ReceiptStatuses == Entered \cup Failures \cup {"text_injected"}

SubmissionStatuses == ReceiptStatuses \cup {"prepared"}

Stages == {"prepared", "text_injected", "enter_dispatched"}

Released == {"idle", "closed"}

Blocking == {"working", "asking", "stalled"}

Pcs ==
  {"none", "ledger", "state", "restore", "ready", "abort", "aborted", "typed",
   "text_ledger", "text", "entered", "enter_ledger", "enter", "final",
   "uncertain", "stall", "observed"}

NoSubmission == [status |-> "none", proven |-> "none", safe |-> FALSE]

NoLedger ==
  [status |-> "none", msg |-> NoMsg, turn |-> NoTurn, proven |-> "none",
   anchor |-> 0, receipts |-> [m \in Msgs |-> "none"]]

NoOp ==
  [pc |-> "none", turn |-> NoTurn, msg |-> NoMsg, anchor |-> 0,
   stage |-> "prepared", outcome |-> "none", safe |-> FALSE,
   back |-> "idle", prev |-> NoLedger]

Init ==
  /\ ledger = NoLedger
  /\ turn = [t \in Turns |-> [phase |-> "absent", msg |-> NoMsg, anchor |-> 0,
                              sub |-> [m \in Msgs |-> NoSubmission]]]
  /\ op = NoOp
  /\ pane = [anchor |-> 0, draft |-> {}]
  /\ typed = [m \in Msgs |-> 0]
  /\ heard = [m \in Msgs |-> 0]
  /\ proof = {}
  /\ budget = [faults |-> MaxFaults, crashes |-> MaxCrashes,
               restarts |-> MaxRestarts]

\* A command sees the Turns of its own Store; the ledger is the machine's.
Mates(t) == {u \in Turns : Store[u] = Store[t]}

Current(t) == IF turn[t].msg = NoMsg THEN NoSubmission
                                   ELSE turn[t].sub[turn[t].msg]

Spend(what) == budget[what] > 0 /\ budget' = [budget EXCEPT ![what] = @ - 1]

-----------------------------------------------------------------------------
(* The ledger document *)

\* What the append-only history keeps of a message: acceptance is never taken
\* back, and a failure is not overwritten by an earlier transport stage.
Merge(old, new) ==
  IF \/ old = "agent_accepted"
     \/ old \in Failures /\ new \in {"text_injected", "enter_dispatched"}
  THEN old
  ELSE new

\* Document l written over document old.
Over(old, l) ==
  [l EXCEPT !.receipts =
     IF l.status \in ReceiptStatuses
     THEN [old.receipts EXCEPT ![l.msg] = Merge(@, l.status)]
     ELSE old.receipts]

Save(l) == ledger' = Over(ledger, l)

\* A write that throws: its file may have been replaced before the error.
SaveFails(l) == ledger' \in {ledger, Over(ledger, l)} /\ Spend("faults")

Dispatch(status) ==
  [status |-> status, msg |-> op.msg, turn |-> op.turn, proven |-> "none",
   anchor |-> op.anchor, receipts |-> ledger.receipts]

Restored == IF op.prev.status = "none"
            THEN [NoLedger EXCEPT !.status = "resolved", !.anchor = op.anchor]
            ELSE op.prev

-----------------------------------------------------------------------------
(* The state of a Turn *)

Submission(status, proven, safe) ==
  [status |-> status, proven |-> proven, safe |-> safe]

\* The Turn t as a transaction with anchor a leaves it.
Saved(t, a, m, phase, s) ==
  [turn EXCEPT ![t] = [phase |-> phase, msg |-> m, anchor |-> a,
                       sub |-> [turn[t].sub EXCEPT ![m] = s]]]

SaveTurn(phase, s) == turn' = Saved(op.turn, op.anchor, op.msg, phase, s)

SaveTurnFails(phase, s) ==
  /\ turn' \in {turn, Saved(op.turn, op.anchor, op.msg, phase, s)}
  /\ Spend("faults")

-----------------------------------------------------------------------------
(* Recovery: what a later process makes of the two records *)

\* The pane's agent process changed: nothing is known to be under way in it.
ResolveIncarnation(l) ==
  IF l.status \notin {"none", "resolved"} /\ l.anchor # pane.anchor
  THEN [l EXCEPT !.status = "resolved", !.anchor = pane.anchor]
  ELSE l

Rank(status, proven) ==
  CASE status = "agent_accepted" -> 3
    [] status \in {"enter_dispatched", "not_accepted"}
         \/ proven = "enter_dispatched" -> 2
    [] status = "text_injected" \/ proven = "text_injected" -> 1
    [] OTHER -> 0

\* Mutant: the dispatcher is taken to have stopped before it typed.
RecoverAsResolved(l) == [l EXCEPT !.status = "resolved"]

\* Mutant: the Turn's proof is copied whatever message it is about.
RecoverPreparedAnyMessage(l) ==
  LET t == turn[l.turn]
      s == Current(l.turn)
  IN CASE t.phase = "absent" -> [l EXCEPT !.status = "resolved"]
       [] t.phase # "absent" /\ t.anchor # pane.anchor -> l
       [] OTHER -> [l EXCEPT !.status =
                      IF s.status \in Entered \cup {"text_injected"}
                      THEN s.status ELSE "uncertain"]

\* A ledger still "prepared" whose dispatcher is dead.
RecoverPrepared(l) ==
  LET t == turn[l.turn]
      s == Current(l.turn)
  IN CASE t.phase = "absent" -> [l EXCEPT !.status = "resolved"]
       [] t.phase # "absent" /\ t.anchor # pane.anchor -> l
       [] t.phase # "absent" /\ t.anchor = pane.anchor /\ t.msg = l.msg ->
            [l EXCEPT !.status =
               IF s.status \in Entered \cup {"text_injected"}
               THEN s.status ELSE "uncertain"]
       [] OTHER ->
            IF s.status = "agent_accepted"
            THEN [l EXCEPT !.status = s.status, !.msg = t.msg]
            ELSE [l EXCEPT !.status = "resolved"]

\* Mutant: a ledger that says "uncertain" is left as it is.
RecoverLaggingUnlessUncertain(l) ==
  LET s == Current(l.turn)
  IN IF /\ turn[l.turn].msg = l.msg
        /\ turn[l.turn].anchor = pane.anchor
        /\ l.status # "uncertain"
        /\ Rank(s.status, s.proven) > Rank(l.status, l.proven)
     THEN [l EXCEPT !.status = s.status]
     ELSE l

\* A ledger that lags behind the state of its Turn.
RecoverLagging(l) ==
  LET s == Current(l.turn)
      ahead == Rank(s.status, s.proven) > Rank(l.status, l.proven)
  IN IF \/ turn[l.turn].msg # l.msg
        \/ turn[l.turn].anchor # pane.anchor
        \/ l.status = "agent_accepted"
     THEN l
     ELSE CASE s.status = "agent_accepted" -> [l EXCEPT !.status = s.status]
            [] \/ s.status \in Failures
               \/ s.status \in {"text_injected", "enter_dispatched"} /\ ahead ->
                 [l EXCEPT !.status = s.status, !.proven = s.proven]
            [] OTHER -> l

Reconcile(l) ==
  Over(l, CASE l.status = "prepared" -> RecoverPrepared(l)
            [] l.status \in ReceiptStatuses \ {"aborted"} -> RecoverLagging(l)
            [] OTHER -> l)

\* A Send reconciles when it looks for a replay and again when it prepares.
Reconciled == Reconcile(Reconcile(Over(ledger, ResolveIncarnation(ledger))))

-----------------------------------------------------------------------------
(* Which messages may be typed *)

Holders(m) == {t \in Turns : turn[t].sub[m].status # "none"}

\* A receipt that does not prove that nothing was typed.
Binding(s) == ~(s.status = "aborted" /\ s.safe)

\* Mutant: only the ledger's receipts are asked, not the Turns'.
ReceiptsAllowByLedger(m) ==
  /\ \/ ledger.receipts[m] = "none"
     \/ ledger.msg = m /\ ledger.status \in Entered
  /\ ledger.msg = m => ledger.anchor = pane.anchor

\* The receipts found under message m let a command try it (again).
ReceiptsAllow(m) ==
  LET held == {t \in Holders(m) : Binding(turn[t].sub[m])}
  IN /\ \A t \in Holders(m) : turn[t].anchor = pane.anchor
     /\ Cardinality(held) <= 1
     /\ \A t \in held : turn[t].msg = m /\ turn[t].phase \notin Released
     /\ \/ ledger.receipts[m] = "none"
        \/ /\ ledger.msg = m
           /\ ledger.receipts[m] \in Entered
           /\ ledger.status \in Entered
     /\ ledger.msg = m => ledger.anchor = pane.anchor

\* The reconciled ledger proves that m was entered: the result is replayed.
Replays(l, m) ==
  /\ l.status \in Entered
  /\ l.msg = m
  /\ turn[l.turn].phase \notin Released
  /\ turn[l.turn].msg = m

\* Mutant: a failure that is already reported does not block the pane.
PreflightPastUncertain(l, t) ==
  /\ l.status \notin {"prepared", "text_injected"}
  /\ l.status \in Entered => turn[l.turn].phase \in Released \/ l.turn = t

Preflight(l, t) ==
  /\ l.status \notin {"prepared", "text_injected", "uncertain", "not_accepted"}
  /\ l.status \in Entered => turn[l.turn].phase \in Released \/ l.turn = t

\* No other Turn of this Store and this agent process has an unproven submission.
OthersSettled(t) ==
  \A u \in Mates(t) \ {t} :
    \/ turn[u].phase \in Released \cup {"absent"}
    \/ turn[u].anchor # pane.anchor
    \/ Current(u).status \in {"agent_accepted", "aborted"}

Begin(t, m, back) ==
  /\ Store[t] = Store[m]
  /\ ReceiptsAllow(m)
  /\ LET l == Reconciled
     IN /\ ~Replays(l, m)
        /\ Preflight(l, t)
        /\ OthersSettled(t)
        /\ ledger' = l
        /\ op' = [NoOp EXCEPT !.pc = "ledger", !.turn = t, !.msg = m,
                              !.anchor = pane.anchor, !.prev = l, !.back = back]
  /\ UNCHANGED <<turn, pane, typed, heard, proof, budget>>

\* A task for a new Turn, when this Store has no unfinished Turn of this process.
Send(t, m) ==
  /\ op.pc = "none"
  /\ m \in Tasks
  /\ turn[t].phase = "absent"
  /\ \A u \in Mates(t) :
       turn[u].anchor = pane.anchor => turn[u].phase \notin Blocking
  /\ Begin(t, m, "idle")

\* An answer for a Turn that waits for the controller.
Answer(t, m) ==
  /\ op.pc = "none"
  /\ m \in Answers
  /\ turn[t].phase = "asking"
  /\ turn[t].anchor = pane.anchor
  /\ Current(t).status \in {"agent_accepted", "aborted"}
  /\ Holders(m) \subseteq {t}
  /\ ledger.msg = m => ledger.turn = t
  /\ Begin(t, m, "asking")

-----------------------------------------------------------------------------
(* Before terminal input *)

At(pc) == op.pc = pc

Goto(pc) == op' = [op EXCEPT !.pc = pc]

Done == op' = NoOp

SavePreparedLedger ==
  /\ At("ledger")
  /\ \/ Save(Dispatch("prepared")) /\ Goto("state") /\ UNCHANGED budget
     \/ SaveFails(Dispatch("prepared")) /\ Goto("restore")
  /\ UNCHANGED <<turn, pane, typed, heard, proof>>

Prepared == Submission("prepared", "prepared", FALSE)

SavePreparedState ==
  /\ At("state")
  /\ \/ SaveTurn("working", Prepared) /\ Goto("ready") /\ UNCHANGED budget
     \/ SaveTurnFails("working", Prepared) /\ Goto("restore")
  /\ UNCHANGED <<ledger, pane, typed, heard, proof>>

\* The failed preparation puts the previous ledger back and throws.
RestoreLedger ==
  /\ At("restore")
  /\ \/ Save(Restored) /\ UNCHANGED budget
     \/ SaveFails(Restored)
  /\ Done
  /\ UNCHANGED <<turn, pane, typed, heard, proof>>

\* Bookkeeping or a check of the terminal fails before any input.
ZeroInput ==
  /\ At("ready")
  /\ Goto("abort")
  /\ UNCHANGED <<ledger, turn, pane, typed, heard, proof, budget>>

AbortLedger ==
  /\ At("abort")
  /\ \/ /\ Save(Restored)
        /\ op' = [op EXCEPT !.pc = "aborted", !.safe = TRUE]
        /\ UNCHANGED budget
     \/ SaveFails(Restored) /\ Goto("aborted")
  /\ UNCHANGED <<turn, pane, typed, heard, proof>>

AbortState ==
  /\ At("aborted")
  /\ LET s == Submission("aborted", "prepared", op.safe)
     IN \/ SaveTurn(op.back, s) /\ UNCHANGED budget
        \/ SaveTurnFails(op.back, s)
  /\ Done
  /\ UNCHANGED <<ledger, pane, typed, heard, proof>>

-----------------------------------------------------------------------------
(* Terminal input *)

More(count, m) == [count EXCEPT ![m] = IF @ < 2 THEN @ + 1 ELSE 2]

Fails(stage) == op' = [op EXCEPT !.pc = "uncertain", !.stage = stage]

\* Mutant: an error of the delivery is taken for zero input.
DeliverTextOrAbort ==
  /\ At("ready")
  /\ pane.anchor = op.anchor
  /\ \/ Goto("typed") /\ UNCHANGED budget
     \/ Goto("abort") /\ Spend("faults")
  /\ pane' = [pane EXCEPT !.draft = @ \cup {op.msg}]
  /\ typed' = More(typed, op.msg)
  /\ UNCHANGED <<ledger, turn, heard, proof>>

\* The text goes into the composer; an error leaves open whether it did.
DeliverText ==
  /\ At("ready")
  /\ pane.anchor = op.anchor
  /\ \/ Goto("typed") /\ UNCHANGED budget
     \/ Fails("prepared") /\ Spend("faults")
  /\ pane' = [pane EXCEPT !.draft = @ \cup {op.msg}]
  /\ typed' = More(typed, op.msg)
  /\ UNCHANGED <<ledger, turn, heard, proof>>

TextNotDelivered ==
  /\ At("ready")
  /\ Fails("prepared")
  /\ Spend("faults")
  /\ UNCHANGED <<ledger, turn, pane, typed, heard, proof>>

Reached(stage) == Submission(stage, stage, FALSE)

SaveTextState ==
  /\ At("typed")
  /\ LET s == Reached("text_injected")
     IN \/ SaveTurn("working", s) /\ Goto("text_ledger") /\ UNCHANGED budget
        \/ SaveTurnFails("working", s) /\ Fails("text_injected")
  /\ UNCHANGED <<ledger, pane, typed, heard, proof>>

SaveTextLedger ==
  /\ At("text_ledger")
  /\ \/ Save(Dispatch("text_injected")) /\ Goto("text") /\ UNCHANGED budget
     \/ SaveFails(Dispatch("text_injected")) /\ Fails("text_injected")
  /\ UNCHANGED <<turn, pane, typed, heard, proof>>

\* The composer or the agent's identity cannot be verified: Enter is not pressed.
PreKeyFailure ==
  /\ At("text")
  /\ Fails("text_injected")
  /\ UNCHANGED <<ledger, turn, pane, typed, heard, proof, budget>>

\* What is in the composer is submitted as one prompt; the transcript proves a
\* message only when it is the whole prompt.
Submit ==
  /\ heard' = [m \in Msgs |->
                 IF m \in pane.draft THEN More(heard, m)[m] ELSE heard[m]]
  /\ proof' = IF Cardinality(pane.draft) = 1 THEN proof \cup pane.draft
                                             ELSE proof
  /\ pane' = [pane EXCEPT !.draft = {}]

\* The key is sent; the agent takes the prompt or leaves it in the composer.
PressEnter ==
  /\ At("text")
  /\ pane.anchor = op.anchor
  /\ \/ Goto("entered") /\ UNCHANGED budget
     \/ Fails("text_injected") /\ Spend("faults")
  /\ Submit \/ UNCHANGED <<pane, heard, proof>>
  /\ UNCHANGED <<ledger, turn, typed>>

SaveEnterState ==
  /\ At("entered")
  /\ LET s == Reached("enter_dispatched")
     IN \/ SaveTurn("working", s) /\ Goto("enter_ledger") /\ UNCHANGED budget
        \/ SaveTurnFails("working", s) /\ Fails("enter_dispatched")
  /\ UNCHANGED <<ledger, pane, typed, heard, proof>>

SaveEnterLedger ==
  /\ At("enter_ledger")
  /\ \/ Save(Dispatch("enter_dispatched")) /\ Goto("enter") /\ UNCHANGED budget
     \/ SaveFails(Dispatch("enter_dispatched")) /\ Fails("enter_dispatched")
  /\ UNCHANGED <<turn, pane, typed, heard, proof>>

-----------------------------------------------------------------------------
(* Acceptance *)

\* What the transcript and the composer show of message m.
Seen(m, outcome) ==
  \/ outcome = "agent_accepted" /\ m \in proof
  \/ outcome = "not_accepted" /\ m \notin proof /\ pane.draft = {m}

Resolved(outcome) ==
  CASE outcome = "uncertain" -> Submission(outcome, "enter_dispatched", FALSE)
    [] outcome = "not_accepted" -> Submission(outcome, "enter_dispatched", FALSE)
    [] OTHER -> Reached(outcome)

\* Mutant: the outcome of the submission becomes the status of the Turn.
PhaseIsOutcome(outcome) == IF outcome \in Entered THEN "working" ELSE outcome

PhaseAfter(outcome) == IF outcome \in Entered THEN "working" ELSE "stalled"

\* The Send polls for acceptance: proven, refuted, unreadable or still pending.
PollAcceptance(outcome) ==
  /\ At("enter")
  /\ \/ Seen(op.msg, outcome) /\ pane.anchor = op.anchor
     \/ outcome \in {"uncertain", "enter_dispatched"}
  /\ \/ /\ SaveTurn(PhaseAfter(outcome), Resolved(outcome))
        /\ op' = [op EXCEPT !.pc = "final", !.outcome = outcome]
        /\ UNCHANGED budget
     \/ /\ SaveTurnFails(PhaseAfter(outcome), Resolved(outcome))
        /\ Fails("enter_dispatched")
  /\ UNCHANGED <<ledger, pane, typed, heard, proof>>

\* Enter was sent, but the native session that took the message cannot be bound:
\* uncertain, written below.  The code repeats the two writes once when one of
\* them throws, which leaves nothing the failed write could not leave.
IdentityFailure ==
  /\ At("enter")
  /\ Fails("enter_dispatched")
  /\ UNCHANGED <<ledger, turn, pane, typed, heard, proof, budget>>

\* The last ledger write is best effort.
SaveFinalLedger ==
  /\ At("final")
  /\ \/ Save(Dispatch(op.outcome)) /\ UNCHANGED budget
     \/ SaveFails(Dispatch(op.outcome))
  /\ Done
  /\ UNCHANGED <<turn, pane, typed, heard, proof>>

\* Once input may have begun every failure is uncertain: the ledger first.
SaveUncertainLedger ==
  /\ At("uncertain")
  /\ \/ Save(Dispatch("uncertain")) /\ Goto("stall") /\ UNCHANGED budget
     \/ SaveFails(Dispatch("uncertain")) /\ Done
  /\ UNCHANGED <<turn, pane, typed, heard, proof>>

SaveUncertainState ==
  /\ At("stall")
  /\ LET s == Submission("uncertain", op.stage, FALSE)
     IN \/ SaveTurn("stalled", s) /\ UNCHANGED budget
        \/ SaveTurnFails("stalled", s)
  /\ Done
  /\ UNCHANGED <<ledger, pane, typed, heard, proof>>

-----------------------------------------------------------------------------
(* The monitor of a Turn, when no dispatcher is alive *)

Mark(t, outcome, stage) ==
  [NoOp EXCEPT !.turn = t, !.msg = turn[t].msg, !.anchor = turn[t].anchor,
               !.outcome = outcome, !.stage = stage]

Monitored(t) == turn[t].phase \notin {"absent", "closed"}

\* Mutant: only a Turn whose message the ledger holds is settled.
RecoverOwnPreparedTurn(t) ==
  /\ At("none")
  /\ Monitored(t)
  /\ Current(t).status = "prepared"
  /\ ledger.msg = turn[t].msg
  /\ op' = [Mark(t, "none", "prepared") EXCEPT !.pc = "stall"]
  /\ Save([ledger EXCEPT !.status = "uncertain"])
  /\ UNCHANGED <<turn, budget, pane, typed, heard, proof>>

\* The Turn is still "prepared": its dispatcher died before it could prove
\* what it did.  Ledger first, unless another message owns it.  (A ledger that
\* proves more than its Turn is ruled out by AcceptanceIsProven.)
RecoverPreparedTurn(t) ==
  /\ At("none")
  /\ Monitored(t)
  /\ Current(t).status = "prepared"
  /\ LET m == turn[t].msg
         l == [ledger EXCEPT !.status = "uncertain", !.msg = m, !.turn = t,
                             !.anchor = turn[t].anchor]
     IN IF ledger.msg = m \/ ledger.status = "none"
        THEN Save(l) ELSE UNCHANGED ledger
  /\ op' = [Mark(t, "none", "prepared") EXCEPT !.pc = "stall"]
  /\ UNCHANGED <<turn, pane, typed, heard, proof, budget>>

\* Shared by the text-only Turn and by a failed reconciliation.
StallAs(t) ==
  /\ op' = [Mark(t, "none", Current(t).status) EXCEPT !.pc = "stall"]
  /\ IF ledger.msg = turn[t].msg
        /\ ledger.status \in {"text_injected", "enter_dispatched"}
     THEN Save([ledger EXCEPT !.status = "uncertain"])
     ELSE UNCHANGED ledger
  /\ UNCHANGED <<turn, pane, typed, heard, proof, budget>>

\* Enter was never proven, or the agent's identity can no longer be read.
MarkUncertain(t) ==
  /\ At("none")
  /\ Monitored(t)
  /\ Current(t).status \in {"text_injected", "enter_dispatched"}
  /\ StallAs(t)

\* Under the terminal lock alone: the transcript or the composer decides.
ObservePane(t, outcome) ==
  /\ At("none")
  /\ Monitored(t)
  /\ turn[t].anchor = pane.anchor
  /\ Current(t).status = "enter_dispatched"
  /\ Seen(turn[t].msg, outcome)
  /\ op' = [Mark(t, outcome, "prepared") EXCEPT !.pc = "observed"]
  /\ UNCHANGED <<ledger, turn, pane, typed, heard, proof, budget>>

\* The generation is checked again under the Store's lock; a Turn that was
\* closed meanwhile keeps what it has.
CommitObserved ==
  /\ At("observed")
  /\ LET l == Reconcile(ledger)
         same == /\ turn[op.turn].phase # "closed"
                 /\ l.msg = op.msg
                 /\ l.status = "enter_dispatched"
     IN IF same
        THEN /\ ledger' = l
             /\ SaveTurn(PhaseAfter(op.outcome), Resolved(op.outcome))
             /\ Goto("final")
             /\ UNCHANGED <<pane, typed, heard, proof, budget>>
        ELSE IF turn[op.turn].phase = "closed"
        THEN Done /\ UNCHANGED <<ledger, turn, pane, typed, heard, proof, budget>>
        ELSE StallAs(op.turn)

\* An accepted Turn: the ledger is brought up to date, and only when it proves
\* this message is the pane read for a result or a question.
PollTurn(t, phase) ==
  /\ At("none")
  /\ turn[t].phase = "working"
  /\ turn[t].anchor = pane.anchor
  /\ Current(t).status = "agent_accepted"
  /\ LET l == Reconcile(ledger)
         mine == l.status = "agent_accepted" /\ l.msg = turn[t].msg
     IN /\ ledger' = l
        /\ turn' = [turn EXCEPT ![t].phase = IF mine THEN phase ELSE @]
  /\ UNCHANGED <<op, pane, typed, heard, proof, budget>>

-----------------------------------------------------------------------------
(* The user *)

\* Close needs the lock of its Store only.  Its ledger write is best effort, and
\* it may be repeated.
Close(t) ==
  /\ op.pc = "observed" \/ op.turn \notin Mates(t)
  /\ turn[t].phase # "absent"
  /\ turn' = [turn EXCEPT ![t].phase = "closed"]
  /\ LET mine == ledger.turn = t /\ ledger.msg = turn[t].msg
         resolved == [ledger EXCEPT !.status = "resolved"]
     IN \/ /\ IF mine THEN Save(resolved) ELSE UNCHANGED ledger
           /\ UNCHANGED budget
        \/ mine /\ UNCHANGED ledger /\ Spend("faults")
  /\ UNCHANGED <<op, pane, typed, heard, proof>>

HumanSubmits ==
  /\ pane.draft # {}
  /\ Submit
  /\ UNCHANGED <<ledger, turn, op, typed, budget>>

HumanClears ==
  /\ pane.draft # {}
  /\ pane' = [pane EXCEPT !.draft = {}]
  /\ UNCHANGED <<ledger, turn, op, typed, heard, proof, budget>>

RestartAgent ==
  /\ Spend("restarts")
  /\ pane' = [anchor |-> pane.anchor + 1, draft |-> {}]
  /\ UNCHANGED <<ledger, turn, op, typed, heard, proof>>

Crash ==
  /\ op.pc # "none"
  /\ Spend("crashes")
  /\ Done
  /\ UNCHANGED <<ledger, turn, pane, typed, heard, proof>>

-----------------------------------------------------------------------------

Prepare == SavePreparedLedger \/ SavePreparedState \/ RestoreLedger

Abort == ZeroInput \/ AbortLedger \/ AbortState

Input ==
  \/ DeliverText \/ TextNotDelivered \/ SaveTextState \/ SaveTextLedger
  \/ PreKeyFailure \/ PressEnter \/ SaveEnterState \/ SaveEnterLedger

Outcomes == Entered \cup {"not_accepted", "uncertain"}

Settle ==
  \/ \E outcome \in Outcomes : PollAcceptance(outcome)
  \/ IdentityFailure
  \/ SaveFinalLedger \/ SaveUncertainLedger \/ SaveUncertainState

Monitor(t) ==
  \/ RecoverPreparedTurn(t)
  \/ MarkUncertain(t)
  \/ \E outcome \in {"agent_accepted", "not_accepted"} : ObservePane(t, outcome)
  \/ \E phase \in {"working", "idle", "asking"} : PollTurn(t, phase)

Next ==
  \/ \E t \in Turns, m \in Msgs : Send(t, m) \/ Answer(t, m)
  \/ Prepare \/ Abort \/ Input \/ Settle
  \/ \E t \in Turns : Monitor(t) \/ Close(t)
  \/ CommitObserved
  \/ HumanSubmits \/ HumanClears \/ RestartAgent \/ Crash

Spec == Init /\ [][Next]_vars

\* A transaction under way goes on unless its process dies.  The Host polls every
\* Turn that is not closed: a monitor that finds the terminal busy tries again,
\* and no controller keeps repeating a failing command without a gap.
FairSpec ==
  /\ Spec
  /\ WF_vars(Prepare \/ Abort \/ Input \/ Settle \/ CommitObserved)
  /\ \A t \in Turns :
       /\ SF_vars(RecoverPreparedTurn(t))
       /\ SF_vars(MarkUncertain(t) /\ Current(t).status = "text_injected")
       /\ SF_vars(PollTurn(t, "working"))

-----------------------------------------------------------------------------
(* Properties *)

SubmissionType ==
  [status : SubmissionStatuses \cup {"none"}, proven : Stages \cup
     {"none", "agent_accepted"}, safe : BOOLEAN]

LedgerType ==
  [status : SubmissionStatuses \cup {"none", "resolved"},
   msg : Msgs \cup {NoMsg}, turn : Turns \cup {NoTurn},
   proven : Stages \cup {"none", "agent_accepted"}, anchor : 0..MaxRestarts,
   receipts : [Msgs -> ReceiptStatuses \cup {"none"}]]

\* The records have their shape; a ledger that is not settled names a Turn.
TypeOK ==
  /\ ledger \in LedgerType
  /\ turn \in [Turns -> [phase : Blocking \cup Released \cup {"absent"},
                         msg : Msgs \cup {NoMsg}, anchor : 0..MaxRestarts,
                         sub : [Msgs -> SubmissionType]]]
  /\ op \in [pc : Pcs, turn : Turns \cup {NoTurn}, msg : Msgs \cup {NoMsg},
             anchor : 0..MaxRestarts, stage : Stages \cup {"agent_accepted"},
             outcome : Entered \cup Failures \cup {"none"}, safe : BOOLEAN,
             back : {"idle", "asking"}, prev : LedgerType]
  /\ pane \in [anchor : 0..MaxRestarts, draft : SUBSET Msgs]
  /\ typed \in [Msgs -> 0..2] /\ heard \in [Msgs -> 0..2]
  /\ proof \subseteq Msgs
  /\ budget \in [faults : 0..MaxFaults, crashes : 0..MaxCrashes,
                 restarts : 0..MaxRestarts]

\* However often a caller repeats a command with the same message id, whatever
\* dies or fails in between: the text is typed once at most, and the agent
\* receives it once at most.
TypedOnce == \A m \in Msgs : typed[m] <= 1 /\ heard[m] <= 1

Excused(n) ==
  \A t \in Holders(n) :
    \/ ~Binding(turn[t].sub[n])
    \/ turn[t].sub[n].status = "agent_accepted"
    \/ turn[t].phase = "closed"
    \/ turn[t].anchor # pane.anchor

\* Nothing is typed while an earlier message of the same agent process is
\* neither proven accepted nor given up by the user.
NothingTypedOverUnproven ==
  [][\A m \in Msgs : typed'[m] # typed[m] =>
       \A n \in Msgs \ {m} : typed[n] = 0 \/ Excused(n)]_vars

\* "Aborted, safe to retry" is written only for a message that was never typed
\* from that record.
SafeAbortIsUntyped ==
  \A t \in Turns, m \in Msgs :
    /\ turn[t].sub[m].status = "aborted"
    /\ turn[t].sub[m].safe
    /\ typed[m] > 0
    => \E u \in Turns : Binding(turn[u].sub[m]) /\ u \in Holders(m)

\* A prepared dispatch that recovery drops ("no terminal input was possible")
\* was not typed, unless the user closed it or the agent was replaced.
DroppedDispatchIsUntyped ==
  [][/\ ledger.status = "prepared"
     /\ ledger'.status = "resolved" \/ ledger'.msg # ledger.msg
     /\ ledger.anchor = pane.anchor
     /\ turn'[ledger.turn].phase # "closed"
     => typed[ledger.msg] = 0]_vars

\* Acceptance is recorded, anywhere, only for a message the transcript proves,
\* and in the ledger only after the Turn has it.
AcceptanceIsProven ==
  /\ \A t \in Turns, m \in Msgs :
       turn[t].sub[m].status = "agent_accepted" => m \in proof
  /\ \A m \in Msgs : ledger.receipts[m] = "agent_accepted" => m \in proof
  /\ ledger.status = "agent_accepted" =>
       turn[ledger.turn].sub[ledger.msg].status = "agent_accepted"

\* A Turn whose dispatcher died before Enter was proven does not stay so.
UnprovenIsSettled ==
  \A t \in Turns :
    (Monitored(t) /\ Current(t).status \in {"prepared", "text_injected"})
      ~> ~(Monitored(t) /\ Current(t).status \in {"prepared", "text_injected"})

AcceptedBehindLedger(t) ==
  /\ turn[t].phase = "working"
  /\ turn[t].anchor = pane.anchor
  /\ Current(t).status = "agent_accepted"
  /\ ledger.msg = turn[t].msg
  /\ ledger.status # "agent_accepted"

\* The ledger of an accepted Turn catches up: a lost last write is repaired by
\* the monitor before it reads a result from the pane.
LedgerCatchesUp == \A t \in Turns : AcceptedBehindLedger(t) ~> ~AcceptedBehindLedger(t)
=============================================================================

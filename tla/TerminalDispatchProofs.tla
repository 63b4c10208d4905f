----------------------- MODULE TerminalDispatchProofs -----------------------
(***************************************************************************)
(* Proofs about TerminalDispatch, for any Turns, messages and Stores and   *)
(* any number of failed writes, dead processes and replaced agents.  Each  *)
(* safety property follows from one inductive invariant, IInv.             *)
(***************************************************************************)
EXTENDS TerminalDispatch, TLAPS

-----------------------------------------------------------------------------
(* ---------------------- the inductive invariant ---------------------- *)

Sub(t, m) == turn[t].sub[m].status

\* A submission whose outcome is open.
Unsettled(t, m) == Sub(t, m) \notin {"none", "aborted", "agent_accepted"}

\* The steps of a transaction that has not begun to type.
Before == {"ledger", "state", "restore", "ready", "abort", "aborted"}

\* The steps of a transaction that may have typed.
After == {"typed", "text_ledger", "text", "entered", "enter_ledger", "enter",
          "uncertain", "stall"}

Named(l) == l.status \notin {"none", "resolved"} => l.turn \in Turns /\ l.msg \in Msgs

\* Documents name what they are about, restarts are counted, and nothing is
\* anchored to a later agent process than the one in the pane.
ShapeInv ==
  /\ Named(ledger)
  /\ op.pc \in Before => Named(op.prev)
  /\ op.pc # "none" => /\ op.turn \in Turns /\ op.msg \in Msgs
                       /\ Store[op.turn] = Store[op.msg]
  /\ pane.anchor + budget.restarts <= MaxRestarts
  /\ op.anchor <= pane.anchor
  /\ \A t \in Turns : turn[t].anchor <= pane.anchor

\* Only a message that is its Turn's current one has an open outcome, and at
\* most one Turn holds it then.
HolderInv ==
  /\ \A t \in Turns, m \in Msgs :
       /\ Sub(t, m) # "none" => turn[t].phase # "absent" /\ Store[t] = Store[m]
       /\ Unsettled(t, m) => /\ turn[t].msg = m
                             /\ turn[t].phase \in {"working", "stalled", "closed"}
  /\ \A t, u \in Turns, m \in Msgs :
       Sub(t, m) \notin {"none", "aborted"} /\ Sub(u, m) \notin {"none", "aborted"}
         => t = u

\* Whatever was typed is on record in a Turn; what is in the composer was not
\* submitted yet.
TypedInv ==
  \A m \in Msgs :
    /\ typed[m] <= 1 /\ heard[m] <= typed[m]
    /\ m \in pane.draft => typed[m] = 1 /\ heard[m] = 0
    /\ typed[m] > 0 =>
         /\ \E t \in Turns : Sub(t, m) \notin {"none", "aborted"}
         /\ \A t \in Turns : Sub(t, m) = "aborted" => turn[t].sub[m].safe

\* A transaction that has not typed: its message is new, everything else that
\* was typed is settled, and the previous ledger is about something else.
BeforeInv ==
  op.pc \in Before =>
    /\ typed[op.msg] = 0
    /\ \A n \in Msgs \ {op.msg} : typed[n] = 0 \/ Excused(n)
    /\ \A t \in Turns \ {op.turn} :
         Sub(t, op.msg) = "none" \/ ~Binding(turn[t].sub[op.msg])
    /\ turn[op.turn].phase # "closed"
    /\ op.pc \in {"ledger", "state"} => \A n \in Msgs : ~Unsettled(op.turn, n)
    /\ op.pc \in {"ledger", "state"} => Sub(op.turn, op.msg) \in {"none", "aborted"}
    /\ op.pc \in {"ready", "abort", "aborted"} => Sub(op.turn, op.msg) = "prepared"
    /\ op.pc \in {"state", "ready"} =>
         /\ ledger.status = "prepared" /\ ledger.turn = op.turn
         /\ ledger.msg = op.msg /\ ledger.anchor = op.anchor
    /\ op.prev.status \in {"none", "resolved", "aborted"} \cup Entered
    /\ op.prev.status = "agent_accepted" =>
         /\ Sub(op.prev.turn, op.prev.msg) = "agent_accepted"
         /\ ~(op.prev.turn = op.turn /\ op.prev.msg = op.msg)

\* A transaction that may have typed is the current one of its Turn.
AfterInv ==
  /\ op.pc \notin {"none", "ledger", "state", "restore"} =>
       /\ turn[op.turn].msg = op.msg /\ turn[op.turn].anchor = op.anchor
       /\ op.pc # "observed" => turn[op.turn].phase # "closed"
  /\ op.pc \in After \cup {"observed", "final"} =>
       Sub(op.turn, op.msg) \notin {"none", "aborted"}
  /\ op.pc \in {"typed", "text_ledger", "text", "entered", "enter_ledger", "enter"} =>
       Sub(op.turn, op.msg) # "agent_accepted"
  /\ op.pc = "observed" => Sub(op.turn, op.msg) = "enter_dispatched"
  /\ op.pc \in {"observed", "final"} => op.outcome \in Outcomes
  /\ op.pc \in {"text", "entered", "enter_ledger", "enter", "final"} =>
       ledger.receipts[op.msg] # "none"

Open == {"prepared", "text_injected", "enter_dispatched", "uncertain", "not_accepted"}

\* The ledger holds the pane for message m of Turn t.
HeldFor(t, m) ==
  /\ ledger.turn = t /\ ledger.msg = m /\ ledger.anchor = pane.anchor
  /\ ledger.status \in Open

\* Whatever was typed into this agent process without an outcome holds the pane.
PaneInv ==
  /\ \A t \in Turns, m \in Msgs :
       /\ typed[m] > 0 /\ Unsettled(t, m)
       /\ turn[t].phase # "closed" /\ turn[t].anchor = pane.anchor
       => HeldFor(t, m)
  /\ op.pc \in After /\ typed[op.msg] > 0 /\ op.anchor = pane.anchor
       => HeldFor(op.turn, op.msg)
  /\ op.pc \in (After \ {"stall"}) \cup {"final"} =>
       \A n \in Msgs \ {op.msg} : typed[n] = 0 \/ Excused(n)

\* A "prepared" ledger: of the transaction under way, or of a message whose
\* Turn tells whether it was typed.
PreparedInv ==
  ledger.status = "prepared" =>
    /\ op.pc # "ledger"
    /\ op.pc \notin {"none", "stall", "observed"} =>
         ledger.turn = op.turn /\ ledger.msg = op.msg
    /\ typed[ledger.msg] > 0 =>
         /\ turn[ledger.turn].msg = ledger.msg
         /\ turn[ledger.turn].phase # "absent"

\* Acceptance passes from the transcript to the Turn to the ledger.
AcceptedInv ==
  /\ AcceptanceIsProven
  /\ \A t \in Turns, m \in Msgs :
       Sub(t, m) = "agent_accepted" => ledger.receipts[m] # "none"
  /\ op.pc \in {"observed", "final"} /\ op.outcome = "agent_accepted" =>
       op.msg \in proof
  /\ op.pc = "final" /\ op.outcome = "agent_accepted" =>
       Sub(op.turn, op.msg) = "agent_accepted"
  /\ op.pc \notin {"none", "final"} =>
       ~(ledger.status = "agent_accepted" /\ ledger.turn = op.turn /\ ledger.msg = op.msg)

StableInv ==
  /\ ShapeInv /\ HolderInv /\ TypedInv /\ BeforeInv /\ AfterInv
  /\ PaneInv /\ PreparedInv /\ AcceptedInv

IInv == TypeOK /\ StableInv

-----------------------------------------------------------------------------
(* ------------------------- types of the records ------------------------- *)

TurnType ==
  [phase : Blocking \cup Released \cup {"absent"}, msg : Msgs \cup {NoMsg},
   anchor : 0..MaxRestarts, sub : [Msgs -> SubmissionType]]

OpType ==
  [pc : Pcs, turn : Turns \cup {NoTurn}, msg : Msgs \cup {NoMsg},
   anchor : 0..MaxRestarts, stage : Stages \cup {"agent_accepted"},
   outcome : Entered \cup Failures \cup {"none"}, safe : BOOLEAN,
   back : {"idle", "asking"}, prev : LedgerType]

\* What the history keeps of a message is a status of a receipt.
LEMMA MergeTyped ==
  ASSUME NEW old \in ReceiptStatuses \cup {"none"}, NEW new \in ReceiptStatuses
  PROVE  /\ Merge(old, new) \in ReceiptStatuses
         /\ Merge(old, new) = "agent_accepted" =>
              old = "agent_accepted" \/ new = "agent_accepted"
  BY DEF Merge, ReceiptStatuses, Entered, Failures

\* A document written over another says what it says of the current dispatch;
\* the history keeps every message, and acceptance enters it only with a
\* document that says so.
LEMMA OverFacts ==
  ASSUME NEW old \in LedgerType, NEW l \in LedgerType, Named(l)
  PROVE  /\ Over(old, l) \in LedgerType
         /\ Over(old, l).status = l.status
         /\ Over(old, l).msg = l.msg
         /\ Over(old, l).turn = l.turn
         /\ Over(old, l).proven = l.proven
         /\ Over(old, l).anchor = l.anchor
         /\ \A m \in Msgs : old.receipts[m] # "none" => Over(old, l).receipts[m] # "none"
         /\ \A m \in Msgs : Over(old, l).receipts[m] = "agent_accepted" =>
              \/ old.receipts[m] = "agent_accepted"
              \/ l.status = "agent_accepted" /\ l.msg = m
         /\ l.status \in ReceiptStatuses => Over(old, l).receipts[l.msg] # "none"
<1> DEFINE r == IF l.status \in ReceiptStatuses
                THEN [old.receipts EXCEPT ![l.msg] = Merge(@, l.status)]
                ELSE old.receipts
<1>1. old.receipts \in [Msgs -> ReceiptStatuses \cup {"none"}]
  BY DEF LedgerType
<1>2. l.status \in ReceiptStatuses => l.msg \in Msgs
  BY DEF Named, ReceiptStatuses, Entered, Failures
<1>3. l.status \in ReceiptStatuses =>
        /\ Merge(old.receipts[l.msg], l.status) \in ReceiptStatuses
        /\ Merge(old.receipts[l.msg], l.status) = "agent_accepted" =>
             old.receipts[l.msg] = "agent_accepted" \/ l.status = "agent_accepted"
  BY <1>1, <1>2, MergeTyped
<1>4. "none" \notin ReceiptStatuses
  BY DEF ReceiptStatuses, Entered, Failures
<1>5. /\ r \in [Msgs -> ReceiptStatuses \cup {"none"}]
      /\ \A m \in Msgs : old.receipts[m] # "none" => r[m] # "none"
      /\ \A m \in Msgs : r[m] = "agent_accepted" =>
           \/ old.receipts[m] = "agent_accepted"
           \/ l.status = "agent_accepted" /\ l.msg = m
      /\ l.status \in ReceiptStatuses => r[l.msg] # "none"
  BY <1>1, <1>2, <1>3, <1>4
<1>6. Over(old, l) = [l EXCEPT !.receipts = r]
  BY DEF Over
<1> HIDE DEF r
<1>7. /\ Over(old, l) \in LedgerType
      /\ Over(old, l).status = l.status
      /\ Over(old, l).msg = l.msg
      /\ Over(old, l).turn = l.turn
      /\ Over(old, l).proven = l.proven
      /\ Over(old, l).anchor = l.anchor
      /\ Over(old, l).receipts = r
  BY <1>5, <1>6 DEF LedgerType
<1> QED
  BY <1>5, <1>7

\* A submission record is well typed.
LEMMA SubmissionTyped ==
  ASSUME NEW status \in SubmissionStatuses \cup {"none"},
         NEW proven \in Stages \cup {"none", "agent_accepted"},
         NEW safe \in BOOLEAN
  PROVE  Submission(status, proven, safe) \in SubmissionType
  BY Zenon DEF Submission, SubmissionType

\* The current submission of a Turn is the one of its message.
LEMMA CurrentFacts ==
  ASSUME turn \in [Turns -> TurnType], NEW t \in Turns
  PROVE  /\ Current(t) \in SubmissionType
         /\ turn[t].msg \in Msgs => Current(t) = turn[t].sub[turn[t].msg]
         /\ Current(t).status # "none" => turn[t].msg \in Msgs
<1>1. /\ turn[t].msg \in Msgs \cup {NoMsg}
      /\ turn[t].sub \in [Msgs -> SubmissionType]
  BY DEF TurnType
<1>2. NoSubmission \in SubmissionType /\ NoSubmission.status = "none"
  <2>1. "none" \in SubmissionStatuses \cup {"none"}
        /\ "none" \in Stages \cup {"none", "agent_accepted"} /\ FALSE \in BOOLEAN
    OBVIOUS
  <2> QED
    BY <2>1, Zenon DEF NoSubmission, SubmissionType
<1> QED
  BY <1>1, <1>2, MsgAssumption DEF Current

-----------------------------------------------------------------------------
(* ------------------------------ recovery ------------------------------ *)

\* What a later process makes of document l, before it is written.
Recovered(l) ==
  CASE l.status = "prepared" -> RecoverPrepared(l)
    [] l.status \in ReceiptStatuses \ {"aborted"} -> RecoverLagging(l)
    [] OTHER -> l

\* Reconciling writes over the ledger, or leaves it.
LEMMA ReconcileIsOver ==
  ASSUME NEW l
  PROVE  Reconcile(l) = Over(l, Recovered(l))
  BY DEF Reconcile, Recovered

\* Message m is the current one of Turn t, in the agent process of the pane.
Live(t, m) ==
  /\ turn[t].msg = m /\ turn[t].phase # "absent" /\ turn[t].anchor = pane.anchor

\* A document that recovery must not drop: if it is "prepared", its Turn tells
\* about its message.
Kept(l) ==
  /\ l.status \notin {"none", "resolved"}
  /\ l.status = "prepared" =>
       turn[l.turn].msg = l.msg /\ turn[l.turn].phase # "absent"

\* What recovery may make of the current dispatch of document l.
Follows(l, r) ==
  /\ r.turn = l.turn /\ r.anchor = l.anchor
  /\ r.status = "prepared" => l.status = "prepared" /\ r.msg = l.msg
  /\ r.msg # l.msg => r.status = "agent_accepted"
  /\ l.status \in Open /\ Live(l.turn, l.msg) /\ Unsettled(l.turn, l.msg) =>
       r.status \in Open \ {"prepared"} /\ r.msg = l.msg
  /\ Kept(l) => r.status \notin {"none", "resolved"} /\ r.msg = l.msg
  /\ l.status \in Entered /\ Live(l.turn, l.msg) /\ Sub(l.turn, l.msg) = "agent_accepted" =>
       r.status = "agent_accepted" /\ r.msg = l.msg

\* The same with what the proofs need of the whole document r.
RecoveryFacts(l, r) ==
  /\ r \in LedgerType /\ Named(r) /\ r.receipts = l.receipts
  /\ r.status = "agent_accepted" =>
       \/ l.status = "agent_accepted" /\ r.msg = l.msg
       \/ Sub(r.turn, r.msg) = "agent_accepted"
  /\ Follows(l, r)

\* Recovery of a "prepared" ledger.
LEMMA RecoverPreparedFacts ==
  ASSUME turn \in [Turns -> TurnType], NEW l \in LedgerType, Named(l),
         l.status = "prepared"
  PROVE  RecoveryFacts(l, RecoverPrepared(l))
<1> DEFINE t == turn[l.turn]
           s == Current(l.turn)
           r == RecoverPrepared(l)
<1>1. l.turn \in Turns /\ l.msg \in Msgs
  BY DEF Named
<1>2. /\ s.status \in SubmissionStatuses \cup {"none"}
      /\ t.msg \in Msgs => s.status = Sub(l.turn, t.msg)
      /\ s.status # "none" => t.msg \in Msgs
  BY <1>1, CurrentFacts DEF SubmissionType, Sub
<1>3. CASE t.phase = "absent"
  <2>1. r = [l EXCEPT !.status = "resolved"]
    BY <1>3 DEF RecoverPrepared
  <2> QED
    BY <1>1, <1>3, <2>1 DEF RecoveryFacts, Follows, LedgerType, Named, Live, Kept, Entered
<1>4. CASE t.phase # "absent" /\ t.anchor # pane.anchor
  <2>1. r = l
    BY <1>4 DEF RecoverPrepared
  <2> QED
    BY <1>1, <1>4, <2>1 DEF RecoveryFacts, Follows, LedgerType, Named, Live, Kept, Entered
<1>5. CASE t.phase # "absent" /\ t.anchor = pane.anchor /\ t.msg = l.msg
  <2> DEFINE new == IF s.status \in Entered \cup {"text_injected"}
                    THEN s.status ELSE "uncertain"
  <2>1. r = [l EXCEPT !.status = new]
    BY <1>5 DEF RecoverPrepared
  <2>2. new \in Entered \cup {"text_injected", "uncertain"}
        /\ (new = "agent_accepted" <=> Sub(l.turn, l.msg) = "agent_accepted")
    BY <1>1, <1>2, <1>5 DEF Entered
  <2> HIDE DEF new
  <2> QED
    BY <1>1, <1>5, <2>1, <2>2
    DEF RecoveryFacts, Follows, LedgerType, Named, Live, Kept, Entered, Open, Unsettled,
        SubmissionStatuses, ReceiptStatuses, Failures
<1>6. CASE t.phase # "absent" /\ t.anchor = pane.anchor /\ t.msg # l.msg
  <2>1. r = IF s.status = "agent_accepted"
            THEN [l EXCEPT !.status = s.status, !.msg = t.msg]
            ELSE [l EXCEPT !.status = "resolved"]
    BY <1>6 DEF RecoverPrepared
  <2>2. CASE s.status = "agent_accepted"
    BY ZenonT(60), <1>1, <1>2, <1>6, <2>1, <2>2
    DEF RecoveryFacts, Follows, LedgerType, Named, Live, Kept, Entered, SubmissionStatuses, ReceiptStatuses
  <2>3. CASE s.status # "agent_accepted"
    BY <1>1, <1>6, <2>1, <2>3
    DEF RecoveryFacts, Follows, LedgerType, Named, Live, Kept, Entered
  <2> QED
    BY <2>2, <2>3
<1> QED
  BY <1>3, <1>4, <1>5, <1>6

\* Recovery of a ledger that may lag behind its Turn.
LEMMA RecoverLaggingFacts ==
  ASSUME turn \in [Turns -> TurnType], NEW l \in LedgerType, Named(l),
         l.status \in ReceiptStatuses \ {"aborted"}
  PROVE  RecoveryFacts(l, RecoverLagging(l))
<1> DEFINE s == Current(l.turn)
           r == RecoverLagging(l)
           ahead == Rank(s.status, s.proven) > Rank(l.status, l.proven)
<1>1. l.turn \in Turns /\ l.msg \in Msgs /\ l.status # "prepared"
  BY DEF Named, ReceiptStatuses, Entered, Failures
<1>2. /\ s.status \in SubmissionStatuses \cup {"none"}
      /\ s.proven \in Stages \cup {"none", "agent_accepted"}
      /\ turn[l.turn].msg \in Msgs => s.status = Sub(l.turn, turn[l.turn].msg)
  BY <1>1, CurrentFacts DEF SubmissionType, Sub
<1>3. CASE \/ turn[l.turn].msg # l.msg
           \/ turn[l.turn].anchor # pane.anchor
           \/ l.status = "agent_accepted"
  <2>1. r = l
    BY <1>3 DEF RecoverLagging
  <2> QED
    BY <1>1, <1>3, <2>1
    DEF RecoveryFacts, Follows, LedgerType, Named, Live, Kept, Entered, Open, ReceiptStatuses, Failures
<1>4. CASE /\ turn[l.turn].msg = l.msg
           /\ turn[l.turn].anchor = pane.anchor
           /\ l.status # "agent_accepted"
  <2>0. s.status = Sub(l.turn, l.msg)
    BY <1>1, <1>2, <1>4
  <2>1. CASE s.status = "agent_accepted"
    <3>1. r = [l EXCEPT !.status = "agent_accepted"]
      <4>1. /\ s.status \notin Failures
            /\ s.status \notin {"text_injected", "enter_dispatched"}
        BY <2>1 DEF Failures
      <4> QED
        BY <1>4, <2>1, <4>1, Zenon DEF RecoverLagging
    <3> QED
      BY <1>1, <1>4, <2>0, <2>1, <3>1
      DEF RecoveryFacts, Follows, LedgerType, Named, Kept, Entered, Unsettled, ReceiptStatuses,
          SubmissionStatuses
  <2>2. CASE s.status \in Failures \cup {"text_injected", "enter_dispatched"}
             /\ r = [l EXCEPT !.status = s.status, !.proven = s.proven]
    <3> DEFINE new == s.status
               proven == s.proven
    <3>1. /\ RecoverLagging(l) = [l EXCEPT !.status = new, !.proven = proven]
          /\ new \in Failures \cup {"text_injected", "enter_dispatched"}
          /\ proven \in Stages \cup {"none", "agent_accepted"}
          /\ new = Sub(l.turn, l.msg)
      BY <1>2, <2>0, <2>2
    <3> HIDE DEF new, proven
    <3> QED
      BY <1>1, <1>4, <3>1
      DEF RecoveryFacts, Follows, LedgerType, Named, Kept, Entered, Open, Unsettled, ReceiptStatuses,
          SubmissionStatuses, Failures, Live
  <2>3. CASE s.status # "agent_accepted" /\ r = l
    BY <1>1, <1>4, <2>0, <2>3
    DEF RecoveryFacts, Follows, LedgerType, Named, Live, Kept, Entered, Open, ReceiptStatuses, Failures,
        Unsettled
  <2>4. \/ s.status = "agent_accepted"
        \/ s.status \in Failures \cup {"text_injected", "enter_dispatched"}
           /\ r = [l EXCEPT !.status = s.status, !.proven = s.proven]
        \/ s.status # "agent_accepted" /\ r = l
    <3>1. CASE \/ s.status \in Failures
               \/ s.status \in {"text_injected", "enter_dispatched"} /\ ahead
      <4>1. s.status # "agent_accepted"
        BY <3>1 DEF Failures
      <4>2. r = [l EXCEPT !.status = s.status, !.proven = s.proven]
        BY <1>4, <3>1, <4>1, Zenon DEF RecoverLagging
      <4> HIDE DEF s, r, ahead
      <4> QED
        BY <3>1, <4>2
    <3>2. CASE ~(\/ s.status \in Failures
                 \/ s.status \in {"text_injected", "enter_dispatched"} /\ ahead)
               /\ s.status # "agent_accepted"
      <4>1. r = l
        BY <1>4, <3>2, Zenon DEF RecoverLagging
      <4> QED
        BY <3>2, <4>1
    <3> QED
      BY <3>1, <3>2
  <2> QED
    BY <2>1, <2>2, <2>3, <2>4
<1> QED
  BY <1>3, <1>4

\* Both recoveries together, as the preflight runs them.
LEMMA RecoveredFacts ==
  ASSUME turn \in [Turns -> TurnType], NEW l \in LedgerType, Named(l)
  PROVE  RecoveryFacts(l, Recovered(l))
<1>1. CASE l.status = "prepared"
  <2>1. "prepared" \notin ReceiptStatuses \ {"aborted"}
    BY DEF ReceiptStatuses, Entered, Failures
  <2>2. Recovered(l) = RecoverPrepared(l)
    BY <1>1, <2>1 DEF Recovered
  <2> QED
    BY <1>1, <2>2, RecoverPreparedFacts
<1>2. CASE l.status \in ReceiptStatuses \ {"aborted"}
  <2>1. l.status # "prepared"
    BY <1>2 DEF ReceiptStatuses, Entered, Failures
  <2>2. Recovered(l) = RecoverLagging(l)
    BY <1>2, <2>1 DEF Recovered
  <2> QED
    BY <1>2, <2>2, RecoverLaggingFacts
<1>3. CASE l.status # "prepared" /\ l.status \notin ReceiptStatuses \ {"aborted"}
  <2>1. Recovered(l) = l
    BY <1>3 DEF Recovered
  <2> QED
    BY <1>3, <2>1
    DEF RecoveryFacts, Follows, Open, Entered, Failures, ReceiptStatuses, Kept
<1> QED
  BY <1>1, <1>2, <1>3

\* A document whose claims of acceptance are true and which has heard of every
\* message that a Turn knows to be accepted.
Sound(l) ==
  /\ l \in LedgerType /\ Named(l)
  /\ l.status = "agent_accepted" => Sub(l.turn, l.msg) = "agent_accepted"
  /\ \A m \in Msgs : l.receipts[m] = "agent_accepted" => m \in proof
  /\ \A t \in Turns, m \in Msgs :
       Sub(t, m) = "agent_accepted" => l.receipts[m] # "none"

\* A Turn has a message accepted only with proof.
TurnsProven ==
  \A t \in Turns, m \in Msgs : Sub(t, m) = "agent_accepted" => m \in proof

\* Writing a document that claims no acceptance of its own keeps a sound ledger
\* sound.
LEMMA OverSound ==
  ASSUME NEW old \in LedgerType, Sound(old), TurnsProven, NEW l \in LedgerType, Named(l),
         l.status = "agent_accepted" => Sub(l.turn, l.msg) = "agent_accepted"
  PROVE  Sound(Over(old, l))
<1>1. l.status = "agent_accepted" => l.msg \in proof
  BY DEF Named, TurnsProven
<1>2. Named(Over(old, l))
  BY OverFacts DEF Named
<1> QED
  BY SMTT(30), <1>1, <1>2, OverFacts DEF Sound

\* Recovery keeps a sound document sound.
LEMMA ReconcileFacts ==
  ASSUME turn \in [Turns -> TurnType], TurnsProven, NEW l, Sound(l)
  PROVE  /\ Sound(Reconcile(l))
         /\ Follows(l, Reconcile(l))
         /\ Reconcile(l).status \in ReceiptStatuses =>
              Reconcile(l).receipts[Reconcile(l).msg] # "none"
         /\ \A m \in Msgs : l.receipts[m] # "none" => Reconcile(l).receipts[m] # "none"
<1> DEFINE r == Recovered(l)
<1>1. RecoveryFacts(l, r)
  BY RecoveredFacts DEF Sound
<1>2. r \in LedgerType /\ Named(r)
  BY <1>1 DEF RecoveryFacts
<1>3. r.status = "agent_accepted" => Sub(r.turn, r.msg) = "agent_accepted"
  BY <1>1 DEF RecoveryFacts, Sound, Follows
<1>4. Reconcile(l) = Over(l, r)
  BY ReconcileIsOver
<1>5. Sound(Over(l, r))
  BY <1>2, <1>3, OverSound DEF Sound
<1>6. Follows(l, Over(l, r))
  BY <1>1, <1>2, OverFacts DEF RecoveryFacts, Follows, Sound
<1> HIDE DEF r
<1>7. /\ Over(l, r).status \in ReceiptStatuses => Over(l, r).receipts[Over(l, r).msg] # "none"
      /\ \A m \in Msgs : l.receipts[m] # "none" => Over(l, r).receipts[m] # "none"
  <2>1. l \in LedgerType
    BY DEF Sound
  <2> QED
    BY <1>2, <2>1, OverFacts
<1> QED
  BY <1>4, <1>5, <1>6, <1>7

\* A document of an earlier agent process is resolved, others are left alone.
LEMMA ResolveFacts ==
  ASSUME NEW l, Sound(l), pane.anchor \in 0..MaxRestarts
  PROVE  /\ Sound(ResolveIncarnation(l))
         /\ l.anchor = pane.anchor => ResolveIncarnation(l) = l
         /\ ResolveIncarnation(l).status \in {l.status, "resolved"}
<1>1. CASE l.status \notin {"none", "resolved"} /\ l.anchor # pane.anchor
  <2>1. ResolveIncarnation(l) = [l EXCEPT !.status = "resolved", !.anchor = pane.anchor]
    BY <1>1 DEF ResolveIncarnation
  <2> QED
    BY ZenonT(60), <1>1, <2>1 DEF Sound, LedgerType, Named
<1>2. CASE ~(l.status \notin {"none", "resolved"} /\ l.anchor # pane.anchor)
  <2>1. ResolveIncarnation(l) = l
    BY <1>2 DEF ResolveIncarnation
  <2> QED
    BY <2>1
<1> QED
  BY <1>1, <1>2

\* What a Send makes of the ledger before it prepares: it is sound, drops no
\* dispatch it must keep, and an open one still holds the pane.
LEMMA ReconciledFacts ==
  ASSUME turn \in [Turns -> TurnType], TurnsProven, Sound(ledger),
         pane.anchor \in 0..MaxRestarts
  PROVE  /\ Sound(Reconciled)
         /\ \A m \in Msgs : ledger.receipts[m] # "none" => Reconciled.receipts[m] # "none"
         /\ ledger.anchor = pane.anchor /\ Kept(ledger) =>
              Reconciled.status \notin {"none", "resolved"} /\ Reconciled.msg = ledger.msg
         /\ /\ ledger.anchor = pane.anchor /\ ledger.status \in Open
            /\ Live(ledger.turn, ledger.msg) /\ Unsettled(ledger.turn, ledger.msg)
            => /\ Reconciled.status \in Open \ {"prepared"}
               /\ Reconciled.turn = ledger.turn
         /\ /\ ledger.anchor = pane.anchor /\ ledger.status \in Entered
            /\ Live(ledger.turn, ledger.msg) /\ Sub(ledger.turn, ledger.msg) = "agent_accepted"
            => /\ Reconciled.status = "agent_accepted"
               /\ Reconciled.turn = ledger.turn /\ Reconciled.msg = ledger.msg
<1> DEFINE l0 == ResolveIncarnation(ledger)
           l1 == Over(ledger, l0)
           l2 == Reconcile(l1)
           l3 == Reconcile(l2)
<1>0. Reconciled = l3
  BY DEF Reconciled
<1>1. Sound(l0) /\ (ledger.anchor = pane.anchor => l0 = ledger)
  BY ResolveFacts
<1>2. /\ Sound(l1)
      /\ l1.status = l0.status /\ l1.msg = l0.msg /\ l1.turn = l0.turn /\ l1.anchor = l0.anchor
      /\ \A m \in Msgs : ledger.receipts[m] # "none" => l1.receipts[m] # "none"
  <2>1. l0 \in LedgerType /\ Named(l0) /\ ledger \in LedgerType
        /\ (l0.status = "agent_accepted" => Sub(l0.turn, l0.msg) = "agent_accepted")
    BY <1>1 DEF Sound
  <2> HIDE DEF l0
  <2> QED
    BY <2>1, OverSound, OverFacts
<1> HIDE DEF l0, l1
<1>3. /\ Sound(l2) /\ Follows(l1, l2)
      /\ \A m \in Msgs : l1.receipts[m] # "none" => l2.receipts[m] # "none"
  BY <1>2, ReconcileFacts
<1> HIDE DEF l2
<1>4. /\ Sound(l3) /\ Follows(l2, l3)
      /\ \A m \in Msgs : l2.receipts[m] # "none" => l3.receipts[m] # "none"
  BY <1>3, ReconcileFacts
<1> HIDE DEF l3
<1>5. /\ Sound(l3)
      /\ \A m \in Msgs : ledger.receipts[m] # "none" => l3.receipts[m] # "none"
  BY <1>2, <1>3, <1>4
<1>6. ASSUME ledger.anchor = pane.anchor, Kept(ledger)
      PROVE  l3.status \notin {"none", "resolved"} /\ l3.msg = ledger.msg
  <2>1. Kept(l1) /\ l1.msg = ledger.msg
    BY <1>1, <1>2, <1>6 DEF Kept
  <2>2. Kept(l2) /\ l2.msg = ledger.msg
    BY <1>3, <2>1 DEF Follows, Kept
  <2> QED
    BY <1>4, <2>2 DEF Follows
<1>7. ASSUME ledger.anchor = pane.anchor, ledger.status \in Open,
             Live(ledger.turn, ledger.msg), Unsettled(ledger.turn, ledger.msg)
      PROVE  l3.status \in Open \ {"prepared"} /\ l3.turn = ledger.turn
  <2>1. l1.status \in Open /\ l1.turn = ledger.turn /\ l1.msg = ledger.msg
    BY <1>1, <1>2, <1>7
  <2>2. l2.status \in Open /\ l2.turn = ledger.turn /\ l2.msg = ledger.msg
    BY <1>3, <1>7, <2>1 DEF Follows
  <2> QED
    BY <1>4, <1>7, <2>2 DEF Follows
<1>8. ASSUME ledger.anchor = pane.anchor, ledger.status \in Entered,
             Live(ledger.turn, ledger.msg), Sub(ledger.turn, ledger.msg) = "agent_accepted"
      PROVE  /\ l3.status = "agent_accepted"
             /\ l3.turn = ledger.turn /\ l3.msg = ledger.msg
  <2>1. l1.status \in Entered /\ l1.turn = ledger.turn /\ l1.msg = ledger.msg
    BY <1>1, <1>2, <1>8
  <2>2. l2.status \in Entered /\ l2.turn = ledger.turn /\ l2.msg = ledger.msg
    BY <1>3, <1>8, <2>1 DEF Follows, Entered
  <2> QED
    BY <1>4, <1>8, <2>2 DEF Follows
<1> QED
  BY <1>0, <1>5, <1>6, <1>7, <1>8

-----------------------------------------------------------------------------
(* ------------------- the writes of the transaction ------------------- *)

\* The empty ledger.
LEMMA NoLedgerFacts ==
  /\ NoLedger \in LedgerType /\ Named(NoLedger)
  /\ NoLedger.status = "none" /\ NoLedger.msg = NoMsg /\ NoLedger.turn = NoTurn
  /\ NoLedger.anchor = 0 /\ NoLedger.receipts = [m \in Msgs |-> "none"]
  BY BoundAssumption DEF NoLedger, LedgerType, Named

\* No transaction.
LEMMA NoOpFacts ==
  /\ NoOp \in OpType
  /\ NoOp.pc = "none" /\ NoOp.turn = NoTurn /\ NoOp.msg = NoMsg /\ NoOp.anchor = 0
  /\ NoOp.outcome = "none" /\ NoOp.safe = FALSE
<1>1. /\ "none" \in Pcs /\ NoTurn \in Turns \cup {NoTurn} /\ NoMsg \in Msgs \cup {NoMsg}
      /\ 0 \in 0..MaxRestarts /\ "prepared" \in Stages \cup {"agent_accepted"}
      /\ "none" \in Entered \cup Failures \cup {"none"} /\ FALSE \in BOOLEAN
      /\ "idle" \in {"idle", "asking"} /\ NoLedger \in LedgerType
  BY NoLedgerFacts, BoundAssumption DEF Pcs, Stages
<1> QED
  BY <1>1, Zenon DEF NoOp, OpType

\* A step of the transaction changes only what it says.
LEMMA GotoFacts ==
  ASSUME NEW o \in OpType, NEW pc \in Pcs, NEW stage \in Stages \cup {"agent_accepted"},
         NEW outcome \in Entered \cup Failures \cup {"none"}
  PROVE  /\ [o EXCEPT !.pc = pc] \in OpType
         /\ [o EXCEPT !.pc = pc, !.stage = stage] \in OpType
         /\ [o EXCEPT !.pc = pc, !.outcome = outcome] \in OpType
         /\ [o EXCEPT !.pc = pc, !.safe = TRUE] \in OpType
<1>1. [o EXCEPT !.pc = pc, !.safe = TRUE] \in OpType
  <2>1. TRUE \in BOOLEAN
    OBVIOUS
  <2> QED
    BY <2>1, Zenon DEF OpType
<1> QED
  BY ZenonT(60), <1>1 DEF OpType

\* The transaction of a monitor.
LEMMA MarkFacts ==
  ASSUME turn \in [Turns -> TurnType], NEW t \in Turns, NEW pc \in Pcs,
         NEW stage \in Stages \cup {"agent_accepted"},
         NEW outcome \in Entered \cup Failures \cup {"none"}
  PROVE  /\ [Mark(t, outcome, stage) EXCEPT !.pc = pc] \in OpType
         /\ [Mark(t, outcome, stage) EXCEPT !.pc = pc].pc = pc
         /\ [Mark(t, outcome, stage) EXCEPT !.pc = pc].turn = t
         /\ [Mark(t, outcome, stage) EXCEPT !.pc = pc].msg = turn[t].msg
         /\ [Mark(t, outcome, stage) EXCEPT !.pc = pc].anchor = turn[t].anchor
         /\ [Mark(t, outcome, stage) EXCEPT !.pc = pc].outcome = outcome
<1>1. turn[t].msg \in Msgs \cup {NoMsg} /\ turn[t].anchor \in 0..MaxRestarts
  BY DEF TurnType
<1> DEFINE o == NoOp
<1>2. o \in OpType
  BY NoOpFacts
<1>3. Mark(t, outcome, stage) =
        [o EXCEPT !.turn = t, !.msg = turn[t].msg, !.anchor = turn[t].anchor,
                  !.outcome = outcome, !.stage = stage]
  BY DEF Mark
<1> HIDE DEF o
<1>4. /\ Mark(t, outcome, stage) \in OpType
      /\ Mark(t, outcome, stage).turn = t
      /\ Mark(t, outcome, stage).msg = turn[t].msg
      /\ Mark(t, outcome, stage).anchor = turn[t].anchor
      /\ Mark(t, outcome, stage).outcome = outcome
  BY <1>1, <1>2, <1>3 DEF OpType
<1> QED
  BY <1>4 DEF OpType

\* The document of the transaction under way.
LEMMA DispatchFacts ==
  ASSUME TypeOK, ShapeInv, op.pc # "none",
         NEW status \in SubmissionStatuses \cup {"none", "resolved"}
  PROVE  /\ Dispatch(status) \in LedgerType /\ Named(Dispatch(status))
         /\ Dispatch(status).status = status
         /\ Dispatch(status).msg = op.msg /\ op.msg \in Msgs
         /\ Dispatch(status).turn = op.turn /\ op.turn \in Turns
         /\ Dispatch(status).anchor = op.anchor
<1>1. op.turn \in Turns /\ op.msg \in Msgs
  BY DEF ShapeInv
<1>2. op.anchor \in 0..MaxRestarts
  BY DEF TypeOK
<1>3. ledger.receipts \in [Msgs -> ReceiptStatuses \cup {"none"}]
  BY DEF TypeOK, LedgerType
<1> QED
  BY <1>1, <1>2, <1>3 DEF Dispatch, LedgerType, Named

\* The previous document, or a resolved one when there was none.
LEMMA RestoredFacts ==
  ASSUME TypeOK, ShapeInv, op.pc \in Before
  PROVE  /\ Restored \in LedgerType /\ Named(Restored)
         /\ \/ Restored.status = "resolved"
            \/ /\ op.prev.status # "none" /\ Restored.status = op.prev.status
               /\ Restored.msg = op.prev.msg /\ Restored.turn = op.prev.turn
               /\ Restored.anchor = op.prev.anchor
<1>1. op.prev \in LedgerType /\ Named(op.prev)
  BY DEF TypeOK, ShapeInv
<1>2. CASE op.prev.status = "none"
  <2> DEFINE o == NoLedger
  <2>1. Restored = [o EXCEPT !.status = "resolved", !.anchor = op.anchor]
    BY <1>2 DEF Restored
  <2>2. o \in LedgerType
    BY NoLedgerFacts
  <2>3. op.anchor \in 0..MaxRestarts
    BY DEF TypeOK
  <2> HIDE DEF o
  <2> QED
    BY <2>1, <2>2, <2>3 DEF LedgerType, Named
<1>3. CASE op.prev.status # "none"
  BY <1>1, <1>3 DEF Restored
<1> QED
  BY <1>2, <1>3

\* A write of the ledger took effect, or it did not.
LEMMA LedgerWrite ==
  ASSUME ledger \in LedgerType, Named(ledger), NEW l \in LedgerType, Named(l),
         ledger' \in {ledger, Over(ledger, l)}
  PROVE  /\ ledger' \in LedgerType /\ Named(ledger')
         /\ \/ ledger' = ledger
            \/ /\ ledger'.status = l.status /\ ledger'.msg = l.msg
               /\ ledger'.turn = l.turn /\ ledger'.anchor = l.anchor
         /\ \A m \in Msgs : ledger.receipts[m] # "none" => ledger'.receipts[m] # "none"
         /\ \A m \in Msgs : ledger'.receipts[m] = "agent_accepted" =>
              \/ ledger.receipts[m] = "agent_accepted"
              \/ l.status = "agent_accepted" /\ l.msg = m
<1>1. CASE ledger' = ledger
  BY <1>1
<1>2. CASE ledger' = Over(ledger, l)
  BY SMTT(30), <1>2, OverFacts DEF Named
<1> QED
  BY <1>1, <1>2

\* A write of a Turn took effect, or it did not.
LEMMA TurnWrite ==
  ASSUME turn \in [Turns -> TurnType], NEW t \in Turns, NEW m \in Msgs,
         NEW a \in 0..MaxRestarts, NEW phase \in Blocking \cup Released,
         NEW s \in SubmissionType,
         turn' \in {turn, Saved(t, a, m, phase, s)}
  PROVE  /\ turn' \in [Turns -> TurnType]
         /\ \A u \in Turns \ {t} : turn'[u] = turn[u]
         /\ \A n \in Msgs \ {m} : turn'[t].sub[n] = turn[t].sub[n]
         /\ \/ turn' = turn
            \/ /\ turn'[t].phase = phase /\ turn'[t].msg = m /\ turn'[t].anchor = a
               /\ turn'[t].sub[m] = s
<1>1. CASE turn' = turn
  BY <1>1
<1>2. CASE turn' = Saved(t, a, m, phase, s)
  <2> DEFINE x == [phase |-> phase, msg |-> m, anchor |-> a,
                   sub |-> [turn[t].sub EXCEPT ![m] = s]]
  <2>1. turn' = [turn EXCEPT ![t] = x]
    BY <1>2 DEF Saved
  <2>2. turn[t].sub \in [Msgs -> SubmissionType]
    BY DEF TurnType
  <2>3. /\ x \in TurnType
        /\ x.phase = phase /\ x.msg = m /\ x.anchor = a /\ x.sub[m] = s
        /\ \A n \in Msgs \ {m} : x.sub[n] = turn[t].sub[n]
    BY <2>2 DEF TurnType
  <2> HIDE DEF x
  <2> QED
    BY <2>1, <2>3
<1> QED
  BY <1>1, <1>2

-----------------------------------------------------------------------------
(* ----------------------------- types hold ----------------------------- *)

PaneType == [anchor : 0..MaxRestarts, draft : SUBSET Msgs]

BudgetType == [faults : 0..MaxFaults, crashes : 0..MaxCrashes, restarts : 0..MaxRestarts]

\* TypeOK by variable, for a state ...
LEMMA TypeParts ==
  TypeOK <=>
    /\ ledger \in LedgerType /\ turn \in [Turns -> TurnType] /\ op \in OpType
    /\ pane \in PaneType
    /\ typed \in [Msgs -> 0..2] /\ heard \in [Msgs -> 0..2]
    /\ proof \subseteq Msgs /\ budget \in BudgetType
  BY DEF TypeOK, TurnType, OpType, PaneType, BudgetType

\* ... and for its successor.
LEMMA TypePartsNext ==
  TypeOK' <=>
    /\ ledger' \in LedgerType /\ turn' \in [Turns -> TurnType] /\ op' \in OpType
    /\ pane' \in PaneType
    /\ typed' \in [Msgs -> 0..2] /\ heard' \in [Msgs -> 0..2]
    /\ proof' \subseteq Msgs /\ budget' \in BudgetType
  BY DEF TypeOK, TurnType, OpType, PaneType, BudgetType, LedgerType

\* Spending from the budget keeps it typed.
LEMMA SpendTyped ==
  ASSUME budget \in BudgetType, NEW what \in {"faults", "crashes", "restarts"}, Spend(what)
  PROVE  /\ budget' \in BudgetType
         /\ what # "restarts" => budget'.restarts = budget.restarts
         /\ what = "restarts" => /\ budget.restarts > 0
                                 /\ budget'.restarts = budget.restarts - 1
  BY BoundAssumption DEF Spend, BudgetType

\* What is submitted was in the composer.
LEMMA SubmitTyped ==
  ASSUME pane \in PaneType, heard \in [Msgs -> 0..2], proof \subseteq Msgs, Submit
  PROVE  /\ pane' \in PaneType /\ heard' \in [Msgs -> 0..2] /\ proof' \subseteq Msgs
         /\ pane'.anchor = pane.anchor /\ pane'.draft = {}
         /\ proof \subseteq proof'
         /\ \A m \in Msgs : heard'[m] = IF m \in pane.draft
                                        THEN IF heard[m] < 2 THEN heard[m] + 1 ELSE 2
                                        ELSE heard[m]
<1>1. pane' = [pane EXCEPT !.draft = {}]
  BY DEF Submit
<1>2. proof' = IF Cardinality(pane.draft) = 1 THEN proof \cup pane.draft ELSE proof
  BY DEF Submit
<1>3. pane.draft \subseteq Msgs
  BY DEF PaneType
<1>4. \A m \in Msgs : More(heard, m)[m] = IF heard[m] < 2 THEN heard[m] + 1 ELSE 2
  BY DEF More
<1>5. heard' = [m \in Msgs |->
                 IF m \in pane.draft THEN More(heard, m)[m] ELSE heard[m]]
  BY DEF Submit
<1>6. heard' \in [Msgs -> 0..2]
  BY <1>4, <1>5
<1>7. pane' \in PaneType /\ pane'.anchor = pane.anchor /\ pane'.draft = {}
  BY <1>1 DEF PaneType
<1>8. proof' \subseteq Msgs /\ proof \subseteq proof'
  BY <1>2, <1>3
<1> QED
  BY <1>4, <1>5, <1>6, <1>7, <1>8

\* The current submission of a Turn that the transaction under way is about.
LEMMA OpTurn ==
  ASSUME TypeOK, StableInv, op.pc # "none"
  PROVE  /\ op.turn \in Turns /\ op.msg \in Msgs /\ op.anchor \in 0..MaxRestarts
         /\ op.pc = "observed" => Current(op.turn).status = "enter_dispatched"
         /\ op.outcome \in Entered \cup Failures \cup {"none"}
<1>1. op.turn \in Turns /\ op.msg \in Msgs /\ op.anchor \in 0..MaxRestarts
  BY DEF TypeOK, StableInv, ShapeInv
<1>2. op.outcome \in Entered \cup Failures \cup {"none"}
  BY DEF TypeOK
<1>3. ASSUME op.pc = "observed"
      PROVE  Current(op.turn).status = "enter_dispatched"
  <2>1. turn[op.turn].msg = op.msg /\ Sub(op.turn, op.msg) = "enter_dispatched"
    BY <1>3 DEF StableInv, AfterInv
  <2> QED
    BY <1>1, <2>1, MsgAssumption DEF Current, Sub
<1> QED
  BY <1>1, <1>2, <1>3

\* The invariant gives the premises of the lemmas about recovery.
LEMMA SoundLedger ==
  ASSUME TypeOK, StableInv
  PROVE  Sound(ledger) /\ TurnsProven
  BY DEF TypeOK, StableInv, ShapeInv, AcceptedInv, AcceptanceIsProven, Sound, TurnsProven, Sub

\* The sets of statuses, written out.
LEMMA StatusSets ==
  /\ Stages \subseteq SubmissionStatuses \cup {"none", "agent_accepted"}
  /\ ReceiptStatuses \subseteq SubmissionStatuses
  /\ Entered \cup Failures \subseteq ReceiptStatuses
  /\ {"prepared", "text_injected", "enter_dispatched", "uncertain", "not_accepted", "aborted"}
       \subseteq SubmissionStatuses
  /\ {"prepared", "text_injected", "enter_dispatched"} = Stages
  BY DEF Stages, SubmissionStatuses, ReceiptStatuses, Entered, Failures

\* The submission and the phase that an outcome leaves.
LEMMA ResolvedFacts ==
  ASSUME NEW outcome \in Outcomes
  PROVE  /\ Resolved(outcome) \in SubmissionType
         /\ Resolved(outcome).status = outcome
         /\ PhaseAfter(outcome) \in {"working", "stalled"}
<1>1. CASE outcome \in {"uncertain", "not_accepted"}
  <2>1. Resolved(outcome) = Submission(outcome, "enter_dispatched", FALSE)
    BY <1>1 DEF Resolved
  <2>2. Submission(outcome, "enter_dispatched", FALSE) \in SubmissionType
    BY <1>1, StatusSets, SubmissionTyped
  <2> QED
    BY <2>1, <2>2 DEF Submission, PhaseAfter
<1>2. CASE outcome \in Entered
  <2>1. Resolved(outcome) = Submission(outcome, outcome, FALSE)
    BY <1>2 DEF Resolved, Reached, Entered
  <2>2. outcome \in SubmissionStatuses /\ outcome \in Stages \cup {"agent_accepted"}
    BY <1>2, StatusSets DEF Entered, Stages
  <2>3. Submission(outcome, outcome, FALSE) \in SubmissionType
    BY <2>2, SubmissionTyped
  <2> QED
    BY <2>1, <2>3 DEF Submission, PhaseAfter
<1> QED
  BY <1>1, <1>2 DEF Outcomes

\* Every action keeps the types.
LEMMA TypeStep ==
  ASSUME IInv, [Next]_vars
  PROVE  TypeOK'
<1> USE DEF At
<1>0. TypeOK /\ StableInv
  BY DEF IInv
<1>1. /\ ledger \in LedgerType /\ Named(ledger) /\ turn \in [Turns -> TurnType] /\ op \in OpType
      /\ pane \in PaneType /\ typed \in [Msgs -> 0..2] /\ heard \in [Msgs -> 0..2]
      /\ proof \subseteq Msgs /\ budget \in BudgetType /\ ShapeInv
  BY <1>0, TypeParts DEF StableInv, ShapeInv
<1>2. /\ Sound(ledger) /\ TurnsProven /\ pane.anchor \in 0..MaxRestarts
  BY <1>0, <1>1, SoundLedger DEF PaneType
<1>3. ASSUME op.pc # "none"
      PROVE  /\ op.turn \in Turns /\ op.msg \in Msgs /\ op.anchor \in 0..MaxRestarts
             /\ op.outcome \in Entered \cup Failures \cup {"none"}
  BY <1>0, <1>3, OpTurn
<1>4. ASSUME NEW stage \in Stages \cup {"agent_accepted"}, Fails(stage)
      PROVE  op' \in OpType
  BY <1>1, <1>4, GotoFacts DEF Fails, Pcs
<1>5. ASSUME NEW pc \in Pcs, Goto(pc)
      PROVE  op' \in OpType
  BY <1>1, <1>5, GotoFacts DEF Goto
<1>6. ASSUME NEW l \in LedgerType, Named(l), Save(l) \/ SaveFails(l)
      PROVE  /\ ledger' \in LedgerType
             /\ SaveFails(l) => budget' \in BudgetType
  <2>1. ledger' \in {ledger, Over(ledger, l)}
    BY <1>6 DEF Save, SaveFails
  <2>2. ledger' \in LedgerType
    BY <1>1, <1>6, <2>1, LedgerWrite
  <2>3. SaveFails(l) => budget' \in BudgetType
    BY <1>1, SpendTyped DEF SaveFails
  <2> QED
    BY <2>2, <2>3
<1>7. ASSUME op.pc # "none", NEW phase \in Blocking \cup Released, NEW s \in SubmissionType,
             SaveTurn(phase, s) \/ SaveTurnFails(phase, s)
      PROVE  /\ turn' \in [Turns -> TurnType]
             /\ SaveTurnFails(phase, s) => budget' \in BudgetType
  <2>1. turn' \in {turn, Saved(op.turn, op.anchor, op.msg, phase, s)}
    BY <1>7 DEF SaveTurn, SaveTurnFails
  <2>2. turn' \in [Turns -> TurnType]
    BY <1>1, <1>3, <1>7, <2>1, TurnWrite
  <2>3. SaveTurnFails(phase, s) => budget' \in BudgetType
    BY <1>1, SpendTyped DEF SaveTurnFails
  <2> QED
    BY <2>2, <2>3
<1>8. ASSUME NEW status \in {"prepared", "text_injected", "enter_dispatched", "uncertain"}
             \cup Entered \cup Failures \cup {"none"}, op.pc # "none"
      PROVE  Dispatch(status) \in LedgerType /\ Named(Dispatch(status))
  BY <1>0, <1>1, <1>8, DispatchFacts, StatusSets
<1>9. ASSUME NEW stage \in Stages
      PROVE  Reached(stage) \in SubmissionType
  BY <1>9, StatusSets, SubmissionTyped DEF Reached
<1>10. NoOp \in OpType
  BY NoOpFacts
<1>11. "working" \in Blocking /\ "stalled" \in Blocking /\ "idle" \in Released
       /\ "asking" \in Blocking
  BY DEF Blocking, Released
<1>12. ASSUME UNCHANGED vars PROVE TypeOK'
  BY <1>1, <1>12, TypePartsNext DEF vars
<1>13. ASSUME NEW t \in Turns, NEW m \in Msgs, NEW back \in {"idle", "asking"}, Begin(t, m, back)
       PROVE  TypeOK'
  <2> DEFINE l == Reconciled
             o == NoOp
             a == pane.anchor
  <2>1. l \in LedgerType
    BY <1>1, <1>2, ReconciledFacts DEF Sound
  <2>2. ledger' = l /\ op' = [o EXCEPT !.pc = "ledger", !.turn = t, !.msg = m,
                              !.anchor = a, !.prev = l, !.back = back]
    BY <1>13 DEF Begin
  <2>3. o \in OpType /\ a \in 0..MaxRestarts
    BY <1>2, <1>10
  <2> HIDE DEF l, o, a
  <2>4. op' \in OpType
    BY <2>1, <2>2, <2>3 DEF OpType, Pcs
  <2> QED
    BY <1>1, <1>13, <2>1, <2>2, <2>4, TypePartsNext DEF Begin
<1>14. ASSUME NEW t \in Turns, NEW m \in Msgs, Send(t, m) \/ Answer(t, m)
       PROVE  TypeOK'
  BY <1>13, <1>14 DEF Send, Answer
<1>15. ASSUME Prepare PROVE TypeOK'
  <2>1. CASE SavePreparedLedger
    BY <1>1, <1>5, <1>6, <1>8, <2>1, TypePartsNext DEF SavePreparedLedger, Pcs
  <2>2. CASE SavePreparedState
    <3>1. Prepared \in SubmissionType
      BY StatusSets, SubmissionTyped DEF Prepared
    <3> QED
      BY <1>1, <1>5, <1>7, <1>11, <2>2, <3>1, TypePartsNext DEF SavePreparedState, Pcs
  <2>3. CASE RestoreLedger
    <3>1. Restored \in LedgerType /\ Named(Restored)
      BY <1>0, <1>1, <2>3, RestoredFacts DEF RestoreLedger, Before
    <3> QED
      BY <1>1, <1>6, <1>10, <2>3, <3>1, TypePartsNext DEF RestoreLedger, Done
  <2> QED
    BY <1>15, <2>1, <2>2, <2>3 DEF Prepare
<1>16. ASSUME Abort PROVE TypeOK'
  <2>1. CASE ZeroInput
    BY <1>1, <1>5, <2>1, TypePartsNext DEF ZeroInput, Pcs
  <2>2. CASE AbortLedger
    <3>1. Restored \in LedgerType /\ Named(Restored)
      BY <1>0, <1>1, <2>2, RestoredFacts DEF AbortLedger, Before
    <3>2. op' \in OpType
      BY <1>1, <1>5, <2>2, GotoFacts DEF AbortLedger, Pcs
    <3> QED
      BY <1>1, <1>6, <2>2, <3>1, <3>2, TypePartsNext DEF AbortLedger
  <2>3. CASE AbortState
    <3>1. op.back \in Blocking \cup Released /\ op.safe \in BOOLEAN /\ op.pc # "none"
      BY <1>1, <1>11, <2>3 DEF OpType, AbortState
    <3>2. Submission("aborted", "prepared", op.safe) \in SubmissionType
      BY <3>1, StatusSets, SubmissionTyped
    <3> QED
      BY <1>1, <1>7, <1>10, <2>3, <3>1, <3>2, TypePartsNext DEF AbortState, Done
  <2> QED
    BY <1>16, <2>1, <2>2, <2>3 DEF Abort
<1>17. ASSUME Input PROVE TypeOK'
  <2>1. CASE DeliverText
    <3>1. pane' \in PaneType
      BY <1>1, <1>3, <2>1 DEF DeliverText, PaneType
    <3>2. typed' \in [Msgs -> 0..2]
      BY <1>1, <1>3, <2>1 DEF DeliverText, More
    <3>3. op' \in OpType /\ budget' \in BudgetType
      BY <1>1, <1>4, <1>5, <2>1, SpendTyped DEF DeliverText, Pcs, Stages
    <3> QED
      BY <1>1, <2>1, <3>1, <3>2, <3>3, TypePartsNext DEF DeliverText
  <2>2. CASE TextNotDelivered
    BY <1>1, <1>4, <2>2, SpendTyped, TypePartsNext DEF TextNotDelivered, Stages
  <2>3. CASE SaveTextState
    BY <1>1, <1>4, <1>5, <1>7, <1>9, <1>11, <2>3, TypePartsNext
    DEF SaveTextState, Pcs, Stages
  <2>4. CASE SaveTextLedger
    BY <1>1, <1>4, <1>5, <1>6, <1>8, <2>4, TypePartsNext DEF SaveTextLedger, Pcs, Stages
  <2>5. CASE PreKeyFailure
    BY <1>1, <1>4, <2>5, TypePartsNext DEF PreKeyFailure, Stages
  <2>6. CASE PressEnter
    <3>1. op' \in OpType /\ budget' \in BudgetType
      BY <1>1, <1>4, <1>5, <2>6, SpendTyped DEF PressEnter, Pcs, Stages
    <3>2. pane' \in PaneType /\ heard' \in [Msgs -> 0..2] /\ proof' \subseteq Msgs
      BY <1>1, <2>6, SubmitTyped DEF PressEnter
    <3> QED
      BY <1>1, <2>6, <3>1, <3>2, TypePartsNext DEF PressEnter
  <2>7. CASE SaveEnterState
    BY <1>1, <1>4, <1>5, <1>7, <1>9, <1>11, <2>7, TypePartsNext
    DEF SaveEnterState, Pcs, Stages
  <2>8. CASE SaveEnterLedger
    BY <1>1, <1>4, <1>5, <1>6, <1>8, <2>8, TypePartsNext DEF SaveEnterLedger, Pcs, Stages
  <2> QED
    BY <1>17, <2>1, <2>2, <2>3, <2>4, <2>5, <2>6, <2>7, <2>8 DEF Input
<1>18. ASSUME Settle PROVE TypeOK'
  <2>1. ASSUME NEW outcome \in Outcomes, PollAcceptance(outcome)
        PROVE  TypeOK'
    <3>1. /\ Resolved(outcome) \in SubmissionType
          /\ PhaseAfter(outcome) \in Blocking \cup Released
      BY <1>11, ResolvedFacts
    <3>2. outcome \in Entered \cup Failures \cup {"none"}
      BY DEF Outcomes, Failures
    <3>3. op' \in OpType
      <4>1. [op EXCEPT !.pc = "final", !.outcome = outcome] \in OpType
        BY <1>1, <3>2 DEF OpType, Pcs
      <4> QED
        BY <1>4, <2>1, <4>1 DEF PollAcceptance, Stages
    <3>4. turn' \in [Turns -> TurnType] /\ budget' \in BudgetType
      BY <1>1, <1>7, <2>1, <3>1 DEF PollAcceptance
    <3> QED
      BY <1>1, <2>1, <3>3, <3>4, TypePartsNext DEF PollAcceptance
  <2>2. CASE SaveFinalLedger
    BY <1>1, <1>3, <1>6, <1>8, <1>10, <2>2, TypePartsNext DEF SaveFinalLedger, Done
  <2>3. CASE SaveUncertainLedger
    BY <1>1, <1>5, <1>6, <1>8, <1>10, <2>3, TypePartsNext
    DEF SaveUncertainLedger, Done, Pcs
  <2>4. CASE SaveUncertainState
    <3>1. op.stage \in Stages \cup {"none", "agent_accepted"}
      BY <1>1 DEF OpType
    <3>2. Submission("uncertain", op.stage, FALSE) \in SubmissionType
      BY <3>1, StatusSets, SubmissionTyped
    <3> QED
      BY <1>1, <1>7, <1>10, <1>11, <2>4, <3>2, TypePartsNext DEF SaveUncertainState, Done
  <2>5. CASE IdentityFailure
    BY <1>1, <1>4, <2>5, TypePartsNext DEF IdentityFailure, Stages
  <2> QED
    BY <1>18, <2>1, <2>2, <2>3, <2>4, <2>5 DEF Settle
<1>19. ASSUME NEW t \in Turns, NEW stage \in Stages \cup {"agent_accepted"},
              NEW outcome \in Entered \cup Failures \cup {"none"}, NEW pc \in Pcs,
              op' = [Mark(t, outcome, stage) EXCEPT !.pc = pc]
       PROVE  op' \in OpType
  BY <1>1, <1>19, MarkFacts
<1>20. ASSUME NEW t \in Turns, Current(t).status \in Stages, StallAs(t)
       PROVE  TypeOK'
  <2> DEFINE o == [ledger EXCEPT !.status = "uncertain"]
  <2>1. op' \in OpType
    BY <1>19, <1>20 DEF StallAs, Pcs
  <2>2. ledger.status # "none" /\ ledger.status # "resolved" => o \in LedgerType /\ Named(o)
    BY <1>1, StatusSets DEF LedgerType, Named
  <2>3. ledger' \in LedgerType
    <3>1. CASE ledger' = ledger
      BY <1>1, <3>1
    <3>2. CASE Save(o) /\ ledger.status \in {"text_injected", "enter_dispatched"}
      BY <1>6, <2>2, <3>2
    <3> QED
      BY <1>20, <3>1, <3>2 DEF StallAs
  <2> QED
    BY <1>1, <1>20, <2>1, <2>3, TypePartsNext DEF StallAs
<1>21. ASSUME NEW t \in Turns, Monitor(t) PROVE TypeOK'
  <2>1. CASE RecoverPreparedTurn(t)
    <3> DEFINE o == [ledger EXCEPT !.status = "uncertain", !.msg = turn[t].msg, !.turn = t,
                                   !.anchor = turn[t].anchor]
    <3>1. turn[t].msg \in Msgs /\ turn[t].anchor \in 0..MaxRestarts
      BY <1>1, <2>1, CurrentFacts DEF RecoverPreparedTurn, TurnType
    <3>2. o \in LedgerType /\ Named(o)
      BY <1>1, <3>1, StatusSets DEF LedgerType, Named
    <3>3. op' \in OpType
      BY <1>19, <2>1 DEF RecoverPreparedTurn, Pcs, Stages
    <3>4. Save(o) \/ ledger' = ledger
      BY <2>1 DEF RecoverPreparedTurn
    <3>5. ledger' \in LedgerType
      BY <1>1, <1>6, <3>2, <3>4
    <3> QED
      BY <1>1, <2>1, <3>3, <3>5, TypePartsNext DEF RecoverPreparedTurn
  <2>2. CASE MarkUncertain(t)
    BY <1>20, <2>2 DEF MarkUncertain, Stages
  <2>3. ASSUME NEW outcome \in {"agent_accepted", "not_accepted"}, ObservePane(t, outcome)
        PROVE  TypeOK'
    <3>1. outcome \in Entered \cup Failures \cup {"none"}
      BY DEF Entered, Failures
    <3>2. op' \in OpType
      BY <1>19, <2>3, <3>1 DEF ObservePane, Pcs, Stages
    <3> QED
      BY <1>1, <2>3, <3>2, TypePartsNext DEF ObservePane
  <2>4. ASSUME NEW phase \in {"working", "idle", "asking"}, PollTurn(t, phase)
        PROVE  TypeOK'
    <3>1. ledger' \in LedgerType
      BY <1>1, <1>2, <2>4, ReconcileFacts DEF PollTurn, Sound
    <3>2. turn' \in [Turns -> TurnType]
      <4>1. PICK p \in {"working", "idle", "asking"} : turn' = [turn EXCEPT ![t].phase = p]
        <5> DEFINE l == Reconcile(ledger)
                   mine == l.status = "agent_accepted" /\ l.msg = turn[t].msg
        <5>1. turn[t].phase = "working"
              /\ turn' = [turn EXCEPT ![t].phase = IF mine THEN phase ELSE @]
          BY <2>4 DEF PollTurn
        <5>2. CASE mine
          BY <5>1, <5>2
        <5>3. CASE ~mine
          BY <5>1, <5>3
        <5> QED
          BY <5>2, <5>3
      <4>2. p \in Blocking \cup Released
        BY <1>11
      <4> QED
        BY <1>1, <4>1, <4>2 DEF TurnType
    <3> QED
      BY <1>1, <2>4, <3>1, <3>2, TypePartsNext DEF PollTurn
  <2> QED
    BY <1>21, <2>1, <2>2, <2>3, <2>4 DEF Monitor
<1>22. ASSUME CommitObserved PROVE TypeOK'
  <2> DEFINE l == Reconcile(ledger)
             same == /\ turn[op.turn].phase # "closed"
                     /\ l.msg = op.msg /\ l.status = "enter_dispatched"
  <2>0. op.pc = "observed" /\ op.turn \in Turns /\ op.outcome \in Outcomes
    BY <1>0, <1>3, <1>22 DEF CommitObserved, StableInv, AfterInv
  <2>1. CASE same
    <3>1. /\ ledger' = l /\ SaveTurn(PhaseAfter(op.outcome), Resolved(op.outcome))
          /\ Goto("final") /\ UNCHANGED <<pane, typed, heard, proof, budget>>
      BY <1>22, <2>1 DEF CommitObserved
    <3>2. l \in LedgerType
      BY <1>1, <1>2, ReconcileFacts DEF Sound
    <3>3. /\ Resolved(op.outcome) \in SubmissionType
          /\ PhaseAfter(op.outcome) \in Blocking \cup Released
      BY <1>11, <2>0, ResolvedFacts
    <3>4. turn' \in [Turns -> TurnType]
      BY <1>7, <2>0, <3>1, <3>3
    <3>5. op' \in OpType
      BY <1>5, <3>1 DEF Pcs
    <3> QED
      BY <1>1, <3>1, <3>2, <3>4, <3>5, TypePartsNext
  <2>2. CASE turn[op.turn].phase = "closed"
    <3>1. Done /\ UNCHANGED <<ledger, turn, pane, typed, heard, proof, budget>>
      BY <1>22, <2>2 DEF CommitObserved
    <3> QED
      BY <1>1, <1>10, <3>1, TypePartsNext DEF Done
  <2>3. CASE ~same /\ turn[op.turn].phase # "closed"
    <3>1. StallAs(op.turn)
      BY <1>22, <2>3 DEF CommitObserved
    <3>2. Current(op.turn).status \in Stages
      BY <1>0, <2>0, OpTurn DEF Stages
    <3> QED
      BY <1>20, <2>0, <3>1, <3>2
  <2> QED
    BY <2>1, <2>2, <2>3
<1>23. ASSUME NEW t \in Turns, Close(t) PROVE TypeOK'
  <2> DEFINE o == [ledger EXCEPT !.status = "resolved"]
  <2>1. o \in LedgerType /\ Named(o)
    BY <1>1 DEF LedgerType, Named
  <2>2. turn' \in [Turns -> TurnType]
    BY SMTT(30), <1>1, <1>23 DEF Close, TurnType, Released
  <2>3. ledger' \in LedgerType
    <3>1. Save(o) \/ ledger' = ledger
      BY <1>23 DEF Close
    <3> QED
      BY <1>1, <1>6, <2>1, <3>1
  <2>4. budget' \in BudgetType
    BY <1>1, <1>23, SpendTyped DEF Close
  <2> QED
    BY <1>1, <1>23, <2>2, <2>3, <2>4, TypePartsNext DEF Close
<1>24. ASSUME HumanSubmits PROVE TypeOK'
  BY <1>1, <1>24, SubmitTyped, TypePartsNext DEF HumanSubmits
<1>25. ASSUME HumanClears PROVE TypeOK'
  <2>1. pane' \in PaneType
    BY <1>1, <1>25 DEF HumanClears, PaneType
  <2> QED
    BY <1>1, <1>25, <2>1, TypePartsNext DEF HumanClears
<1>26. ASSUME RestartAgent PROVE TypeOK'
  <2>1. /\ budget' \in BudgetType /\ budget.restarts > 0
    BY <1>1, <1>26, SpendTyped DEF RestartAgent
  <2>2. pane.anchor + budget.restarts <= MaxRestarts /\ budget.restarts \in Nat
    BY <1>1, BoundAssumption DEF ShapeInv, BudgetType
  <2>3. pane.anchor + 1 \in 0..MaxRestarts
    BY <1>2, <2>1, <2>2, BoundAssumption
  <2>4. pane' \in PaneType
    BY <1>26, <2>3 DEF RestartAgent, PaneType
  <2> QED
    BY <1>1, <1>26, <2>1, <2>4, TypePartsNext DEF RestartAgent
<1>27. ASSUME Crash PROVE TypeOK'
  BY <1>1, <1>10, <1>27, SpendTyped, TypePartsNext DEF Crash, Done
<1> QED
  BY <1>12, <1>14, <1>15, <1>16, <1>17, <1>18, <1>21, <1>22, <1>23, <1>24, <1>25, <1>26, <1>27
  DEF Next

-----------------------------------------------------------------------------
(* ---------------- steps that write neither of the records ---------------- *)

\* A failed bookkeeping step, and an input that was refused: nothing was typed.
LEMMA RefusedStep ==
  ASSUME IInv, ZeroInput \/ TextNotDelivered
  PROVE  StableInv'
<1>1. TypeOK /\ StableInv
  BY DEF IInv
<1>2. /\ UNCHANGED <<ledger, turn, pane, typed, heard, proof>>
      /\ op.pc = "ready" /\ op'.pc \in {"abort", "uncertain"}
      /\ op'.turn = op.turn /\ op'.msg = op.msg /\ op'.anchor = op.anchor /\ op'.prev = op.prev
      /\ budget'.restarts = budget.restarts
  BY <1>1, TypeParts, SpendTyped DEF ZeroInput, TextNotDelivered, At, Goto, Fails, OpType
<1>3. ShapeInv'
  BY <1>1, <1>2 DEF StableInv, ShapeInv, Named, Before
<1>4. HolderInv' /\ TypedInv'
  BY <1>1, <1>2 DEF StableInv, HolderInv, TypedInv, Sub, Unsettled
<1>5. BeforeInv'
  BY <1>1, <1>2 DEF StableInv, BeforeInv, Before, Sub, Unsettled, Excused, Holders
<1>6. AfterInv'
  BY <1>1, <1>2 DEF StableInv, AfterInv, BeforeInv, Before, After, Sub
<1>7. PaneInv'
  BY <1>1, <1>2 DEF StableInv, PaneInv, BeforeInv, Before, After, Sub, Unsettled, HeldFor,
                    Excused, Holders
<1>8. PreparedInv' /\ AcceptedInv'
  BY <1>1, <1>2 DEF StableInv, PreparedInv, AcceptedInv, AcceptanceIsProven, Sub
<1> QED
  BY <1>3, <1>4, <1>5, <1>6, <1>7, <1>8 DEF StableInv

\* The text goes in: the prepared dispatch holds the pane for its message.
LEMMA DeliverStep ==
  ASSUME IInv, DeliverText
  PROVE  StableInv'
<1>1. TypeOK /\ StableInv
  BY DEF IInv
<1>2. /\ UNCHANGED <<ledger, turn, heard, proof>>
      /\ op.pc = "ready" /\ op'.pc \in {"typed", "uncertain"}
      /\ op'.turn = op.turn /\ op'.msg = op.msg /\ op'.anchor = op.anchor
      /\ op.turn \in Turns /\ op.msg \in Msgs
      /\ op.anchor = pane.anchor /\ pane'.anchor = pane.anchor
      /\ pane'.draft = pane.draft \cup {op.msg}
      /\ budget'.restarts = budget.restarts
  BY <1>1, TypeParts, SpendTyped, OpTurn DEF DeliverText, At, Goto, Fails, OpType, PaneType
<1>3. /\ typed[op.msg] = 0
      /\ \A t \in Turns \ {op.turn} :
           Sub(t, op.msg) = "none" \/ ~Binding(turn[t].sub[op.msg])
      /\ \A n \in Msgs \ {op.msg} : typed[n] = 0 \/ Excused(n)
      /\ Sub(op.turn, op.msg) = "prepared"
      /\ ledger.status = "prepared" /\ ledger.turn = op.turn
      /\ ledger.msg = op.msg /\ ledger.anchor = op.anchor
      /\ turn[op.turn].msg = op.msg /\ turn[op.turn].anchor = op.anchor
      /\ turn[op.turn].phase # "closed"
  BY <1>1, <1>2 DEF StableInv, BeforeInv, Before, AfterInv
<1>4. /\ \A n \in Msgs \ {op.msg} : typed'[n] = typed[n]
      /\ typed'[op.msg] = 1
  BY <1>1, <1>2, <1>3, TypeParts DEF DeliverText, More
<1>5. ShapeInv' /\ HolderInv'
  BY <1>1, <1>2 DEF StableInv, ShapeInv, Named, Before, HolderInv, Sub, Unsettled
<1>6. TypedInv'
  <2>1. heard[op.msg] = 0
    BY <1>1, <1>2, <1>3, TypeParts DEF StableInv, TypedInv
  <2>2. \A t \in Turns : Sub(t, op.msg) = "aborted" => turn[t].sub[op.msg].safe
    BY <1>2, <1>3 DEF Sub, Binding
  <2>3. ASSUME NEW m \in Msgs \ {op.msg}
        PROVE  /\ typed'[m] <= 1 /\ heard'[m] <= typed'[m]
               /\ m \in pane'.draft => typed'[m] = 1 /\ heard'[m] = 0
               /\ typed'[m] > 0 =>
                    /\ \E t \in Turns : Sub(t, m)' \notin {"none", "aborted"}
                    /\ \A t \in Turns : Sub(t, m)' = "aborted" => turn'[t].sub[m].safe
    BY <1>1, <1>2, <1>4 DEF StableInv, TypedInv, Sub
  <2>4. /\ typed'[op.msg] <= 1 /\ heard'[op.msg] <= typed'[op.msg]
        /\ typed'[op.msg] = 1 /\ heard'[op.msg] = 0
        /\ \E t \in Turns : Sub(t, op.msg)' \notin {"none", "aborted"}
        /\ \A t \in Turns : Sub(t, op.msg)' = "aborted" => turn'[t].sub[op.msg].safe
    BY <1>2, <1>3, <1>4, <2>1, <2>2 DEF Sub
  <2>5. ASSUME NEW m \in Msgs
        PROVE  /\ typed'[m] <= 1 /\ heard'[m] <= typed'[m]
               /\ m \in pane'.draft => typed'[m] = 1 /\ heard'[m] = 0
               /\ typed'[m] > 0 =>
                    /\ \E t \in Turns : Sub(t, m)' \notin {"none", "aborted"}
                    /\ \A t \in Turns : Sub(t, m)' = "aborted" => turn'[t].sub[m].safe
    <3>1. CASE m = op.msg
      BY <1>2, <2>4, <3>1 DEF Sub
    <3>2. CASE m # op.msg
      BY <2>3, <3>2
    <3> QED
      BY <3>1, <3>2
  <2> QED
    BY <2>5 DEF TypedInv, Sub
<1>7. BeforeInv' /\ AfterInv'
  BY <1>1, <1>2, <1>3 DEF StableInv, BeforeInv, AfterInv, Before, After, Sub
<1>8. PaneInv'
  <2>1. HeldFor(op.turn, op.msg)'
    BY <1>2, <1>3 DEF HeldFor, Open
  <2>2. \A t \in Turns : Unsettled(t, op.msg) => t = op.turn
    BY <1>1, <1>2, <1>3 DEF StableInv, HolderInv, Unsettled, Sub
  <2> QED
    BY <1>1, <1>2, <1>3, <1>4, <2>1, <2>2
    DEF StableInv, PaneInv, After, HeldFor, Unsettled, Sub, Excused, Holders
<1>9. PreparedInv'
  <2>1. turn[op.turn].phase # "absent"
    BY <1>1, <1>2, <1>3 DEF StableInv, HolderInv
  <2> QED
    BY <1>2, <1>3, <2>1 DEF PreparedInv
<1>10. AcceptedInv'
  BY <1>1, <1>2 DEF StableInv, AcceptedInv, AcceptanceIsProven, Sub
<1> QED
  BY <1>5, <1>6, <1>7, <1>8, <1>9, <1>10 DEF StableInv

\* Enter is not pressed, or pressed; what is in the composer may be submitted.
LEMMA EnterStep ==
  ASSUME IInv, PreKeyFailure \/ PressEnter
  PROVE  StableInv'
<1>1. TypeOK /\ StableInv
  BY DEF IInv
<1>2. /\ UNCHANGED <<ledger, turn, typed>>
      /\ op.pc = "text" /\ op'.pc \in {"entered", "uncertain"}
      /\ op'.turn = op.turn /\ op'.msg = op.msg /\ op'.anchor = op.anchor
      /\ budget'.restarts = budget.restarts
      /\ Submit \/ UNCHANGED <<pane, heard, proof>>
  BY <1>1, TypeParts, SpendTyped DEF PreKeyFailure, PressEnter, At, Goto, Fails, OpType
<1>3. /\ pane'.anchor = pane.anchor /\ proof \subseteq proof'
      /\ \A m \in Msgs : \/ heard'[m] = heard[m] /\ (m \in pane'.draft => m \in pane.draft)
                         \/ /\ m \in pane.draft /\ m \notin pane'.draft
                            /\ heard'[m] = IF heard[m] < 2 THEN heard[m] + 1 ELSE 2
  BY <1>1, <1>2, TypeParts, SubmitTyped
<1>4. ShapeInv' /\ HolderInv'
  BY <1>1, <1>2, <1>3 DEF StableInv, ShapeInv, Named, Before, HolderInv, Sub, Unsettled
<1>5. TypedInv'
  BY <1>1, <1>2, <1>3, TypeParts DEF StableInv, TypedInv, Sub
<1>6. BeforeInv' /\ AfterInv'
  BY <1>1, <1>2 DEF StableInv, BeforeInv, AfterInv, Before, After, Sub
<1>7. PaneInv'
  BY <1>1, <1>2, <1>3
  DEF StableInv, PaneInv, After, HeldFor, Unsettled, Sub, Excused, Holders
<1>8. PreparedInv' /\ AcceptedInv'
  BY <1>1, <1>2, <1>3 DEF StableInv, PreparedInv, AcceptedInv, AcceptanceIsProven, Sub
<1> QED
  BY <1>4, <1>5, <1>6, <1>7, <1>8 DEF StableInv

\* The user submits or clears what is in the composer.
LEMMA HumanStep ==
  ASSUME IInv, HumanSubmits \/ HumanClears
  PROVE  StableInv'
<1>1. TypeOK /\ StableInv
  BY DEF IInv
<1>2. UNCHANGED <<ledger, turn, op, typed, budget>>
  BY DEF HumanSubmits, HumanClears
<1>3. /\ pane'.anchor = pane.anchor /\ proof \subseteq proof'
      /\ \A m \in Msgs : \/ heard'[m] = heard[m] /\ (m \in pane'.draft => m \in pane.draft)
                         \/ /\ m \in pane.draft /\ m \notin pane'.draft
                            /\ heard'[m] = IF heard[m] < 2 THEN heard[m] + 1 ELSE 2
  BY <1>1, TypeParts, SubmitTyped DEF HumanSubmits, HumanClears, PaneType
<1>4. ShapeInv' /\ HolderInv'
  BY <1>1, <1>2, <1>3 DEF StableInv, ShapeInv, Named, Before, HolderInv, Sub, Unsettled
<1>5. TypedInv'
  BY <1>1, <1>2, <1>3, TypeParts DEF StableInv, TypedInv, Sub
<1>6. BeforeInv' /\ AfterInv'
  BY <1>1, <1>2, <1>3
  DEF StableInv, BeforeInv, AfterInv, Before, After, Sub, Unsettled, Excused, Holders
<1>7. PaneInv'
  BY <1>1, <1>2, <1>3
  DEF StableInv, PaneInv, After, HeldFor, Unsettled, Sub, Excused, Holders
<1>8. PreparedInv' /\ AcceptedInv'
  BY <1>1, <1>2, <1>3 DEF StableInv, PreparedInv, AcceptedInv, AcceptanceIsProven, Sub
<1> QED
  BY <1>4, <1>5, <1>6, <1>7, <1>8 DEF StableInv

\* A new agent process: every record is about an earlier one.
LEMMA RestartStep ==
  ASSUME IInv, RestartAgent
  PROVE  StableInv'
<1>1. TypeOK /\ StableInv
  BY DEF IInv
<1>2. /\ UNCHANGED <<ledger, turn, op, typed, heard, proof>>
      /\ pane'.anchor = pane.anchor + 1 /\ pane'.draft = {} /\ pane.anchor \in Nat
      /\ budget.restarts \in Nat /\ budget'.restarts = budget.restarts - 1
  BY <1>1, TypeParts, SpendTyped, BoundAssumption
  DEF RestartAgent, PaneType, BudgetType
<1>3. /\ \A t \in Turns : turn'[t].anchor <= pane.anchor /\ turn[t].anchor \in Nat
      /\ op.anchor <= pane.anchor /\ op.anchor \in Nat
  BY <1>1, <1>2, TypeParts, BoundAssumption DEF StableInv, ShapeInv, TurnType, OpType
<1>4. \A t \in Turns : turn'[t].anchor # pane'.anchor
  BY <1>2, <1>3
<1>5. \A n \in Msgs : Excused(n)'
  BY <1>4 DEF Excused, Holders
<1>6. ShapeInv' /\ HolderInv'
  BY <1>1, <1>2, <1>3, BoundAssumption
  DEF StableInv, ShapeInv, Named, Before, HolderInv, Sub, Unsettled
<1>7. TypedInv'
  BY <1>1, <1>2 DEF StableInv, TypedInv, Sub
<1>8. BeforeInv' /\ AfterInv'
  BY <1>1, <1>2, <1>5 DEF StableInv, BeforeInv, AfterInv, Before, After, Sub, Unsettled
<1>9. PaneInv'
  BY <1>2, <1>3, <1>4, <1>5 DEF PaneInv
<1>10. PreparedInv' /\ AcceptedInv'
  BY <1>1, <1>2 DEF StableInv, PreparedInv, AcceptedInv, AcceptanceIsProven, Sub
<1> QED
  BY <1>6, <1>7, <1>8, <1>9, <1>10 DEF StableInv

\* The process dies: the records stay as they are.
LEMMA CrashStep ==
  ASSUME IInv, Crash
  PROVE  StableInv'
<1>1. TypeOK /\ StableInv
  BY DEF IInv
<1>2. /\ UNCHANGED <<ledger, turn, pane, typed, heard, proof>>
      /\ op'.pc = "none" /\ op'.anchor = 0 /\ 0 <= pane.anchor
      /\ budget'.restarts = budget.restarts
  BY <1>1, TypeParts, SpendTyped, NoOpFacts DEF Crash, Done, PaneType
<1>3. ShapeInv' /\ HolderInv' /\ TypedInv'
  BY <1>1, <1>2 DEF StableInv, ShapeInv, Named, Before, HolderInv, TypedInv, Sub, Unsettled
<1>4. BeforeInv' /\ AfterInv' /\ PaneInv'
  BY <1>1, <1>2 DEF StableInv, BeforeInv, AfterInv, PaneInv, Before, After, HeldFor, Sub,
                    Unsettled
<1>5. PreparedInv' /\ AcceptedInv'
  BY <1>1, <1>2 DEF StableInv, PreparedInv, AcceptedInv, AcceptanceIsProven, Sub
<1> QED
  BY <1>3, <1>4, <1>5 DEF StableInv

\* A monitor looks at the pane.
LEMMA ObserveStep ==
  ASSUME IInv, NEW t \in Turns, NEW outcome \in {"agent_accepted", "not_accepted"},
         ObservePane(t, outcome)
  PROVE  StableInv'
<1>1. TypeOK /\ StableInv
  BY DEF IInv
<1>2. /\ UNCHANGED <<ledger, turn, pane, typed, heard, proof, budget>>
      /\ op.pc = "none" /\ Current(t).status = "enter_dispatched"
      /\ op' = [Mark(t, outcome, "prepared") EXCEPT !.pc = "observed"]
      /\ outcome = "agent_accepted" => turn[t].msg \in proof
      /\ outcome \in Outcomes /\ outcome \in Entered \cup Failures \cup {"none"}
  BY DEF ObservePane, At, Seen, Outcomes, Entered, Failures
<1>3. /\ op'.pc = "observed" /\ op'.turn = t /\ op'.msg = turn[t].msg
      /\ op'.anchor = turn[t].anchor /\ op'.outcome = outcome
  <2>1. /\ turn \in [Turns -> TurnType] /\ "observed" \in Pcs
        /\ "prepared" \in Stages \cup {"agent_accepted"}
    BY <1>1, TypeParts DEF Pcs, Stages
  <2> DEFINE stage == "prepared"
  <2> HIDE DEF stage
  <2>2. stage \in Stages \cup {"agent_accepted"} /\ stage = "prepared"
    BY <2>1 DEF stage
  <2> QED
    BY <1>2, <2>1, <2>2, MarkFacts
<1>4. turn[t].msg \in Msgs /\ Sub(t, turn[t].msg) = "enter_dispatched"
  BY <1>1, <1>2, TypeParts, CurrentFacts DEF Sub
<1>5. ShapeInv' /\ HolderInv' /\ TypedInv'
  BY <1>1, <1>2, <1>3, <1>4
  DEF StableInv, ShapeInv, Named, Before, HolderInv, TypedInv, Sub, Unsettled
<1>6. BeforeInv' /\ AfterInv' /\ PaneInv'
  BY <1>1, <1>2, <1>3, <1>4
  DEF StableInv, BeforeInv, AfterInv, PaneInv, Before, After, HeldFor, Sub, Unsettled
<1>7. PreparedInv' /\ AcceptedInv'
  BY <1>1, <1>2, <1>3, <1>4
  DEF StableInv, PreparedInv, AcceptedInv, AcceptanceIsProven, Sub
<1> QED
  BY <1>5, <1>6, <1>7 DEF StableInv

-----------------------------------------------------------------------------
(* ---------------------- steps that write the ledger ---------------------- *)

\* Before it types, a transaction finds nothing open in the agent process.
LEMMA NothingOpen ==
  ASSUME TypeOK, StableInv, op.pc \in Before, NEW t \in Turns, NEW m \in Msgs,
         typed[m] > 0, Unsettled(t, m)
  PROVE  turn[t].phase = "closed" \/ turn[t].anchor # pane.anchor
<1>1. op.msg \in Msgs /\ typed[op.msg] = 0
  BY DEF StableInv, ShapeInv, BeforeInv, Before
<1>2. m # op.msg /\ typed[m] # 0
  BY <1>1
<1>3. Excused(m)
  BY <1>2 DEF StableInv, BeforeInv
<1>4. t \in Holders(m) /\ Binding(turn[t].sub[m])
  BY DEF Holders, Binding, Unsettled, Sub
<1> QED
  BY <1>3, <1>4 DEF Excused, Unsettled, Sub

\* While it types, only its own message is open there.
LEMMA OnlyOwnOpen ==
  ASSUME TypeOK, StableInv, op.pc \in (After \ {"stall"}) \cup {"final"},
         NEW t \in Turns, NEW m \in Msgs, typed[m] > 0, Unsettled(t, m),
         turn[t].phase # "closed", turn[t].anchor = pane.anchor
  PROVE  t = op.turn /\ m = op.msg
<1>1. op.msg \in Msgs /\ op.turn \in Turns /\ Sub(op.turn, op.msg) \notin {"none", "aborted"}
  BY DEF StableInv, ShapeInv, AfterInv, After
<1>2. ASSUME m # op.msg PROVE FALSE
  <2>1. Excused(m)
    BY <1>2 DEF StableInv, PaneInv
  <2>2. t \in Holders(m) /\ Binding(turn[t].sub[m])
    BY DEF Holders, Binding, Unsettled, Sub
  <2> QED
    BY <2>1, <2>2 DEF Excused, Unsettled, Sub
<1>3. m = op.msg
  BY <1>2
<1>4. t = op.turn
  BY <1>1, <1>3 DEF StableInv, HolderInv, Unsettled
<1> QED
  BY <1>3, <1>4

\* A write of the ledger by the transaction leaves the rest as it is.
LedgerOnly ==
  /\ UNCHANGED <<turn, pane, typed, heard, proof>>
  /\ budget'.restarts = budget.restarts

\* The write of the prepared ledger, in any of its outcomes.
LEMMA PreparedLedgerStep ==
  ASSUME IInv, SavePreparedLedger
  PROVE  StableInv'
<1>1. TypeOK /\ StableInv
  BY DEF IInv
<1> DEFINE l == Dispatch("prepared")
<1>2. /\ op.pc = "ledger" /\ LedgerOnly
      /\ op'.turn = op.turn /\ op'.msg = op.msg /\ op'.anchor = op.anchor /\ op'.prev = op.prev
      /\ op.turn \in Turns /\ op.msg \in Msgs
      /\ \/ op'.pc = "state" /\ ledger' = Over(ledger, l)
         \/ op'.pc = "restore" /\ ledger' \in {ledger, Over(ledger, l)}
  BY <1>1, TypeParts, SpendTyped, OpTurn
  DEF SavePreparedLedger, LedgerOnly, Save, SaveFails, At, Goto, OpType
<1>3. /\ l \in LedgerType /\ Named(l) /\ l.status = "prepared" /\ l.msg = op.msg
      /\ l.turn = op.turn /\ l.anchor = op.anchor
  BY <1>1, <1>2, DispatchFacts DEF StableInv, SubmissionStatuses
<1> HIDE DEF l
<1>4. /\ Named(ledger')
      /\ \/ ledger' = ledger
         \/ /\ ledger'.status = "prepared" /\ ledger'.msg = op.msg
            /\ ledger'.turn = op.turn /\ ledger'.anchor = op.anchor
      /\ op'.pc = "state" =>
            /\ ledger'.status = "prepared" /\ ledger'.msg = op.msg
            /\ ledger'.turn = op.turn /\ ledger'.anchor = op.anchor
      /\ \A m \in Msgs : ledger.receipts[m] # "none" => ledger'.receipts[m] # "none"
      /\ \A m \in Msgs : ledger'.receipts[m] = "agent_accepted" =>
           ledger.receipts[m] = "agent_accepted"
  <2>1. ledger \in LedgerType /\ Named(ledger)
    BY <1>1, TypeParts DEF StableInv, ShapeInv
  <2>2. op'.pc = "state" => ledger' = Over(ledger, l)
    BY <1>2
  <2>3. ledger' \in {ledger, Over(ledger, l)}
    BY <1>2
  <2> QED
    BY <1>3, <2>1, <2>2, <2>3, LedgerWrite, OverFacts
<1>5. typed[op.msg] = 0
  BY <1>1, <1>2 DEF StableInv, BeforeInv, Before
<1>6. ShapeInv'
  <2>1. Named(ledger)'
    BY <1>4 DEF Named
  <2> QED
    BY <1>1, <1>2, <2>1 DEF StableInv, ShapeInv, Named, Before, LedgerOnly
<1>7. HolderInv' /\ TypedInv'
  BY <1>1, <1>2 DEF StableInv, HolderInv, TypedInv, Sub, Unsettled, LedgerOnly
<1>8. BeforeInv' /\ AfterInv'
  BY <1>1, <1>2, <1>4 DEF StableInv, BeforeInv, AfterInv, Before, After, Sub, Unsettled,
                          Excused, Holders, LedgerOnly
<1>9. PaneInv'
  BY <1>1, <1>2, NothingOpen
  DEF StableInv, PaneInv, Before, After, Unsettled, Sub, LedgerOnly
<1>10. PreparedInv'
  BY <1>1, <1>2, <1>4, <1>5 DEF StableInv, PreparedInv, LedgerOnly
<1>11. AcceptedInv'
  BY <1>1, <1>2, <1>4
  DEF StableInv, AcceptedInv, AcceptanceIsProven, Sub, LedgerOnly
<1> QED
  BY <1>6, <1>7, <1>8, <1>9, <1>10, <1>11 DEF StableInv

\* The previous document is put back: it holds no open message.
LEMMA RestoredStep ==
  ASSUME IInv, RestoreLedger \/ AbortLedger
  PROVE  StableInv'
<1>1. TypeOK /\ StableInv
  BY DEF IInv
<1> DEFINE l == Restored
<1>2. /\ op.pc \in {"restore", "abort"} /\ LedgerOnly
      /\ op.turn \in Turns /\ op.msg \in Msgs
      /\ ledger' \in {ledger, Over(ledger, l)}
      /\ \/ op'.pc = "none" /\ op'.anchor = 0
         \/ /\ op.pc = "abort" /\ op'.pc = "aborted"
            /\ op'.turn = op.turn /\ op'.msg = op.msg /\ op'.anchor = op.anchor
            /\ op'.prev = op.prev
  BY <1>1, TypeParts, SpendTyped, OpTurn, NoOpFacts
  DEF RestoreLedger, AbortLedger, LedgerOnly, Save, SaveFails, At, Goto, Done, OpType
<1>3. /\ l \in LedgerType /\ Named(l)
      /\ \/ l.status = "resolved"
         \/ /\ op.prev.status # "none" /\ l.status = op.prev.status
            /\ l.msg = op.prev.msg /\ l.turn = op.prev.turn
  BY <1>1, <1>2, RestoredFacts DEF StableInv, Before
<1> HIDE DEF l
<1>4. /\ op.prev.status \in {"none", "resolved", "aborted"} \cup Entered
      /\ op.prev.status = "agent_accepted" =>
           /\ Sub(op.prev.turn, op.prev.msg) = "agent_accepted"
           /\ ~(op.prev.turn = op.turn /\ op.prev.msg = op.msg)
      /\ typed[op.msg] = 0
  BY <1>1, <1>2 DEF StableInv, BeforeInv, Before
<1>5. /\ l.status \in {"resolved", "aborted"} \cup Entered
      /\ l.status = "agent_accepted" =>
           /\ Sub(l.turn, l.msg) = "agent_accepted" /\ l.turn \in Turns /\ l.msg \in Msgs
           /\ ~(l.turn = op.turn /\ l.msg = op.msg)
  BY <1>3, <1>4 DEF Named
<1>6. /\ Named(ledger')
      /\ \/ ledger' = ledger
         \/ /\ ledger'.status = l.status /\ ledger'.msg = l.msg
            /\ ledger'.turn = l.turn
      /\ \A m \in Msgs : ledger.receipts[m] # "none" => ledger'.receipts[m] # "none"
      /\ \A m \in Msgs : ledger'.receipts[m] = "agent_accepted" =>
           \/ ledger.receipts[m] = "agent_accepted"
           \/ l.status = "agent_accepted" /\ l.msg = m
  <2>1. ledger \in LedgerType /\ Named(ledger)
    BY <1>1, TypeParts DEF StableInv, ShapeInv
  <2> QED
    BY <1>2, <1>3, <2>1, LedgerWrite
<1>7. ShapeInv'
  <2>1. Named(ledger)'
    BY <1>6 DEF Named
  <2>2. pane.anchor \in Nat
    BY <1>1, TypeParts DEF PaneType
  <2> QED
    BY <1>1, <1>2, <2>1, <2>2 DEF StableInv, ShapeInv, Named, Before, LedgerOnly
<1>8. HolderInv' /\ TypedInv'
  BY <1>1, <1>2 DEF StableInv, HolderInv, TypedInv, Sub, Unsettled, LedgerOnly
<1>9. BeforeInv' /\ AfterInv'
  BY SMTT(30), <1>1, <1>2 DEF StableInv, BeforeInv, AfterInv, Before, After, Sub, Unsettled,
                          Excused, Holders, LedgerOnly
<1>10. PaneInv'
  BY <1>1, <1>2, NothingOpen
  DEF StableInv, PaneInv, Before, After, Unsettled, Sub, LedgerOnly
<1>11. PreparedInv'
  BY <1>1, <1>2, <1>4, <1>5, <1>6 DEF StableInv, PreparedInv, LedgerOnly, Entered
<1>12. AcceptedInv'
  BY <1>1, <1>2, <1>5, <1>6
  DEF StableInv, AcceptedInv, AcceptanceIsProven, Sub, LedgerOnly
<1> QED
  BY <1>7, <1>8, <1>9, <1>10, <1>11, <1>12 DEF StableInv

\* A write of the current dispatch, once its message may have been typed: it
\* keeps the pane held for it.
LEMMA HoldingWrite ==
  ASSUME IInv, op.pc \in {"text_ledger", "enter_ledger", "final", "uncertain"},
         NEW status \in (Open \ {"prepared"}) \cup {"agent_accepted"},
         status = "agent_accepted" => op.pc = "final" /\ op.outcome = "agent_accepted",
         \/ /\ op'.pc \in {"text", "enter", "stall", "none"}
            /\ ledger' = Over(ledger, Dispatch(status))
         \/ /\ op'.pc \in {"uncertain", "none"}
            /\ ledger' \in {ledger, Over(ledger, Dispatch(status))},
         op.pc = "final" => op'.pc = "none",
         op'.pc \in {"text", "enter"} => op.pc \in {"text_ledger", "enter_ledger"},
         op'.pc # "none" => op'.turn = op.turn /\ op'.msg = op.msg /\ op'.anchor = op.anchor,
         op'.pc = "none" => op'.anchor = 0,
         LedgerOnly
  PROVE  StableInv'
<1> DEFINE l == Dispatch(status)
<1>0. /\ TypeOK /\ StableInv
      /\ status \in SubmissionStatuses /\ status \in ReceiptStatuses
  BY StatusSets DEF IInv, Open, Entered, Failures, ReceiptStatuses
<1>1. /\ l \in LedgerType /\ Named(l) /\ l.status = status /\ l.msg = op.msg
      /\ l.turn = op.turn /\ l.anchor = op.anchor /\ op.turn \in Turns /\ op.msg \in Msgs
  BY <1>0, DispatchFacts DEF StableInv
<1>2. /\ Named(ledger')
      /\ \/ ledger' = ledger /\ op'.pc \in {"uncertain", "none"}
         \/ /\ ledger'.status = status /\ ledger'.msg = op.msg
            /\ ledger'.turn = op.turn /\ ledger'.anchor = op.anchor
            /\ ledger'.receipts[op.msg] # "none"
      /\ \A m \in Msgs : ledger.receipts[m] # "none" => ledger'.receipts[m] # "none"
      /\ \A m \in Msgs : ledger'.receipts[m] = "agent_accepted" =>
           \/ ledger.receipts[m] = "agent_accepted"
           \/ status = "agent_accepted" /\ op.msg = m
  <2>1. ledger \in LedgerType /\ Named(ledger)
    BY <1>0, TypeParts DEF StableInv, ShapeInv
  <2>2. CASE ledger' = Over(ledger, l)
    <3> DEFINE k == Over(ledger, l)
    <3> HIDE DEF l
    <3>1. /\ k.status = status /\ k.msg = op.msg /\ k.turn = op.turn /\ k.anchor = op.anchor
          /\ \A m \in Msgs : ledger.receipts[m] # "none" => k.receipts[m] # "none"
          /\ \A m \in Msgs : k.receipts[m] = "agent_accepted" =>
               \/ ledger.receipts[m] = "agent_accepted"
               \/ status = "agent_accepted" /\ op.msg = m
          /\ k.receipts[op.msg] # "none"
      BY <1>0, <1>1, <2>1, OverFacts
    <3> HIDE DEF k
    <3>2. ledger' = k
      BY <2>2 DEF k
    <3> QED
      BY <1>1, <3>1, <3>2 DEF Named
  <2>3. CASE ledger' = ledger /\ op'.pc \in {"uncertain", "none"}
    BY <2>1, <2>3
  <2> QED
    BY <2>2, <2>3
<1> HIDE DEF l
<1>3. status = "agent_accepted" =>
        Sub(op.turn, op.msg) = "agent_accepted" /\ op.msg \in proof
  BY <1>0, <1>1 DEF StableInv, AcceptedInv, AcceptanceIsProven, Sub
<1>4. /\ turn[op.turn].msg = op.msg /\ turn[op.turn].anchor = op.anchor
      /\ turn[op.turn].phase # "closed"
      /\ Sub(op.turn, op.msg) \notin {"none", "aborted"}
      /\ op'.pc \in {"text", "enter"} => Sub(op.turn, op.msg) # "agent_accepted"
  BY <1>0 DEF StableInv, AfterInv, After
<1>5. ShapeInv'
  <2>1. Named(ledger)'
    BY <1>2 DEF Named
  <2>2. pane.anchor \in Nat
    BY <1>0, TypeParts DEF PaneType
  <2> QED
    BY <1>0, <1>1, <2>1, <2>2 DEF StableInv, ShapeInv, Before, LedgerOnly
<1>6. HolderInv' /\ TypedInv'
  BY <1>0 DEF StableInv, HolderInv, TypedInv, Sub, Unsettled, LedgerOnly
<1>7. BeforeInv' /\ AfterInv'
  BY <1>0, <1>2, <1>4 DEF StableInv, BeforeInv, AfterInv, Before, After, Sub, LedgerOnly
<1>8. ASSUME NEW t \in Turns, NEW m \in Msgs, typed'[m] > 0, Unsettled(t, m),
             turn[t].phase # "closed", turn[t].anchor = pane.anchor
      PROVE  HeldFor(t, m)'
  <2>1. t = op.turn /\ m = op.msg
    BY <1>0, <1>8, OnlyOwnOpen DEF After, LedgerOnly
  <2>2. HeldFor(t, m)
    BY <1>0, <1>8 DEF StableInv, PaneInv, LedgerOnly
  <2>3. status # "agent_accepted"
    BY <1>3, <1>8, <2>1 DEF Unsettled
  <2> QED
    BY <1>2, <1>4, <1>8, <2>1, <2>2, <2>3 DEF HeldFor, LedgerOnly
<1>9. op'.pc \in After /\ typed'[op.msg] > 0 /\ op.anchor = pane.anchor =>
        /\ ledger'.turn = op.turn /\ ledger'.msg = op.msg /\ ledger'.anchor = pane.anchor
        /\ ledger'.status \in Open
  BY <1>0, <1>2 DEF StableInv, PaneInv, After, HeldFor, LedgerOnly
<1>10. PaneInv'
  BY <1>0, <1>8, <1>9
  DEF StableInv, PaneInv, After, HeldFor, Unsettled, Sub, Excused, Holders, LedgerOnly
<1>11. PreparedInv'
  BY <1>0, <1>2 DEF StableInv, PreparedInv, LedgerOnly
<1>12. AcceptedInv'
  BY <1>0, <1>1, <1>2, <1>3
  DEF StableInv, AcceptedInv, AcceptanceIsProven, Sub, LedgerOnly
<1> QED
  BY <1>5, <1>6, <1>7, <1>10, <1>11, <1>12 DEF StableInv

\* The writes after the text, after Enter and of the outcome.
LEMMA ReachedLedgerStep ==
  ASSUME IInv, SaveTextLedger \/ SaveEnterLedger \/ SaveFinalLedger \/ SaveUncertainLedger
  PROVE  StableInv'
<1>1. TypeOK /\ StableInv
  BY DEF IInv
<1>2. CASE SaveTextLedger
  <2>1. LedgerOnly
    BY <1>1, <1>2, TypeParts, SpendTyped DEF SaveTextLedger, LedgerOnly, SaveFails
  <2>2. /\ op.pc = "text_ledger"
        /\ op'.turn = op.turn /\ op'.msg = op.msg /\ op'.anchor = op.anchor
        /\ \/ op'.pc = "text" /\ ledger' = Over(ledger, Dispatch("text_injected"))
           \/ /\ op'.pc = "uncertain"
              /\ ledger' \in {ledger, Over(ledger, Dispatch("text_injected"))}
    BY <1>1, <1>2, TypeParts
    DEF SaveTextLedger, Save, SaveFails, At, Goto, Fails, OpType
  <2> QED
    BY <2>1, <2>2, HoldingWrite DEF Open
<1>3. CASE SaveEnterLedger
  <2>1. LedgerOnly
    BY <1>1, <1>3, TypeParts, SpendTyped DEF SaveEnterLedger, LedgerOnly, SaveFails
  <2>2. /\ op.pc = "enter_ledger"
        /\ op'.turn = op.turn /\ op'.msg = op.msg /\ op'.anchor = op.anchor
        /\ \/ op'.pc = "enter" /\ ledger' = Over(ledger, Dispatch("enter_dispatched"))
           \/ /\ op'.pc = "uncertain"
              /\ ledger' \in {ledger, Over(ledger, Dispatch("enter_dispatched"))}
    BY <1>1, <1>3, TypeParts
    DEF SaveEnterLedger, Save, SaveFails, At, Goto, Fails, OpType
  <2> QED
    BY <2>1, <2>2, HoldingWrite DEF Open
<1>4. CASE SaveFinalLedger
  <2>1. LedgerOnly
    BY <1>1, <1>4, TypeParts, SpendTyped DEF SaveFinalLedger, LedgerOnly, SaveFails
  <2>2. /\ op.pc = "final" /\ op'.pc = "none" /\ op'.anchor = 0
        /\ ledger' \in {ledger, Over(ledger, Dispatch(op.outcome))}
    BY <1>4, NoOpFacts DEF SaveFinalLedger, Save, SaveFails, At, Done
  <2>3. op.outcome \in (Open \ {"prepared"}) \cup {"agent_accepted"}
    BY <1>1, <2>2 DEF StableInv, AfterInv, Outcomes, Entered, Open
  <2> QED
    BY <2>1, <2>2, <2>3, HoldingWrite
<1>5. CASE SaveUncertainLedger
  <2>1. LedgerOnly
    BY <1>1, <1>5, TypeParts, SpendTyped DEF SaveUncertainLedger, LedgerOnly, SaveFails
  <2>2. /\ op.pc = "uncertain"
        /\ \/ /\ op'.pc = "stall" /\ ledger' = Over(ledger, Dispatch("uncertain"))
              /\ op'.turn = op.turn /\ op'.msg = op.msg /\ op'.anchor = op.anchor
           \/ /\ op'.pc = "none" /\ op'.anchor = 0
              /\ ledger' \in {ledger, Over(ledger, Dispatch("uncertain"))}
    BY <1>1, <1>5, TypeParts, NoOpFacts
    DEF SaveUncertainLedger, Save, SaveFails, At, Goto, Done, OpType
  <2> QED
    BY <2>1, <2>2, HoldingWrite DEF Open
<1> QED
  BY <1>2, <1>3, <1>4, <1>5

\* A monitor gives up a message: the ledger says so before the Turn does.
LEMMA GiveUp ==
  ASSUME IInv, NEW t \in Turns, op.pc \in {"none", "observed"},
         turn[t].phase # "closed",
         Current(t).status \in {"prepared", "text_injected", "enter_dispatched"},
         NEW l,
         \/ ledger' = ledger
         \/ /\ ledger' = Over(ledger, l)
            /\ l \in LedgerType /\ Named(l) /\ l.status = "uncertain" /\ l.msg = turn[t].msg
            /\ \/ /\ ledger.msg = turn[t].msg
                  /\ l.turn = ledger.turn /\ l.anchor = ledger.anchor
               \/ /\ ledger.msg = turn[t].msg \/ ledger.status = "none"
                  /\ l.turn = t /\ l.anchor = turn[t].anchor,
         op'.pc = "stall", op'.turn = t, op'.msg = turn[t].msg, op'.anchor = turn[t].anchor,
         UNCHANGED <<turn, pane, typed, heard, proof, budget>>
  PROVE  StableInv'
<1>1. TypeOK /\ StableInv
  BY DEF IInv
<1>2. /\ turn[t].msg \in Msgs
      /\ Sub(t, turn[t].msg) \in {"prepared", "text_injected", "enter_dispatched"}
  BY <1>1, TypeParts, CurrentFacts DEF Sub
<1>3. /\ Named(ledger')
      /\ \/ ledger' = ledger
         \/ /\ ledger'.status = "uncertain" /\ ledger'.msg = turn[t].msg
            /\ \/ /\ ledger.msg = turn[t].msg
                  /\ ledger'.turn = ledger.turn /\ ledger'.anchor = ledger.anchor
               \/ /\ ledger.msg = turn[t].msg \/ ledger.status = "none"
                  /\ ledger'.turn = t /\ ledger'.anchor = turn[t].anchor
      /\ \A m \in Msgs : ledger.receipts[m] # "none" => ledger'.receipts[m] # "none"
      /\ \A m \in Msgs : ledger'.receipts[m] = "agent_accepted" =>
           ledger.receipts[m] = "agent_accepted"
  <2>1. ledger \in LedgerType /\ Named(ledger)
    BY <1>1, TypeParts DEF StableInv, ShapeInv
  <2>2. CASE ledger' = ledger
    BY <2>1, <2>2
  <2>3. CASE ledger' # ledger
    <3>1. l \in LedgerType /\ Named(l) /\ l.status = "uncertain"
      BY <2>3
    <3>2. ledger' \in {ledger, Over(ledger, l)}
      BY <2>3
    <3> QED
      BY <2>1, <2>3, <3>1, <3>2, LedgerWrite
  <2> QED
    BY <2>2, <2>3
<1>4. ShapeInv'
  <2>1. Named(ledger)'
    BY <1>3 DEF Named
  <2> QED
    BY <1>1, <1>2, <2>1 DEF StableInv, ShapeInv, HolderInv, Before, Sub
<1>5. HolderInv' /\ TypedInv'
  BY <1>1 DEF StableInv, HolderInv, TypedInv, Sub, Unsettled
<1>6. BeforeInv' /\ AfterInv'
  BY <1>1, <1>2 DEF StableInv, BeforeInv, AfterInv, Before, After, Sub
<1>7. ASSUME NEW u \in Turns, NEW m \in Msgs, typed[m] > 0, Unsettled(u, m),
             turn[u].phase # "closed", turn[u].anchor = pane.anchor
      PROVE  /\ ledger'.turn = u /\ ledger'.msg = m /\ ledger'.anchor = pane.anchor
             /\ ledger'.status \in Open
  <2>1. HeldFor(u, m)
    BY <1>1, <1>7 DEF StableInv, PaneInv
  <2>2. CASE ledger' = ledger
    BY <2>1, <2>2 DEF HeldFor
  <2>3. CASE ledger' # ledger
    <3>1. ledger.msg = turn[t].msg
      BY <1>3, <2>1, <2>3 DEF HeldFor, Open
    <3>2. m = turn[t].msg
      BY <2>1, <3>1 DEF HeldFor
    <3>3. u = t
      BY <1>1, <1>2, <1>7, <3>2 DEF StableInv, HolderInv, Unsettled
    <3> QED
      BY <1>3, <1>7, <2>1, <2>3, <3>2, <3>3 DEF HeldFor, Open
  <2> QED
    BY <2>2, <2>3
<1>8. PaneInv'
  BY <1>2, <1>7
  DEF PaneInv, After, HeldFor, Unsettled, Sub
<1>9. PreparedInv'
  BY <1>1, <1>3 DEF StableInv, PreparedInv
<1>10. AcceptedInv'
  BY <1>1, <1>2, <1>3 DEF StableInv, AcceptedInv, AcceptanceIsProven, Sub
<1> QED
  BY <1>4, <1>5, <1>6, <1>8, <1>9, <1>10 DEF StableInv

\* The transaction that a stall starts.
LEMMA MarkStallFacts ==
  ASSUME turn \in [Turns -> TurnType], NEW t \in Turns,
         NEW stage \in Stages \cup {"agent_accepted"},
         op' = [Mark(t, "none", stage) EXCEPT !.pc = "stall"]
  PROVE  /\ op'.pc = "stall" /\ op'.turn = t /\ op'.msg = turn[t].msg
         /\ op'.anchor = turn[t].anchor
<1> DEFINE pc == "stall"
           outcome == "none"
<1>1. pc \in Pcs /\ outcome \in Entered \cup Failures \cup {"none"}
  BY DEF Pcs
<1>2. op' = [Mark(t, outcome, stage) EXCEPT !.pc = pc]
  OBVIOUS
<1>3. pc = "stall"
  OBVIOUS
<1> HIDE DEF pc, outcome
<1> QED
  BY SMTT(30), <1>1, <1>2, <1>3, MarkFacts

\* The monitor's recovery of a prepared Turn.
LEMMA RecoverPreparedStep ==
  ASSUME IInv, NEW t \in Turns, RecoverPreparedTurn(t)
  PROVE  StableInv'
<1> DEFINE m == turn[t].msg
           l == [ledger EXCEPT !.status = "uncertain", !.msg = m, !.turn = t,
                               !.anchor = turn[t].anchor]
<1>1. TypeOK /\ StableInv /\ turn \in [Turns -> TurnType] /\ ledger \in LedgerType
  BY TypeParts DEF IInv
<1>2. /\ op.pc = "none" /\ turn[t].phase # "closed"
      /\ Current(t).status \in {"prepared", "text_injected", "enter_dispatched"}
      /\ UNCHANGED <<turn, pane, typed, heard, proof, budget>>
      /\ IF ledger.msg = m \/ ledger.status = "none"
         THEN ledger' = Over(ledger, l) ELSE ledger' = ledger
      /\ op' = [Mark(t, "none", "prepared") EXCEPT !.pc = "stall"]
  BY DEF RecoverPreparedTurn, At, Monitored, Save
<1>3. m \in Msgs /\ turn[t].anchor \in 0..MaxRestarts
  BY <1>1, <1>2, CurrentFacts DEF TurnType
<1>4. /\ l \in LedgerType /\ Named(l) /\ l.status = "uncertain" /\ l.msg = m
      /\ l.turn = t /\ l.anchor = turn[t].anchor
  BY <1>1, <1>3, StatusSets DEF LedgerType, Named
<1>5. op'.pc = "stall" /\ op'.turn = t /\ op'.msg = m /\ op'.anchor = turn[t].anchor
  <2> DEFINE stage == "prepared"
  <2>1. stage \in Stages \cup {"agent_accepted"}
    BY DEF Stages
  <2>2. op' = [Mark(t, "none", stage) EXCEPT !.pc = "stall"]
    BY <1>2
  <2> HIDE DEF stage
  <2> QED
    BY <1>1, <2>1, <2>2, MarkStallFacts
<1> HIDE DEF l
<1> QED
  BY <1>2, <1>4, <1>5, GiveUp

\* The save of a stall, whatever its reason.
LEMMA StallAsStep ==
  ASSUME IInv, NEW t \in Turns, op.pc \in {"none", "observed"}, turn[t].phase # "closed",
         Current(t).status \in {"text_injected", "enter_dispatched"}, StallAs(t)
  PROVE  StableInv'
<1> DEFINE l == [ledger EXCEPT !.status = "uncertain"]
           s == Current(t).status
<1>1. TypeOK /\ StableInv /\ turn \in [Turns -> TurnType] /\ ledger \in LedgerType
      /\ Named(ledger)
  BY TypeParts DEF IInv, StableInv, ShapeInv
<1>2. /\ UNCHANGED <<turn, pane, typed, heard, proof, budget>>
      /\ \/ ledger' = ledger
         \/ /\ ledger' = Over(ledger, l) /\ ledger.msg = turn[t].msg
            /\ ledger.status \in {"text_injected", "enter_dispatched"}
      /\ op' = [Mark(t, "none", s) EXCEPT !.pc = "stall"]
  BY DEF StallAs, Save
<1>3. ledger.status \in {"text_injected", "enter_dispatched"} =>
        /\ l \in LedgerType /\ Named(l) /\ l.status = "uncertain" /\ l.msg = ledger.msg
        /\ l.turn = ledger.turn /\ l.anchor = ledger.anchor
  BY <1>1, StatusSets DEF LedgerType, Named
<1>4. s \in Stages \cup {"agent_accepted"} /\ s \in {"text_injected", "enter_dispatched"}
  BY DEF Stages
<1> HIDE DEF l, s
<1>5. op'.pc = "stall" /\ op'.turn = t /\ op'.msg = turn[t].msg /\ op'.anchor = turn[t].anchor
  BY <1>1, <1>2, <1>4, MarkStallFacts
<1> QED
  BY <1>2, <1>3, <1>4, <1>5, GiveUp DEF s

-----------------------------------------------------------------------------
(* ------------------------ steps that write a Turn ------------------------ *)

\* Once its message may have been typed, a transaction writes outcomes into the
\* Turn whose current message it is.
LEMMA OutcomeWrite ==
  ASSUME IInv, op.pc \in {"typed", "entered", "enter", "stall"},
         NEW s \in SubmissionType, s.status \in Outcomes \cup {"text_injected"},
         NEW phase \in {"working", "stalled"},
         s.status = "agent_accepted" => op.pc = "enter" /\ op.msg \in proof,
         \/ turn' = Saved(op.turn, op.anchor, op.msg, phase, s)
         \/ turn' = turn /\ op'.pc \in {"uncertain", "none"},
         UNCHANGED <<ledger, pane, typed, heard, proof>>,
         budget'.restarts = budget.restarts,
         op'.pc \in {"text_ledger", "enter_ledger", "final", "uncertain", "none"},
         op'.pc = "text_ledger" => op.pc = "typed",
         op'.pc = "enter_ledger" => op.pc = "entered",
         op'.pc = "final" => op.pc = "enter" /\ op'.outcome = s.status /\ s.status \in Outcomes,
         op.pc = "stall" => op'.pc = "none",
         op'.pc = "none" => op'.anchor = 0,
         op'.pc # "none" => op'.turn = op.turn /\ op'.msg = op.msg /\ op'.anchor = op.anchor
  PROVE  StableInv'
<1>1. TypeOK /\ StableInv
  BY DEF IInv
<1>2. /\ op.turn \in Turns /\ op.msg \in Msgs /\ op.anchor \in 0..MaxRestarts
      /\ turn[op.turn].msg = op.msg /\ turn[op.turn].anchor = op.anchor
      /\ turn[op.turn].phase # "closed" /\ turn[op.turn].phase # "absent"
      /\ Sub(op.turn, op.msg) \notin {"none", "aborted"}
      /\ Store[op.turn] = Store[op.msg]
  BY <1>1, OpTurn DEF StableInv, AfterInv, After, HolderInv, ShapeInv
<1>3. /\ \A u \in Turns \ {op.turn} : turn'[u] = turn[u]
      /\ \A n \in Msgs \ {op.msg} : turn'[op.turn].sub[n] = turn[op.turn].sub[n]
      /\ \/ turn' = turn /\ op'.pc \in {"uncertain", "none"}
         \/ /\ turn'[op.turn].phase = phase /\ turn'[op.turn].msg = op.msg
            /\ turn'[op.turn].anchor = op.anchor
            /\ turn'[op.turn].sub[op.msg] = s
  <2>1. phase \in Blocking \cup Released
    BY DEF Blocking
  <2>2. turn' \in {turn, Saved(op.turn, op.anchor, op.msg, phase, s)}
    OBVIOUS
  <2>3. /\ \A u \in Turns \ {op.turn} : turn'[u] = turn[u]
        /\ \A n \in Msgs \ {op.msg} : turn'[op.turn].sub[n] = turn[op.turn].sub[n]
        /\ \/ turn' = turn
           \/ /\ turn'[op.turn].phase = phase /\ turn'[op.turn].msg = op.msg
              /\ turn'[op.turn].anchor = op.anchor
              /\ turn'[op.turn].sub[op.msg] = s
    BY <1>1, <1>2, <2>1, <2>2, TypeParts, TurnWrite
  <2>4. turn' = Saved(op.turn, op.anchor, op.msg, phase, s) =>
          /\ turn'[op.turn].phase = phase /\ turn'[op.turn].msg = op.msg
          /\ turn'[op.turn].anchor = op.anchor
          /\ turn'[op.turn].sub[op.msg] = s
    BY <1>1, <1>2, TypeParts DEF Saved, TurnType
  <2> QED
    BY <2>3, <2>4
<1>4. /\ turn'[op.turn].msg = op.msg /\ turn'[op.turn].anchor = op.anchor
      /\ turn'[op.turn].phase # "closed" /\ turn'[op.turn].phase # "absent"
      /\ turn'[op.turn].sub[op.msg].status \notin {"none", "aborted"}
      /\ op'.pc \in {"text_ledger", "enter_ledger"} =>
           turn'[op.turn].sub[op.msg].status # "agent_accepted"
      /\ op'.pc = "final" => turn'[op.turn].sub[op.msg].status = op'.outcome
  BY <1>2, <1>3 DEF Sub, Outcomes, Entered
<1>5. ShapeInv'
  <2>1. pane.anchor \in Nat
    BY <1>1, TypeParts DEF PaneType
  <2> QED
    BY <1>1, <1>2, <1>3, <1>4, <2>1 DEF StableInv, ShapeInv, Named, Before
<1>6. HolderInv'
  <2>1. ASSUME NEW t \in Turns, NEW m \in Msgs
        PROVE  /\ Sub(t, m)' # "none" => turn'[t].phase # "absent" /\ Store[t] = Store[m]
               /\ Unsettled(t, m)' => /\ turn'[t].msg = m
                                      /\ turn'[t].phase \in {"working", "stalled", "closed"}
    <3>1. CASE t # op.turn
      BY <1>1, <1>3, <3>1 DEF StableInv, HolderInv, Sub, Unsettled
    <3>2. CASE t = op.turn /\ m # op.msg
      BY <1>1, <1>2, <1>3, <1>4, <3>2 DEF StableInv, HolderInv, Sub, Unsettled
    <3>3. CASE t = op.turn /\ m = op.msg
      BY <1>1, <1>2, <1>3, <1>4, <3>3 DEF StableInv, HolderInv, Sub, Unsettled
    <3> QED
      BY <3>1, <3>2, <3>3
  <2>2. ASSUME NEW t \in Turns, NEW m \in Msgs, Sub(t, m)' \notin {"none", "aborted"}
        PROVE  Sub(t, m) \notin {"none", "aborted"}
    <3>1. CASE t # op.turn
      BY <1>3, <2>2, <3>1 DEF Sub
    <3>2. CASE t = op.turn /\ m # op.msg
      BY <1>3, <2>2, <3>2 DEF Sub
    <3>3. CASE t = op.turn /\ m = op.msg
      BY <1>2, <3>3
    <3> QED
      BY <3>1, <3>2, <3>3
  <2>3. ASSUME NEW t \in Turns, NEW u \in Turns, NEW m \in Msgs,
               Sub(t, m)' \notin {"none", "aborted"}, Sub(u, m)' \notin {"none", "aborted"}
        PROVE  t = u
    BY <1>1, <2>2, <2>3 DEF StableInv, HolderInv
  <2> QED
    BY <2>1, <2>3 DEF HolderInv
<1>7. TypedInv'
  BY <1>1, <1>2, <1>3, <1>4 DEF StableInv, TypedInv, Sub
<1>8. ASSUME NEW n \in Msgs \ {op.msg}, Excused(n)
      PROVE  Excused(n)'
  BY <1>2, <1>3, <1>4, <1>8 DEF Excused, Holders
<1>9. BeforeInv' /\ AfterInv'
  BY SMTT(30), <1>1, <1>4 DEF StableInv, BeforeInv, AfterInv, Before, After, Sub
<1>10. op.pc \in After /\ (typed[op.msg] > 0 /\ op.anchor = pane.anchor => HeldFor(op.turn, op.msg))
  BY <1>1 DEF StableInv, PaneInv, After
<1>11. PaneInv'
  <2>1. ASSUME NEW t \in Turns, NEW m \in Msgs, typed'[m] > 0, Unsettled(t, m)',
               turn'[t].phase # "closed", turn'[t].anchor = pane'.anchor
        PROVE  HeldFor(t, m)'
    <3>1. CASE t # op.turn
      <4>1. HeldFor(t, m)
        BY <1>1, <1>3, <2>1, <3>1 DEF StableInv, PaneInv, Unsettled, Sub
      <4> QED
        BY <4>1 DEF HeldFor
    <3>2. CASE t = op.turn /\ m # op.msg
      <4>1. Unsettled(t, m)
        BY <1>3, <2>1, <3>2 DEF Unsettled, Sub
      <4> QED
        BY <1>1, <1>2, <3>2, <4>1 DEF StableInv, HolderInv
    <3>3. CASE t = op.turn /\ m = op.msg
      BY <1>4, <1>10, <2>1, <3>3 DEF HeldFor
    <3> QED
      BY <3>1, <3>2, <3>3
  <2>2. op'.pc \in After /\ typed'[op'.msg] > 0 /\ op'.anchor = pane'.anchor
          => HeldFor(op.turn, op.msg)'
    BY <1>10 DEF HeldFor, After
  <2>3. op'.pc \in (After \ {"stall"}) \cup {"final"} =>
          \A n \in Msgs \ {op'.msg} : typed'[n] = 0 \/ Excused(n)'
    BY <1>1, <1>8 DEF StableInv, PaneInv, After
  <2> QED
    BY <2>1, <2>2, <2>3 DEF PaneInv, After
<1>12. PreparedInv'
  <2>1. ledger.status = "prepared" => ledger.turn \in Turns
    BY <1>1 DEF StableInv, ShapeInv, Named
  <2> QED
    BY <1>1, <1>2, <1>3, <1>4, <2>1 DEF StableInv, PreparedInv
<1>13. AcceptedInv'
  <2>1. \A m \in Msgs : ledger.receipts[m] = "agent_accepted" => m \in proof
    BY <1>1 DEF StableInv, AcceptedInv, AcceptanceIsProven
  <2>2. ASSUME NEW t \in Turns, NEW m \in Msgs, turn'[t].sub[m].status = "agent_accepted"
        PROVE  m \in proof /\ ledger.receipts[m] # "none"
    <3>1. CASE t # op.turn \/ m # op.msg
      BY <1>1, <1>3, <2>2, <3>1 DEF StableInv, AcceptedInv, AcceptanceIsProven, Sub
    <3>2. CASE t = op.turn /\ m = op.msg /\ turn' = turn
      BY <1>1, <2>2, <3>2 DEF StableInv, AcceptedInv, AcceptanceIsProven, Sub
    <3>3. CASE t = op.turn /\ m = op.msg /\ turn' # turn
      BY <1>1, <1>3, <2>2, <3>3 DEF StableInv, AfterInv, After
    <3> QED
      BY <3>1, <3>2, <3>3
  <2>3. ledger.status = "agent_accepted" =>
          /\ ledger.turn \in Turns /\ ledger.msg \in Msgs
          /\ ~(ledger.turn = op.turn /\ ledger.msg = op.msg)
          /\ turn[ledger.turn].sub[ledger.msg].status = "agent_accepted"
    BY <1>1 DEF StableInv, AcceptedInv, AcceptanceIsProven, ShapeInv, Named
  <2>4. ledger.status = "agent_accepted" =>
          turn'[ledger.turn].sub[ledger.msg].status = "agent_accepted"
    BY <1>2, <1>3, <2>3
  <2> QED
    BY <1>4, <2>1, <2>2, <2>3, <2>4 DEF AcceptedInv, AcceptanceIsProven, Sub
<1> QED
  BY <1>5, <1>6, <1>7, <1>9, <1>11, <1>12, <1>13 DEF StableInv

\* The stages and the outcome of a message that may have been typed.
LEMMA ReachedStateStep ==
  ASSUME IInv,
         \/ SaveTextState \/ SaveEnterState \/ SaveUncertainState \/ IdentityFailure
         \/ \E outcome \in Outcomes : PollAcceptance(outcome)
  PROVE  StableInv'
<1>1. TypeOK /\ StableInv /\ op \in OpType
  BY TypeParts DEF IInv
<1>2. CASE SaveTextState
  <2> DEFINE s == Reached("text_injected")
  <2>1. s \in SubmissionType /\ s.status = "text_injected"
    BY StatusSets, SubmissionTyped DEF Reached, Submission, Stages
  <2>2. /\ op.pc = "typed" /\ UNCHANGED <<ledger, pane, typed, heard, proof>>
        /\ op'.turn = op.turn /\ op'.msg = op.msg /\ op'.anchor = op.anchor
        /\ \/ /\ turn' = Saved(op.turn, op.anchor, op.msg, "working", s)
              /\ op'.pc = "text_ledger"
           \/ /\ turn' \in {turn, Saved(op.turn, op.anchor, op.msg, "working", s)}
              /\ op'.pc = "uncertain"
    BY <1>1, <1>2 DEF SaveTextState, SaveTurn, SaveTurnFails, At, Goto, Fails, OpType
  <2>3. budget'.restarts = budget.restarts
    BY <1>1, <1>2, TypeParts, SpendTyped DEF SaveTextState, SaveTurnFails
  <2>4. s.status \in Outcomes \cup {"text_injected"} /\ s.status # "agent_accepted"
    BY <2>1 DEF Outcomes, Entered
  <2> HIDE DEF s
  <2> QED
    BY <2>1, <2>2, <2>3, <2>4, OutcomeWrite
<1>3. CASE SaveEnterState
  <2> DEFINE s == Reached("enter_dispatched")
  <2>1. s \in SubmissionType /\ s.status = "enter_dispatched"
    BY StatusSets, SubmissionTyped DEF Reached, Submission, Stages
  <2>2. /\ op.pc = "entered" /\ UNCHANGED <<ledger, pane, typed, heard, proof>>
        /\ op'.turn = op.turn /\ op'.msg = op.msg /\ op'.anchor = op.anchor
        /\ \/ /\ turn' = Saved(op.turn, op.anchor, op.msg, "working", s)
              /\ op'.pc = "enter_ledger"
           \/ /\ turn' \in {turn, Saved(op.turn, op.anchor, op.msg, "working", s)}
              /\ op'.pc = "uncertain"
    BY <1>1, <1>3 DEF SaveEnterState, SaveTurn, SaveTurnFails, At, Goto, Fails, OpType
  <2>3. budget'.restarts = budget.restarts
    BY <1>1, <1>3, TypeParts, SpendTyped DEF SaveEnterState, SaveTurnFails
  <2>4. s.status \in Outcomes \cup {"text_injected"} /\ s.status # "agent_accepted"
    BY <2>1 DEF Outcomes, Entered
  <2> HIDE DEF s
  <2> QED
    BY <2>1, <2>2, <2>3, <2>4, OutcomeWrite
<1>4. CASE SaveUncertainState
  <2> DEFINE s == Submission("uncertain", op.stage, FALSE)
  <2>1. s \in SubmissionType /\ s.status = "uncertain"
    BY <1>1, StatusSets, SubmissionTyped DEF OpType, Submission
  <2>2. /\ op.pc = "stall" /\ op'.pc = "none" /\ op'.anchor = 0
        /\ UNCHANGED <<ledger, pane, typed, heard, proof>>
        /\ turn' \in {turn, Saved(op.turn, op.anchor, op.msg, "stalled", s)}
    BY <1>4, NoOpFacts DEF SaveUncertainState, SaveTurn, SaveTurnFails, At, Done
  <2>3. budget'.restarts = budget.restarts
    BY <1>1, <1>4, TypeParts, SpendTyped DEF SaveUncertainState, SaveTurnFails
  <2>4. s.status \in Outcomes \cup {"text_injected"} /\ s.status # "agent_accepted"
    BY <2>1 DEF Outcomes
  <2> HIDE DEF s
  <2> QED
    BY <2>1, <2>2, <2>3, <2>4, OutcomeWrite
<1>5. ASSUME NEW outcome \in Outcomes, PollAcceptance(outcome)
      PROVE  StableInv'
  <2> DEFINE s == Resolved(outcome)
             phase == PhaseAfter(outcome)
  <2>1. s \in SubmissionType /\ s.status = outcome /\ phase \in {"working", "stalled"}
    BY ResolvedFacts
  <2>2. /\ op.pc = "enter"
        /\ op'.turn = op.turn /\ op'.msg = op.msg /\ op'.anchor = op.anchor
        /\ UNCHANGED <<ledger, pane, typed, heard, proof>>
        /\ \/ /\ turn' = Saved(op.turn, op.anchor, op.msg, phase, s)
              /\ op'.pc = "final" /\ op'.outcome = outcome
           \/ /\ turn' \in {turn, Saved(op.turn, op.anchor, op.msg, phase, s)}
              /\ op'.pc = "uncertain"
    BY <1>1, <1>5 DEF PollAcceptance, SaveTurn, SaveTurnFails, At, Fails, OpType
  <2>3. budget'.restarts = budget.restarts
    BY <1>1, <1>5, TypeParts, SpendTyped DEF PollAcceptance, SaveTurnFails
  <2>4. outcome = "agent_accepted" => op.msg \in proof
    BY <1>5 DEF PollAcceptance, Seen
  <2> HIDE DEF s, phase
  <2> QED
    BY <2>1, <2>2, <2>3, <2>4, OutcomeWrite
<1>6. CASE IdentityFailure
  <2> DEFINE s == Resolved("uncertain")
  <2>1. "uncertain" \in Outcomes /\ "uncertain" # "agent_accepted"
    BY DEF Outcomes
  <2>2. s \in SubmissionType /\ s.status = "uncertain"
    BY <2>1, ResolvedFacts
  <2>3. /\ op.pc = "enter" /\ op'.pc = "uncertain"
        /\ op'.turn = op.turn /\ op'.msg = op.msg /\ op'.anchor = op.anchor
        /\ UNCHANGED <<ledger, turn, pane, typed, heard, proof>>
        /\ budget'.restarts = budget.restarts
    BY <1>1, <1>6 DEF IdentityFailure, At, Fails, OpType
  <2> HIDE DEF s
  <2> QED
    BY <2>1, <2>2, <2>3, OutcomeWrite
<1> QED
  BY <1>2, <1>3, <1>4, <1>5, <1>6

\* The submission is prepared, or it is aborted: its message was not typed.
LEMMA UntypedWrite ==
  ASSUME IInv, op.pc \in {"state", "aborted"},
         NEW s \in SubmissionType, NEW phase \in {"working", "idle", "asking"},
         \/ op.pc = "state" /\ s.status = "prepared" /\ phase = "working"
         \/ op.pc = "aborted" /\ s.status = "aborted",
         \/ turn' = Saved(op.turn, op.anchor, op.msg, phase, s)
         \/ turn' = turn /\ op'.pc # "ready",
         UNCHANGED <<ledger, pane, typed, heard, proof>>,
         budget'.restarts = budget.restarts,
         op.pc = "state" => op'.pc \in {"ready", "restore"},
         op.pc = "aborted" => op'.pc = "none",
         op'.pc = "none" => op'.anchor = 0,
         op'.pc # "none" => /\ op'.turn = op.turn /\ op'.msg = op.msg /\ op'.anchor = op.anchor
                            /\ op'.prev = op.prev
  PROVE  StableInv'
<1>1. TypeOK /\ StableInv
  BY DEF IInv
<1>2. /\ op.turn \in Turns /\ op.msg \in Msgs /\ op.anchor \in 0..MaxRestarts
      /\ turn[op.turn].phase # "closed" /\ typed[op.msg] = 0
      /\ Sub(op.turn, op.msg) # "agent_accepted"
      /\ Store[op.turn] = Store[op.msg]
      /\ \A t \in Turns \ {op.turn} : Sub(t, op.msg) \in {"none", "aborted"}
      /\ op.pc = "state" => /\ \A n \in Msgs : ~Unsettled(op.turn, n)
                            /\ ledger.status = "prepared" /\ ledger.turn = op.turn
                            /\ ledger.msg = op.msg /\ ledger.anchor = op.anchor
      /\ \A n \in Msgs \ {op.msg} : ~Unsettled(op.turn, n)
  BY <1>1, OpTurn DEF StableInv, BeforeInv, Before, AfterInv, HolderInv, ShapeInv, Binding, Sub
<1>3. /\ turn' \in [Turns -> TurnType]
      /\ \A u \in Turns \ {op.turn} : turn'[u] = turn[u]
      /\ \A n \in Msgs \ {op.msg} : turn'[op.turn].sub[n] = turn[op.turn].sub[n]
      /\ \/ turn' = turn /\ op'.pc # "ready"
         \/ /\ turn'[op.turn].phase = phase /\ turn'[op.turn].msg = op.msg
            /\ turn'[op.turn].anchor = op.anchor
            /\ turn'[op.turn].sub[op.msg] = s
  <2>1. phase \in Blocking \cup Released
    BY DEF Blocking, Released
  <2>2. turn' \in {turn, Saved(op.turn, op.anchor, op.msg, phase, s)}
    OBVIOUS
  <2>3. /\ turn' \in [Turns -> TurnType]
        /\ \A u \in Turns \ {op.turn} : turn'[u] = turn[u]
        /\ \A n \in Msgs \ {op.msg} : turn'[op.turn].sub[n] = turn[op.turn].sub[n]
        /\ \/ turn' = turn
           \/ /\ turn'[op.turn].phase = phase /\ turn'[op.turn].msg = op.msg
              /\ turn'[op.turn].anchor = op.anchor
              /\ turn'[op.turn].sub[op.msg] = s
    BY <1>1, <1>2, <2>1, <2>2, TypeParts, TurnWrite
  <2>4. turn' = Saved(op.turn, op.anchor, op.msg, phase, s) =>
          /\ turn'[op.turn].phase = phase /\ turn'[op.turn].msg = op.msg
          /\ turn'[op.turn].anchor = op.anchor
          /\ turn'[op.turn].sub[op.msg] = s
    BY <1>1, <1>2, TypeParts DEF Saved, TurnType
  <2> QED
    BY <2>3, <2>4
<1>4. /\ \A n \in Msgs \ {op.msg} :
           turn'[op.turn].sub[n].status \in {"none", "aborted", "agent_accepted"}
      /\ turn'[op.turn].phase # "closed"
  BY <1>2, <1>3 DEF Unsettled, Sub
<1>5. ShapeInv'
  <2>1. pane.anchor \in Nat
    BY <1>1, TypeParts DEF PaneType
  <2> QED
    BY <1>1, <1>2, <1>3, <2>1 DEF StableInv, ShapeInv, Named, Before
<1>6. HolderInv'
  <2>1. ASSUME NEW t \in Turns, NEW m \in Msgs
        PROVE  /\ Sub(t, m)' # "none" => turn'[t].phase # "absent" /\ Store[t] = Store[m]
               /\ Unsettled(t, m)' => /\ turn'[t].msg = m
                                      /\ turn'[t].phase \in {"working", "stalled", "closed"}
    <3>1. CASE t # op.turn
      BY <1>1, <1>3, <3>1 DEF StableInv, HolderInv, Sub, Unsettled
    <3>2. CASE t = op.turn /\ m # op.msg
      BY <1>1, <1>2, <1>3, <1>4, <3>2 DEF StableInv, HolderInv, Sub, Unsettled
    <3>3. CASE t = op.turn /\ m = op.msg
      BY <1>1, <1>2, <1>3, <3>3 DEF StableInv, HolderInv, Sub, Unsettled
    <3> QED
      BY <3>1, <3>2, <3>3
  <2>2. ASSUME NEW t \in Turns, NEW u \in Turns, NEW m \in Msgs,
               Sub(t, m)' \notin {"none", "aborted"}, Sub(u, m)' \notin {"none", "aborted"}
        PROVE  t = u
    <3>1. CASE m # op.msg
      <4>1. Sub(t, m) \notin {"none", "aborted"} /\ Sub(u, m) \notin {"none", "aborted"}
        BY <1>3, <2>2, <3>1 DEF Sub
      <4> QED
        BY <1>1, <4>1 DEF StableInv, HolderInv
    <3>2. CASE m = op.msg
      <4>1. \A x \in Turns \ {op.turn} : turn'[x].sub[m].status \in {"none", "aborted"}
        BY <1>2, <1>3, <3>2 DEF Sub
      <4> QED
        BY <2>2, <4>1 DEF Sub
    <3> QED
      BY <3>1, <3>2
  <2> QED
    BY <2>1, <2>2 DEF HolderInv
<1>7. TypedInv'
  <2>1. ASSUME NEW m \in Msgs, typed[m] > 0, NEW t \in Turns
        PROVE  turn'[t].sub[m] = turn[t].sub[m]
    BY <1>2, <1>3, <2>1
  <2> QED
    BY <1>1, <2>1 DEF StableInv, TypedInv, Sub
<1>8. ASSUME NEW n \in Msgs \ {op.msg}, typed[n] # 0
      PROVE  Excused(n)'
  <2>1. Excused(n)
    BY <1>1, <1>8 DEF StableInv, BeforeInv, Before
  <2>2. ASSUME NEW t \in Turns, turn'[t].sub[n].status # "none"
        PROVE  \/ ~Binding(turn'[t].sub[n])
               \/ turn'[t].sub[n].status = "agent_accepted"
               \/ turn'[t].phase = "closed"
               \/ turn'[t].anchor # pane.anchor
    <3>1. CASE t # op.turn
      BY <1>3, <2>1, <2>2, <3>1 DEF Excused, Holders
    <3>2. CASE t = op.turn
      <4>1. turn[t].sub[n].status \in {"none", "aborted", "agent_accepted"}
        BY <1>2, <3>2 DEF Unsettled, Sub
      <4>2. typed[n] > 0
        BY <1>1, <1>8, TypeParts
      <4>3. turn[t].sub[n].status = "aborted" => turn[t].sub[n].safe
        BY <1>1, <4>2 DEF StableInv, TypedInv, Sub
      <4> QED
        BY <1>3, <2>2, <3>2, <4>1, <4>3 DEF Binding
    <3> QED
      BY <3>1, <3>2
  <2> QED
    BY <2>2 DEF Excused, Holders
<1>9. BeforeInv'
  <2>1. op'.pc \in Before => op'.pc \in {"ready", "restore"} /\ op.pc = "state"
    BY DEF Before
  <2>2. op'.pc \in Before /\ op.prev.status = "agent_accepted" =>
          /\ op.prev.turn \in Turns /\ op.prev.msg \in Msgs
          /\ turn'[op.prev.turn].sub[op.prev.msg].status = "agent_accepted"
          /\ ~(op.prev.turn = op.turn /\ op.prev.msg = op.msg)
    BY <1>1, <1>3, <2>1 DEF StableInv, BeforeInv, ShapeInv, Named, Before, Sub
  <2>3. op'.pc \in Before =>
          /\ op.prev.status \in {"none", "resolved", "aborted"} \cup Entered
          /\ \A t \in Turns \ {op.turn} :
               turn'[t].sub[op.msg].status = "none" \/ ~Binding(turn'[t].sub[op.msg])
    BY <1>1, <1>3, <2>1 DEF StableInv, BeforeInv, Before, Sub
  <2>4. op'.pc \in Before => typed'[op.msg] = 0 /\ op'.turn = op.turn /\ op'.msg = op.msg
          /\ op'.prev = op.prev /\ op'.anchor = op.anchor
    BY <1>2 DEF Before
  <2>5. op'.pc = "ready" => turn'[op.turn].sub[op.msg].status = "prepared"
    BY <1>3
  <2> QED
    BY <1>2, <1>4, <1>8, <2>1, <2>2, <2>3, <2>4, <2>5 DEF BeforeInv, Sub
<1>10. AfterInv'
  BY <1>3, <1>4 DEF AfterInv, After
<1>11. PaneInv'
  <2>1. ASSUME NEW t \in Turns, NEW m \in Msgs, typed'[m] > 0, Unsettled(t, m)',
               turn'[t].phase # "closed", turn'[t].anchor = pane'.anchor
        PROVE  HeldFor(t, m)'
    <3>1. t # op.turn
      BY <1>2, <1>4, <2>1 DEF Unsettled, Sub
    <3>2. HeldFor(t, m)
      BY <1>1, <1>3, <2>1, <3>1 DEF StableInv, PaneInv, Unsettled, Sub
    <3> QED
      BY <3>2 DEF HeldFor
  <2> QED
    BY <2>1 DEF PaneInv, After
<1>12. PreparedInv'
  <2>1. ledger.status = "prepared" => ledger.msg = op.msg
    BY <1>1, <1>2 DEF StableInv, PreparedInv
  <2> QED
    BY <1>1, <1>2, <2>1 DEF StableInv, PreparedInv
<1>13. AcceptedInv'
  <2>1. ASSUME NEW t \in Turns, NEW m \in Msgs, turn'[t].sub[m].status = "agent_accepted"
        PROVE  m \in proof /\ ledger.receipts[m] # "none"
    <3>1. turn[t].sub[m].status = "agent_accepted"
      BY <1>2, <1>3, <2>1 DEF Sub
    <3> QED
      BY <1>1, <3>1 DEF StableInv, AcceptedInv, AcceptanceIsProven, Sub
  <2>2. /\ \A m \in Msgs : ledger.receipts[m] = "agent_accepted" => m \in proof
        /\ ledger.status = "agent_accepted" =>
             /\ turn[ledger.turn].sub[ledger.msg].status = "agent_accepted"
             /\ ledger.turn \in Turns /\ ledger.msg \in Msgs
             /\ ~(ledger.turn = op.turn /\ ledger.msg = op.msg)
    BY <1>1 DEF StableInv, AcceptedInv, AcceptanceIsProven, ShapeInv, Named
  <2>3. ledger.status = "agent_accepted" =>
          turn'[ledger.turn].sub[ledger.msg].status = "agent_accepted"
    BY <1>3, <2>2
  <2> QED
    BY <2>1, <2>2, <2>3 DEF AcceptedInv, AcceptanceIsProven, Sub
<1> QED
  BY <1>5, <1>6, <1>7, <1>9, <1>10, <1>11, <1>12, <1>13 DEF StableInv

\* The write of the prepared Turn, in any of its outcomes.
LEMMA PreparedStateStep ==
  ASSUME IInv, SavePreparedState \/ AbortState
  PROVE  StableInv'
<1>1. TypeOK /\ StableInv /\ op \in OpType
  BY TypeParts DEF IInv
<1>2. CASE SavePreparedState
  <2> DEFINE s == Prepared
  <2>1. s \in SubmissionType /\ s.status = "prepared"
    BY StatusSets, SubmissionTyped DEF Prepared, Submission
  <2>2. /\ op.pc = "state" /\ UNCHANGED <<ledger, pane, typed, heard, proof>>
        /\ op'.turn = op.turn /\ op'.msg = op.msg /\ op'.anchor = op.anchor /\ op'.prev = op.prev
        /\ \/ /\ turn' = Saved(op.turn, op.anchor, op.msg, "working", s)
              /\ op'.pc = "ready"
           \/ /\ turn' \in {turn, Saved(op.turn, op.anchor, op.msg, "working", s)}
              /\ op'.pc = "restore"
    BY <1>1, <1>2 DEF SavePreparedState, SaveTurn, SaveTurnFails, At, Goto, OpType
  <2>3. budget'.restarts = budget.restarts
    BY <1>1, <1>2, TypeParts, SpendTyped DEF SavePreparedState, SaveTurnFails
  <2> HIDE DEF s
  <2> QED
    BY <2>1, <2>2, <2>3, UntypedWrite
<1>3. CASE AbortState
  <2> DEFINE s == Submission("aborted", "prepared", op.safe)
             phase == op.back
  <2>1. s \in SubmissionType /\ s.status = "aborted" /\ phase \in {"idle", "asking"}
    BY <1>1, StatusSets, SubmissionTyped DEF OpType, Submission
  <2>2. /\ op.pc = "aborted" /\ UNCHANGED <<ledger, pane, typed, heard, proof>>
        /\ op'.pc = "none" /\ op'.anchor = 0
        /\ turn' \in {turn, Saved(op.turn, op.anchor, op.msg, phase, s)}
    BY <1>3, NoOpFacts DEF AbortState, SaveTurn, SaveTurnFails, At, Done
  <2>3. budget'.restarts = budget.restarts
    BY <1>1, <1>3, TypeParts, SpendTyped DEF AbortState, SaveTurnFails
  <2> HIDE DEF s, phase
  <2> QED
    BY <2>1, <2>2, <2>3, UntypedWrite
<1> QED
  BY <1>2, <1>3

-----------------------------------------------------------------------------
(* ------------------- steps that reconcile the records ------------------- *)

\* An open message of this agent process is the live one of its Turn, and
\* recovery keeps the pane held for it.
LEMMA OpenIsKept ==
  ASSUME TypeOK, StableInv, NEW t \in Turns, NEW m \in Msgs, typed[m] > 0,
         Unsettled(t, m), turn[t].phase # "closed", turn[t].anchor = pane.anchor
  PROVE  /\ ledger.turn = t /\ ledger.msg = m /\ ledger.anchor = pane.anchor
         /\ ledger.status \in Open /\ Live(t, m)
         /\ Reconcile(ledger).turn = t /\ Reconcile(ledger).msg = m
         /\ Reconcile(ledger).anchor = pane.anchor
         /\ Reconcile(ledger).status \in Open \ {"prepared"}
<1>1. HeldFor(t, m)
  BY DEF StableInv, PaneInv
<1>2. Live(t, m)
  BY DEF StableInv, HolderInv, Live
<1>3. Follows(ledger, Reconcile(ledger))
  BY SoundLedger, TypeParts, ReconcileFacts
<1> QED
  BY <1>1, <1>2, <1>3 DEF HeldFor, Follows

\* A poll that repairs the ledger of its Turn.
LEMMA PollTurnStep ==
  ASSUME IInv, NEW t \in Turns, NEW phase \in {"working", "idle", "asking"}, PollTurn(t, phase)
  PROVE  StableInv'
<1>1. TypeOK /\ StableInv /\ Sound(ledger) /\ TurnsProven
  BY SoundLedger DEF IInv
<1>2. /\ op.pc = "none" /\ UNCHANGED <<op, pane, typed, heard, proof, budget>>
      /\ turn[t].phase = "working" /\ Current(t).status = "agent_accepted"
      /\ ledger' = Reconcile(ledger)
  BY DEF PollTurn, At
<1>3. /\ Sound(ledger') /\ Follows(ledger, ledger')
  BY <1>1, <1>2, TypeParts, ReconcileFacts
<1>4. /\ \A u \in Turns : turn'[u].msg = turn[u].msg /\ turn'[u].anchor = turn[u].anchor
                          /\ turn'[u].sub = turn[u].sub
      /\ \A u \in Turns \ {t} : turn'[u].phase = turn[u].phase
      /\ turn'[t].phase \in {"working", "idle", "asking"}
  <2> DEFINE l == Reconcile(ledger)
             mine == l.status = "agent_accepted" /\ l.msg = turn[t].msg
  <2>1. turn[t].phase = "working"
        /\ turn' = [turn EXCEPT ![t].phase = IF mine THEN phase ELSE @]
    BY DEF PollTurn
  <2>2. PICK p \in {"working", "idle", "asking"} : turn' = [turn EXCEPT ![t].phase = p]
    <3>1. CASE mine
      BY <2>1, <3>1
    <3>2. CASE ~mine
      BY <2>1, <3>2
    <3> QED
      BY <3>1, <3>2
  <2> HIDE DEF mine
  <2> QED
    BY <1>1, <2>2, TypeParts DEF TurnType
<1>5. \A m \in Msgs : ~Unsettled(t, m)
  <2>1. turn[t].msg \in Msgs /\ Sub(t, turn[t].msg) = "agent_accepted"
    BY <1>1, <1>2, TypeParts, CurrentFacts DEF Sub
  <2> QED
    BY <1>1, <2>1 DEF StableInv, HolderInv, Unsettled
<1>6. ShapeInv'
  <2>1. Named(ledger)'
    BY <1>3 DEF Sound, Named
  <2> QED
    BY <1>1, <1>2, <1>4, <2>1 DEF StableInv, ShapeInv, Before
<1>7. HolderInv' /\ TypedInv'
  BY <1>1, <1>2, <1>4, <1>5 DEF StableInv, HolderInv, TypedInv, Sub, Unsettled
<1>8. BeforeInv' /\ AfterInv'
  BY <1>2 DEF BeforeInv, AfterInv, Before, After
<1>9. PaneInv'
  <2>1. ASSUME NEW u \in Turns, NEW m \in Msgs, typed'[m] > 0, Unsettled(u, m)',
               turn'[u].phase # "closed", turn'[u].anchor = pane'.anchor
        PROVE  HeldFor(u, m)'
    <3>1. Unsettled(u, m) /\ u # t
      BY <1>4, <1>5, <2>1 DEF Unsettled, Sub
    <3> QED
      BY <1>1, <1>2, <1>4, <2>1, <3>1, OpenIsKept DEF HeldFor
  <2> QED
    BY <1>2, <2>1 DEF PaneInv, After
<1>10. PreparedInv'
  <2>1. ledger'.status = "prepared" =>
          /\ ledger.status = "prepared" /\ ledger'.msg = ledger.msg /\ ledger'.turn = ledger.turn
          /\ ledger.turn \in Turns
    BY <1>1, <1>3 DEF Follows, Sound, Named
  <2> QED
    BY <1>1, <1>2, <1>4, <2>1 DEF StableInv, PreparedInv
<1>11. AcceptedInv'
  <2>1. ledger'.status = "agent_accepted" =>
          /\ turn[ledger'.turn].sub[ledger'.msg].status = "agent_accepted"
          /\ ledger'.turn \in Turns
    BY <1>3 DEF Sound, Named, Sub
  <2> QED
    BY <1>1, <1>2, <1>3, <1>4, <2>1
    DEF StableInv, AcceptedInv, AcceptanceIsProven, Sound, Sub
<1> QED
  BY <1>6, <1>7, <1>8, <1>9, <1>10, <1>11 DEF StableInv

\* The user gives a Turn up: what it did no longer holds the pane.
LEMMA CloseStep ==
  ASSUME IInv, NEW t \in Turns, Close(t)
  PROVE  StableInv'
<1>1. TypeOK /\ StableInv
  BY DEF IInv
<1> DEFINE l == [ledger EXCEPT !.status = "resolved"]
<1>2. /\ op.pc = "observed" \/ op.turn # t
      /\ UNCHANGED <<op, pane, typed, heard, proof>>
      /\ turn' = [turn EXCEPT ![t].phase = "closed"]
      /\ turn[t].phase # "absent"
      /\ \/ ledger' = ledger
         \/ ledger' = Over(ledger, l) /\ ledger.turn = t
  BY DEF Close, Mates, Save
<1>3. budget'.restarts = budget.restarts
  BY <1>1, TypeParts, SpendTyped DEF Close
<1>4. /\ \A u \in Turns : turn'[u].msg = turn[u].msg /\ turn'[u].anchor = turn[u].anchor
                          /\ turn'[u].sub = turn[u].sub
      /\ \A u \in Turns \ {t} : turn'[u].phase = turn[u].phase
      /\ turn'[t].phase = "closed"
  BY <1>1, <1>2, TypeParts DEF TurnType
<1>5. /\ Named(ledger')
      /\ \/ ledger' = ledger
         \/ ledger'.status = "resolved" /\ ledger.turn = t
      /\ \A m \in Msgs : ledger.receipts[m] # "none" => ledger'.receipts[m] # "none"
      /\ \A m \in Msgs : ledger'.receipts[m] = "agent_accepted" =>
           ledger.receipts[m] = "agent_accepted"
  <2>1. ledger \in LedgerType /\ Named(ledger)
    BY <1>1, TypeParts DEF StableInv, ShapeInv
  <2>2. l \in LedgerType /\ Named(l) /\ l.status = "resolved"
    BY <2>1 DEF LedgerType, Named
  <2>3. ledger' \in {ledger, Over(ledger, l)} /\ (ledger' = ledger \/ ledger.turn = t)
    BY <1>2
  <2> HIDE DEF l
  <2> QED
    BY <2>1, <2>2, <2>3, LedgerWrite
<1>6. ShapeInv'
  <2>1. Named(ledger)'
    BY <1>5 DEF Named
  <2> QED
    BY <1>1, <1>2, <1>3, <1>4, <2>1 DEF StableInv, ShapeInv, Named, Before
<1>7. HolderInv' /\ TypedInv'
  BY <1>1, <1>2, <1>4 DEF StableInv, HolderInv, TypedInv, Sub, Unsettled
<1>8. ASSUME NEW n \in Msgs, Excused(n) PROVE Excused(n)'
  BY <1>2, <1>4, <1>8 DEF Excused, Holders
<1>9. op.pc \notin {"none", "observed"} =>
        /\ op.turn \in Turns \ {t} /\ op.msg \in Msgs
        /\ turn'[op.turn].phase = turn[op.turn].phase
        /\ ledger.turn = op.turn => ledger' = ledger
  BY <1>1, <1>2, <1>4, <1>5, OpTurn
<1>10. BeforeInv'
  <2> SUFFICES ASSUME op.pc \in Before PROVE BeforeInv'
    BY <1>2 DEF BeforeInv
  <2>1. op.prev.status = "agent_accepted" => op.prev.turn \in Turns
    BY <1>1 DEF StableInv, ShapeInv, Named
  <2>2. op.pc \notin {"none", "observed"} /\ op'.pc \in Before
    BY <1>2 DEF Before
  <2>3. \A n \in Msgs \ {op.msg} : typed[n] = 0 \/ Excused(n)
    BY <1>1 DEF StableInv, BeforeInv
  <2>4. \A n \in Msgs \ {op'.msg} : typed'[n] = 0 \/ Excused(n)'
    BY <1>2, <1>8, <2>3
  <2>5. /\ typed'[op'.msg] = 0
        /\ turn'[op'.turn].phase # "closed"
        /\ \A u \in Turns \ {op'.turn} :
             turn'[u].sub[op'.msg].status = "none" \/ ~Binding(turn'[u].sub[op'.msg])
        /\ op'.pc \in {"ledger", "state"} => \A n \in Msgs : ~Unsettled(op.turn, n)'
        /\ op'.pc \in {"ledger", "state"} =>
             turn'[op'.turn].sub[op'.msg].status \in {"none", "aborted"}
        /\ op'.pc \in {"ready", "abort", "aborted"} =>
             turn'[op'.turn].sub[op'.msg].status = "prepared"
    BY <1>1, <1>2, <1>4, <1>9, <2>2 DEF StableInv, BeforeInv, Sub, Unsettled
  <2>6. /\ op'.pc \in {"state", "ready"} =>
             /\ ledger'.status = "prepared" /\ ledger'.turn = op'.turn
             /\ ledger'.msg = op'.msg /\ ledger'.anchor = op'.anchor
        /\ op'.prev.status \in {"none", "resolved", "aborted"} \cup Entered
        /\ op'.prev.status = "agent_accepted" =>
             /\ turn'[op'.prev.turn].sub[op'.prev.msg].status = "agent_accepted"
             /\ ~(op'.prev.turn = op'.turn /\ op'.prev.msg = op'.msg)
    BY <1>1, <1>2, <1>4, <1>9, <2>1, <2>2 DEF StableInv, BeforeInv, Sub
  <2> QED
    BY <2>4, <2>5, <2>6 DEF BeforeInv, Sub
<1>11. AfterInv'
  <2>1. op.pc # "none" => op.turn \in Turns /\ op.msg \in Msgs
    BY <1>1, OpTurn
  <2> QED
    BY <1>1, <1>2, <1>4, <1>5, <1>9, <2>1 DEF StableInv, AfterInv, After, Sub
<1>12. PaneInv'
  <2>1. ASSUME NEW u \in Turns, NEW m \in Msgs, typed'[m] > 0, Unsettled(u, m)',
               turn'[u].phase # "closed", turn'[u].anchor = pane'.anchor
        PROVE  HeldFor(u, m)'
    <3>1. Unsettled(u, m) /\ u # t
      BY <1>4, <2>1 DEF Unsettled, Sub
    <3>2. HeldFor(u, m)
      BY <1>1, <1>2, <1>4, <2>1, <3>1 DEF StableInv, PaneInv
    <3> QED
      BY <1>2, <1>5, <3>1, <3>2 DEF HeldFor
  <2>2. op'.pc \in After /\ typed'[op'.msg] > 0 /\ op'.anchor = pane'.anchor
          => HeldFor(op.turn, op.msg)'
    BY <1>1, <1>2, <1>9 DEF StableInv, PaneInv, HeldFor, After
  <2>3. op'.pc \in (After \ {"stall"}) \cup {"final"} =>
          \A n \in Msgs \ {op'.msg} : typed'[n] = 0 \/ Excused(n)'
    <3>1. op.pc \in (After \ {"stall"}) \cup {"final"} =>
            \A n \in Msgs \ {op.msg} : typed[n] = 0 \/ Excused(n)
      BY <1>1 DEF StableInv, PaneInv
    <3> QED
      BY <1>2, <1>8, <3>1
  <2> QED
    BY <2>1, <2>2, <2>3 DEF PaneInv
<1>13. PreparedInv'
  <2>1. ledger.status = "prepared" => ledger.turn \in Turns
    BY <1>1 DEF StableInv, ShapeInv, Named
  <2> QED
    BY <1>1, <1>2, <1>4, <1>5, <2>1 DEF StableInv, PreparedInv
<1>14. AcceptedInv'
  <2>1. ledger.status = "agent_accepted" => ledger.turn \in Turns
    BY <1>1 DEF StableInv, ShapeInv, Named
  <2>2. op.pc # "none" => op.turn \in Turns
    BY <1>1, OpTurn
  <2> QED
    BY <1>1, <1>2, <1>4, <1>5, <2>1, <2>2
    DEF StableInv, AcceptedInv, AcceptanceIsProven, Sub
<1> QED
  BY <1>6, <1>7, <1>10, <1>11, <1>12, <1>13, <1>14 DEF StableInv

\* The monitor commits what it saw, if the ledger still names its message.
LEMMA CommitStep ==
  ASSUME IInv, CommitObserved
  PROVE  StableInv'
<1>1. TypeOK /\ StableInv /\ Sound(ledger) /\ TurnsProven
  BY SoundLedger DEF IInv
<1> DEFINE l == Reconcile(ledger)
           phase == PhaseAfter(op.outcome)
           s == Resolved(op.outcome)
<1>2. /\ op.pc = "observed" /\ op.turn \in Turns /\ op.msg \in Msgs
      /\ op.anchor \in 0..MaxRestarts /\ op.outcome \in Outcomes
      /\ turn[op.turn].msg = op.msg /\ turn[op.turn].anchor = op.anchor
      /\ Sub(op.turn, op.msg) = "enter_dispatched"
      /\ Current(op.turn).status = "enter_dispatched"
  BY <1>1, OpTurn DEF CommitObserved, At, StableInv, AfterInv
<1>3. CASE turn[op.turn].phase = "closed"
  <2>1. UNCHANGED <<ledger, turn, pane, typed, heard, proof, budget>>
        /\ op'.pc = "none" /\ op'.anchor = 0 /\ pane.anchor \in Nat
    BY <1>1, <1>3, TypeParts, NoOpFacts DEF CommitObserved, Done, PaneType
  <2>2. ShapeInv' /\ HolderInv' /\ TypedInv'
    BY <1>1, <2>1 DEF StableInv, ShapeInv, Named, Before, HolderInv, TypedInv, Sub, Unsettled
  <2>3. BeforeInv' /\ AfterInv' /\ PaneInv'
    BY <1>1, <2>1 DEF StableInv, BeforeInv, AfterInv, PaneInv, Before, After, HeldFor, Sub,
                      Unsettled
  <2>4. PreparedInv' /\ AcceptedInv'
    BY <1>1, <2>1 DEF StableInv, PreparedInv, AcceptedInv, AcceptanceIsProven, Sub
  <2> QED
    BY <2>2, <2>3, <2>4 DEF StableInv
<1>4. CASE turn[op.turn].phase # "closed" /\ ~(l.msg = op.msg /\ l.status = "enter_dispatched")
  <2>1. StallAs(op.turn)
    BY <1>4 DEF CommitObserved
  <2> QED
    BY <1>2, <1>4, <2>1, StallAsStep
<1>5. CASE turn[op.turn].phase # "closed" /\ l.msg = op.msg /\ l.status = "enter_dispatched"
  <2>1. /\ ledger' = l /\ turn' = Saved(op.turn, op.anchor, op.msg, phase, s)
        /\ op' = [op EXCEPT !.pc = "final"]
        /\ UNCHANGED <<pane, typed, heard, proof, budget>>
    BY <1>5 DEF CommitObserved, SaveTurn, Goto
  <2>2. s \in SubmissionType /\ s.status = op.outcome /\ phase \in {"working", "stalled"}
    BY <1>2, ResolvedFacts
  <2>3. /\ Sound(l) /\ Follows(ledger, l)
        /\ l.receipts[op.msg] # "none"
    BY <1>1, <1>5, TypeParts, ReconcileFacts DEF ReceiptStatuses, Entered
  <2>4. /\ op'.pc = "final" /\ op'.turn = op.turn /\ op'.msg = op.msg
        /\ op'.anchor = op.anchor /\ op'.outcome = op.outcome
    BY <1>1, <2>1, TypeParts DEF OpType
  <2> HIDE DEF phase, s
  <2>5. /\ \A u \in Turns \ {op.turn} : turn'[u] = turn[u]
        /\ \A n \in Msgs \ {op.msg} : turn'[op.turn].sub[n] = turn[op.turn].sub[n]
        /\ turn'[op.turn].phase = phase /\ turn'[op.turn].msg = op.msg
        /\ turn'[op.turn].anchor = op.anchor
        /\ turn'[op.turn].sub[op.msg] = s
    BY <1>1, <1>2, <2>1, TypeParts DEF Saved, TurnType
  <2> HIDE DEF l
  <2>6. op.outcome \notin {"none", "aborted"}
    BY <1>2 DEF Outcomes, Entered
  <2>7. \A n \in Msgs \ {op.msg} : ~Unsettled(op.turn, n)
    BY <1>1, <1>2 DEF StableInv, HolderInv
  <2>8. turn[op.turn].phase # "absent" /\ Store[op.turn] = Store[op.msg]
    BY <1>1, <1>2 DEF StableInv, HolderInv
  <2>9. ShapeInv'
    <3>1. Named(ledger)'
      BY <2>1, <2>3 DEF Sound, Named
    <3> QED
      BY <1>1, <1>2, <2>1, <2>4, <2>5, <2>8, <3>1 DEF StableInv, ShapeInv, Before
  <2>10. ASSUME NEW t \in Turns, NEW m \in Msgs, t # op.turn \/ m # op.msg
         PROVE  turn'[t].sub[m] = turn[t].sub[m]
    BY <2>5, <2>10
  <2>11. HolderInv'
    <3>1. ASSUME NEW t \in Turns, NEW m \in Msgs
          PROVE  /\ Sub(t, m)' # "none" => turn'[t].phase # "absent" /\ Store[t] = Store[m]
                 /\ Unsettled(t, m)' => /\ turn'[t].msg = m
                                        /\ turn'[t].phase \in {"working", "stalled", "closed"}
      <4>1. CASE t # op.turn
        BY <1>1, <2>5, <4>1 DEF StableInv, HolderInv, Sub, Unsettled
      <4>2. CASE t = op.turn /\ m # op.msg
        BY <1>1, <2>2, <2>5, <2>7, <4>2 DEF StableInv, HolderInv, Sub, Unsettled
      <4>3. CASE t = op.turn /\ m = op.msg
        BY <2>2, <2>5, <2>8, <4>3 DEF Sub, Unsettled
      <4> QED
        BY <4>1, <4>2, <4>3
    <3>2. ASSUME NEW t \in Turns, NEW m \in Msgs, Sub(t, m)' \notin {"none", "aborted"}
          PROVE  Sub(t, m) \notin {"none", "aborted"}
      <4>1. CASE t # op.turn \/ m # op.msg
        BY <2>10, <3>2, <4>1 DEF Sub
      <4>2. CASE t = op.turn /\ m = op.msg
        BY <1>2, <4>2
      <4> QED
        BY <4>1, <4>2
    <3>3. ASSUME NEW t \in Turns, NEW u \in Turns, NEW m \in Msgs,
                 Sub(t, m)' \notin {"none", "aborted"}, Sub(u, m)' \notin {"none", "aborted"}
          PROVE  t = u
      BY <1>1, <3>2, <3>3 DEF StableInv, HolderInv
    <3> QED
      BY <3>1, <3>3 DEF HolderInv
  <2>12. TypedInv'
    <3>1. turn'[op.turn].sub[op.msg].status \notin {"none", "aborted"}
      BY <2>2, <2>5, <2>6
    <3> QED
      BY SMTT(30), <1>1, <1>2, <2>1, <2>5, <3>1 DEF StableInv, TypedInv, Sub
  <2>13. BeforeInv' /\ AfterInv'
    BY <1>2, <2>1, <2>2, <2>3, <2>4, <2>5, <2>6 DEF BeforeInv, AfterInv, Before, After, Sub
  <2>14. ASSUME NEW t \in Turns, NEW m \in Msgs, typed[m] > 0, Unsettled(t, m),
                turn[t].phase # "closed", turn[t].anchor = pane.anchor
         PROVE  /\ t = op.turn /\ m = op.msg
                /\ l.turn = t /\ l.msg = m /\ l.anchor = pane.anchor /\ l.status \in Open
    <3>1. /\ l.turn = t /\ l.msg = m /\ l.anchor = pane.anchor /\ l.status \in Open
      BY <1>1, <2>14, OpenIsKept DEF l
    <3>2. m = op.msg
      BY <1>5, <3>1 DEF l
    <3>3. t = op.turn
      BY <1>1, <1>2, <2>14, <3>2 DEF StableInv, HolderInv, Unsettled
    <3> QED
      BY <3>1, <3>2, <3>3
  <2>15. ASSUME NEW n \in Msgs \ {op.msg}, typed[n] # 0
         PROVE  Excused(n)'
    <3>1. typed[n] > 0
      BY <1>1, <2>15, TypeParts
    <3>2. ASSUME NEW t \in Turns, turn'[t].sub[n].status # "none"
          PROVE  \/ ~Binding(turn'[t].sub[n])
                 \/ turn'[t].sub[n].status = "agent_accepted"
                 \/ turn'[t].phase = "closed"
                 \/ turn'[t].anchor # pane.anchor
      <4>1. turn'[t].sub[n] = turn[t].sub[n]
        BY <2>10
      <4>2. turn[t].sub[n].status = "aborted" => turn[t].sub[n].safe
        BY <1>1, <3>1 DEF StableInv, TypedInv, Sub
      <4>3. \/ turn[t].sub[n].status \in {"aborted", "agent_accepted"}
            \/ turn[t].phase = "closed" \/ turn[t].anchor # pane.anchor
        BY <2>14, <2>15, <3>1, <3>2, <4>1 DEF Unsettled, Sub
      <4>4. turn[t].phase = "closed" \/ turn[t].anchor # pane.anchor =>
              \/ turn[t].sub[n].status \in {"aborted", "agent_accepted"}
              \/ turn'[t].phase = "closed" \/ turn'[t].anchor # pane.anchor
        BY <1>2, <1>5, <2>5, <2>7, <3>2, <4>1 DEF Unsettled, Sub
      <4> QED
        BY <4>1, <4>2, <4>3, <4>4 DEF Binding
    <3> QED
      BY <2>1, <3>2 DEF Excused, Holders
  <2>16. PaneInv'
    <3>1. ASSUME NEW t \in Turns, NEW m \in Msgs, typed'[m] > 0, Unsettled(t, m)',
                 turn'[t].phase # "closed", turn'[t].anchor = pane'.anchor
          PROVE  HeldFor(t, m)'
      <4>1. Unsettled(t, m)
        <5>1. CASE t # op.turn \/ m # op.msg
          BY <2>10, <3>1, <5>1 DEF Unsettled, Sub
        <5>2. CASE t = op.turn /\ m = op.msg
          BY <1>2, <5>2 DEF Unsettled
        <5> QED
          BY <5>1, <5>2
      <4>2. turn[t].phase # "closed" /\ turn[t].anchor = pane.anchor
        BY <1>2, <1>5, <2>1, <2>5, <3>1
      <4> QED
        BY <2>1, <2>14, <3>1, <4>1, <4>2 DEF HeldFor
    <3> QED
      BY <2>1, <2>4, <2>15, <3>1 DEF PaneInv, After
  <2>17. PreparedInv'
    BY <1>5, <2>1 DEF PreparedInv, l
  <2>18. AcceptedInv'
    <3>1. ASSUME NEW t \in Turns, NEW m \in Msgs, turn'[t].sub[m].status = "agent_accepted"
          PROVE  m \in proof /\ l.receipts[m] # "none"
      <4>1. CASE t # op.turn \/ m # op.msg
        BY <1>1, <2>3, <2>10, <3>1, <4>1 DEF TurnsProven, Sound, Sub
      <4>2. CASE t = op.turn /\ m = op.msg
        BY <1>1, <1>2, <2>2, <2>3, <2>5, <3>1, <4>2 DEF StableInv, AcceptedInv
      <4> QED
        BY <4>1, <4>2
    <3>2. l.status # "agent_accepted"
      BY <1>5 DEF l
    <3>3. op.outcome = "agent_accepted" => op.msg \in proof
      BY <1>1, <1>2 DEF StableInv, AcceptedInv
    <3> QED
      BY SMTT(30), <2>1, <2>2, <2>3, <2>4, <2>5, <3>1, <3>2, <3>3
      DEF AcceptedInv, AcceptanceIsProven, Sub, Sound
  <2> QED
    BY <2>9, <2>11, <2>12, <2>13, <2>16, <2>17, <2>18 DEF StableInv
<1> QED
  BY <1>3, <1>4, <1>5

\* A command may begin: its message was not typed, no other Turn claims it, and
\* nothing typed into this agent process is still open.
LEMMA BeginIsFresh ==
  ASSUME TypeOK, StableInv, NEW t \in Turns, NEW m \in Msgs, NEW back,
         Begin(t, m, back),
         \/ /\ turn[t].phase = "absent"
            /\ \A u \in Mates(t) :
                 turn[u].anchor = pane.anchor => turn[u].phase \notin Blocking
         \/ /\ turn[t].phase = "asking" /\ turn[t].anchor = pane.anchor
            /\ Current(t).status \in {"agent_accepted", "aborted"}
            /\ Holders(m) \subseteq {t}
            /\ ledger.msg = m => ledger.turn = t
  PROVE  /\ \A u \in Turns : Sub(u, m) \in {"none", "aborted"}
         /\ \A u \in Turns \ {t} : Sub(u, m) = "none" \/ ~Binding(turn[u].sub[m])
         /\ \A n \in Msgs : ~Unsettled(t, n)
         /\ typed[m] = 0
         /\ \A u \in Turns, n \in Msgs :
              typed[n] > 0 /\ Unsettled(u, n) =>
                turn[u].phase = "closed" \/ turn[u].anchor # pane.anchor
         /\ Reconciled.status \in {"none", "resolved", "aborted"} \cup Entered
<1> DEFINE l == Reconciled
           held == {u \in Holders(m) : Binding(turn[u].sub[m])}
<1>0. Sound(ledger) /\ TurnsProven /\ pane.anchor \in 0..MaxRestarts
      /\ turn \in [Turns -> TurnType] /\ typed \in [Msgs -> 0..2]
  BY SoundLedger, TypeParts DEF PaneType
<1>1. /\ Store[t] = Store[m] /\ ~Replays(l, m) /\ Preflight(l, t)
      /\ \A u \in Holders(m) : turn[u].anchor = pane.anchor
      /\ \A u \in held : turn[u].msg = m /\ turn[u].phase \notin Released
      /\ \/ ledger.receipts[m] = "none"
         \/ ledger.msg = m /\ ledger.status \in Entered
      /\ ledger.msg = m => ledger.anchor = pane.anchor
  BY DEF Begin, ReceiptsAllow
<1>2. \A n \in Msgs : ~Unsettled(t, n)
  BY DEF StableInv, HolderInv, Unsettled
<1>3. ASSUME NEW u \in Turns, Sub(u, m) # "none", Binding(turn[u].sub[m])
      PROVE  /\ u \in held /\ turn[u].phase \in Blocking /\ u \in Mates(t)
             /\ turn[u].anchor = pane.anchor /\ turn[u].msg = m
  <2>1. u \in Holders(m) /\ u \in held
    BY <1>3 DEF Holders, Sub
  <2>2. turn[u].phase # "absent" /\ Store[u] = Store[m]
    BY <1>3 DEF StableInv, HolderInv
  <2>3. turn[u].phase \in Blocking \cup Released \cup {"absent"}
    BY <1>0 DEF TurnType
  <2> QED
    BY <1>1, <2>1, <2>2, <2>3 DEF Mates
<1>4. ASSUME NEW u \in Turns, Sub(u, m) # "none", Binding(turn[u].sub[m]),
             turn[t].phase = "absent",
             \A x \in Mates(t) : turn[x].anchor = pane.anchor => turn[x].phase \notin Blocking
      PROVE  FALSE
  BY <1>3, <1>4
<1>5. ASSUME NEW u \in Turns, Sub(u, m) \notin {"none", "aborted"},
             turn[t].phase = "asking", turn[t].anchor = pane.anchor,
             Current(t).status \in {"agent_accepted", "aborted"},
             Holders(m) \subseteq {t}, ledger.msg = m => ledger.turn = t
      PROVE  FALSE
  <2>1. Binding(turn[u].sub[m]) /\ u = t
    BY <1>5 DEF Binding, Sub, Holders
  <2>2. turn[t].msg = m
    BY <1>3, <1>5, <2>1
  <2>3. Current(t) = turn[t].sub[m]
    BY <1>0, <2>2, CurrentFacts
  <2>4. Sub(t, m) = "agent_accepted"
    BY <1>5, <2>1, <2>3 DEF Sub
  <2>5. ledger.receipts[m] # "none"
    BY <2>4 DEF StableInv, AcceptedInv
  <2>6. ledger.msg = m /\ ledger.status \in Entered /\ ledger.anchor = pane.anchor
        /\ ledger.turn = t
    BY <1>1, <1>5, <2>5
  <2>7. Live(t, m)
    BY <1>5, <2>2 DEF Live
  <2>8. l.status = "agent_accepted" /\ l.turn = t /\ l.msg = m
    BY <1>0, <2>4, <2>6, <2>7, ReconciledFacts
  <2>9. Replays(l, m)
    BY <1>5, <2>2, <2>8 DEF Replays, Entered, Released
  <2> QED
    BY <1>1, <2>9
<1>6. \A u \in Turns : Sub(u, m) \in {"none", "aborted"}
  <2>1. ASSUME NEW u \in Turns, Sub(u, m) \notin {"none", "aborted"}
        PROVE  FALSE
    <3>1. Binding(turn[u].sub[m]) /\ Sub(u, m) # "none"
      BY <2>1 DEF Binding, Sub
    <3> QED
      BY <1>4, <1>5, <2>1, <3>1
  <2> QED
    BY <2>1
<1>7. \A u \in Turns \ {t} : Sub(u, m) = "none" \/ ~Binding(turn[u].sub[m])
  <2>1. ASSUME NEW u \in Turns \ {t}, Sub(u, m) # "none", Binding(turn[u].sub[m])
        PROVE  FALSE
    <3>1. u \in Holders(m)
      BY <2>1 DEF Holders, Sub
    <3>2. ~(Holders(m) \subseteq {t})
      BY <2>1, <3>1
    <3> QED
      BY <1>4, <2>1, <3>2
  <2> QED
    BY <2>1
<1>8. typed[m] = 0
  BY <1>0, <1>6 DEF StableInv, TypedInv
<1>9. Sound(l)
  BY <1>0, ReconciledFacts
<1>10. ASSUME NEW u \in Turns, NEW n \in Msgs, typed[n] > 0, Unsettled(u, n),
              turn[u].phase # "closed", turn[u].anchor = pane.anchor
       PROVE  FALSE
  <2>1. /\ ledger.turn = u /\ ledger.msg = n /\ ledger.anchor = pane.anchor
        /\ ledger.status \in Open /\ Live(u, n)
    BY <1>10, OpenIsKept
  <2>2. l.status \in Open \ {"prepared"} /\ l.turn = u
    BY <1>0, <1>10, <2>1, ReconciledFacts
  <2>3. turn[u].phase \in {"working", "stalled"}
    BY <1>10 DEF StableInv, HolderInv
  <2>4. u # t
    BY <1>2, <1>10
  <2> QED
    BY <1>1, <2>2, <2>3, <2>4 DEF Preflight, Open, Entered, Released
<1>11. l.status \in {"none", "resolved", "aborted"} \cup Entered
  BY <1>1, <1>9
  DEF Preflight, Sound, LedgerType, SubmissionStatuses, ReceiptStatuses, Entered, Failures
<1> QED
  BY <1>2, <1>6, <1>7, <1>8, <1>10, <1>11

\* Send and Answer begin with a transaction of which BeforeInv holds.
LEMMA BeginStep ==
  ASSUME IInv, NEW t \in Turns, NEW m \in Msgs, Send(t, m) \/ Answer(t, m)
  PROVE  StableInv'
<1>1. TypeOK /\ StableInv /\ Sound(ledger) /\ TurnsProven
  BY SoundLedger DEF IInv
<1>2. PICK back : Begin(t, m, back)
  BY DEF Send, Answer
<1> DEFINE l == Reconciled
<1>3. /\ \A u \in Turns : Sub(u, m) \in {"none", "aborted"}
      /\ \A u \in Turns \ {t} : Sub(u, m) = "none" \/ ~Binding(turn[u].sub[m])
      /\ \A n \in Msgs : ~Unsettled(t, n)
      /\ typed[m] = 0
      /\ \A u \in Turns, n \in Msgs :
           typed[n] > 0 /\ Unsettled(u, n) =>
             turn[u].phase = "closed" \/ turn[u].anchor # pane.anchor
      /\ l.status \in {"none", "resolved", "aborted"} \cup Entered
  BY <1>1, <1>2, BeginIsFresh DEF Send, Answer
<1>4. /\ op.pc = "none" /\ turn[t].phase # "closed" /\ Store[t] = Store[m]
      /\ ledger' = l /\ UNCHANGED <<turn, pane, typed, heard, proof, budget>>
  BY <1>2 DEF Send, Answer, Begin, At
<1>5. /\ Sound(l)
      /\ \A n \in Msgs : ledger.receipts[n] # "none" => l.receipts[n] # "none"
      /\ pane.anchor \in Nat
  BY <1>1, TypeParts, ReconciledFacts DEF PaneType
<1>6. /\ op'.pc = "ledger" /\ op'.turn = t /\ op'.msg = m
      /\ op'.anchor = pane.anchor /\ op'.prev = l
  <2> DEFINE o == NoOp
             a == pane.anchor
  <2>1. o \in OpType
    BY NoOpFacts
  <2>2. op' = [o EXCEPT !.pc = "ledger", !.turn = t, !.msg = m,
                        !.anchor = a, !.prev = l, !.back = back]
    BY <1>2 DEF Begin
  <2> HIDE DEF o, l, a
  <2>3. op'.pc = "ledger" /\ op'.turn = t /\ op'.msg = m /\ op'.anchor = a /\ op'.prev = l
    BY <2>1, <2>2 DEF OpType
  <2> QED
    BY <2>3 DEF a
<1> HIDE DEF l
<1>7. ShapeInv'
  <2>1. Named(ledger)' /\ Named(op.prev)'
    BY <1>4, <1>5, <1>6 DEF Sound, Named
  <2> QED
    BY <1>1, <1>4, <1>5, <1>6, <2>1 DEF StableInv, ShapeInv
<1>8. HolderInv' /\ TypedInv'
  BY <1>1, <1>4 DEF StableInv, HolderInv, TypedInv, Sub, Unsettled
<1>9. ASSUME NEW n \in Msgs, typed[n] # 0
      PROVE  Excused(n)'
  <2>1. typed[n] > 0
    BY <1>1, <1>9, TypeParts
  <2>2. ASSUME NEW u \in Turns, turn[u].sub[n].status # "none"
        PROVE  \/ ~Binding(turn[u].sub[n])
               \/ turn[u].sub[n].status = "agent_accepted"
               \/ turn[u].phase = "closed"
               \/ turn[u].anchor # pane.anchor
    <3>1. turn[u].sub[n].status = "aborted" => turn[u].sub[n].safe
      BY <1>1, <2>1 DEF StableInv, TypedInv, Sub
    <3> QED
      BY <1>3, <2>1, <2>2, <3>1 DEF Binding, Unsettled, Sub
  <2> QED
    BY <1>4, <2>2 DEF Excused, Holders
<1>10. BeforeInv'
  <2>1. l.status = "agent_accepted" =>
          /\ turn[l.turn].sub[l.msg].status = "agent_accepted"
          /\ ~(l.turn = t /\ l.msg = m)
    BY <1>3, <1>5 DEF Sound, Sub, Named
  <2> QED
    BY <1>3, <1>4, <1>6, <1>9, <2>1 DEF BeforeInv, Before, Sub, Unsettled
<1>11. AfterInv'
  BY <1>6 DEF AfterInv, After
<1>12. PaneInv'
  BY <1>3, <1>4, <1>6 DEF PaneInv, After, Unsettled, Sub
<1>13. PreparedInv'
  BY <1>3, <1>4 DEF PreparedInv, Entered
<1>14. AcceptedInv'
  <2>1. l.status = "agent_accepted" => ~(l.turn = t /\ l.msg = m)
    BY <1>3, <1>5 DEF Sound, Named
  <2>2. l.status = "agent_accepted" => turn[l.turn].sub[l.msg].status = "agent_accepted"
    BY <1>5 DEF Sound, Sub
  <2> QED
    BY <1>1, <1>4, <1>5, <1>6, <2>1, <2>2
    DEF AcceptedInv, AcceptanceIsProven, Sound, TurnsProven, Sub
<1> QED
  BY <1>7, <1>8, <1>10, <1>11, <1>12, <1>13, <1>14 DEF StableInv

-----------------------------------------------------------------------------
(* ------------------------------ invariance ------------------------------ *)

\* The invariant holds initially ...
LEMMA InitHolds ==
  ASSUME Init
  PROVE  IInv
<1>1. /\ ledger = NoLedger /\ op = NoOp /\ pane.anchor = 0 /\ pane.draft = {}
      /\ proof = {} /\ budget.restarts = MaxRestarts
      /\ \A m \in Msgs : typed[m] = 0 /\ heard[m] = 0
  BY DEF Init
<1>2. NoSubmission \in SubmissionType /\ NoSubmission.status = "none"
  <2>1. "none" \in SubmissionStatuses \cup {"none"}
        /\ "none" \in Stages \cup {"none", "agent_accepted"} /\ FALSE \in BOOLEAN
    OBVIOUS
  <2> QED
    BY <2>1, Zenon DEF NoSubmission, SubmissionType
<1>3. \A t \in Turns : /\ turn[t].phase = "absent" /\ turn[t].anchor = 0
                       /\ \A m \in Msgs : Sub(t, m) = "none"
  BY <1>2 DEF Init, Sub
<1>4. TypeOK
  <2>1. turn \in [Turns -> TurnType]
    <3> DEFINE n == NoSubmission
    <3>1. turn = [t \in Turns |-> [phase |-> "absent", msg |-> NoMsg, anchor |-> 0,
                                   sub |-> [m \in Msgs |-> n]]]
      BY DEF Init
    <3>2. n \in SubmissionType
      BY <1>2
    <3> HIDE DEF n
    <3> QED
      BY <3>1, <3>2, BoundAssumption DEF TurnType
  <2>2. pane \in PaneType /\ budget \in BudgetType
    BY BoundAssumption DEF Init, PaneType, BudgetType
  <2>3. typed \in [Msgs -> 0..2] /\ heard \in [Msgs -> 0..2] /\ proof \subseteq Msgs
    BY DEF Init
  <2> QED
    BY <1>1, <2>1, <2>2, <2>3, NoLedgerFacts, NoOpFacts, TypeParts
<1>5. ShapeInv
  BY <1>1, <1>3, NoLedgerFacts, NoOpFacts, BoundAssumption DEF ShapeInv, Before
<1>6. HolderInv /\ TypedInv
  BY <1>1, <1>3 DEF HolderInv, TypedInv, Unsettled
<1>7. BeforeInv /\ AfterInv /\ PaneInv
  BY <1>1, <1>3, NoOpFacts DEF BeforeInv, AfterInv, PaneInv, Before, After
<1>8. PreparedInv
  BY <1>1, NoLedgerFacts DEF PreparedInv
<1>9. AcceptedInv
  BY <1>1, <1>3, NoLedgerFacts, NoOpFacts DEF AcceptedInv, AcceptanceIsProven, Sub
<1> QED
  BY <1>4, <1>5, <1>6, <1>7, <1>8, <1>9 DEF IInv, StableInv

\* ... and every step keeps it.
LEMMA StepHolds ==
  ASSUME IInv, [Next]_vars
  PROVE  IInv'
<1>1. TypeOK'
  BY TypeStep
<1>2. StableInv'
  <2>1. CASE UNCHANGED vars
    <3>1. UNCHANGED <<ledger, turn, op, pane, typed, heard, proof, budget>> /\ StableInv
      BY <2>1 DEF vars, IInv
    <3>2. ShapeInv' /\ HolderInv' /\ TypedInv'
      BY <3>1 DEF StableInv, ShapeInv, Named, Before, HolderInv, TypedInv, Sub, Unsettled
    <3>3. BeforeInv' /\ AfterInv' /\ PaneInv'
      BY SMTT(30), <3>1 DEF StableInv, BeforeInv, AfterInv, PaneInv, Before, After, HeldFor, Sub,
                  Unsettled, Excused, Holders
    <3>4. PreparedInv' /\ AcceptedInv'
      BY <3>1 DEF StableInv, PreparedInv, AcceptedInv, AcceptanceIsProven, Sub
    <3> QED
      BY <3>2, <3>3, <3>4 DEF StableInv
  <2>2. ASSUME NEW t \in Turns, NEW m \in Msgs, Send(t, m) \/ Answer(t, m)
        PROVE  StableInv'
    BY <2>2, BeginStep
  <2>3. ASSUME Prepare \/ Abort PROVE StableInv'
    BY <2>3, PreparedLedgerStep, PreparedStateStep, RestoredStep, RefusedStep
    DEF Prepare, Abort
  <2>4. ASSUME Input PROVE StableInv'
    BY <2>4, DeliverStep, RefusedStep, ReachedStateStep, ReachedLedgerStep, EnterStep DEF Input
  <2>5. ASSUME Settle PROVE StableInv'
    <3>1. CASE \E outcome \in Outcomes : PollAcceptance(outcome)
      BY <3>1, ReachedStateStep
    <3>2. CASE SaveFinalLedger \/ SaveUncertainLedger
      BY <3>2, ReachedLedgerStep
    <3>3. CASE SaveUncertainState \/ IdentityFailure
      BY <3>3, ReachedStateStep
    <3> QED
      BY <2>5, <3>1, <3>2, <3>3 DEF Settle
  <2>6. ASSUME NEW t \in Turns, Monitor(t) PROVE StableInv'
    <3>1. CASE RecoverPreparedTurn(t)
      BY <3>1, RecoverPreparedStep
    <3>2. CASE MarkUncertain(t)
      BY <3>2, StallAsStep DEF MarkUncertain, At, Monitored
    <3>3. ASSUME NEW outcome \in {"agent_accepted", "not_accepted"}, ObservePane(t, outcome)
          PROVE  StableInv'
      BY <3>3, ObserveStep
    <3>4. ASSUME NEW phase \in {"working", "idle", "asking"}, PollTurn(t, phase)
          PROVE  StableInv'
      BY <3>4, PollTurnStep
    <3> QED
      BY <2>6, <3>1, <3>2, <3>3, <3>4 DEF Monitor
  <2>7. ASSUME NEW t \in Turns, Close(t) PROVE StableInv'
    BY <2>7, CloseStep
  <2>8. ASSUME CommitObserved \/ HumanSubmits \/ HumanClears \/ RestartAgent \/ Crash
        PROVE  StableInv'
    BY <2>8, CommitStep, HumanStep, RestartStep, CrashStep
  <2> QED
    BY <2>1, <2>2, <2>3, <2>4, <2>5, <2>6, <2>7, <2>8 DEF Next
<1> QED
  BY <1>1, <1>2 DEF IInv

\* The inductive invariant holds in every reachable state.
THEOREM Invariance == Spec => []IInv
<1>1. Init => IInv
  BY InitHolds
<1>2. IInv /\ [Next]_vars => IInv'
  BY StepHolds
<1> QED
  BY <1>1, <1>2, PTL DEF Spec

\* The records of the ledger, the Turns and the transaction keep their types.
THEOREM Typing == Spec => []TypeOK
<1>1. IInv => TypeOK
  BY DEF IInv
<1> QED
  BY <1>1, Invariance, PTL

\* Whatever is repeated, fails or dies, a message is typed into the pane once
\* at most and the agent receives it once at most.
THEOREM TypesOnce == Spec => []TypedOnce
<1>1. IInv => TypedOnce
  <2> SUFFICES ASSUME IInv, NEW m \in Msgs PROVE typed[m] <= 1 /\ heard[m] <= 1
    BY DEF TypedOnce
  <2>1. typed[m] <= 1 /\ heard[m] <= typed[m] /\ typed[m] \in Nat /\ heard[m] \in Nat
    BY TypeParts DEF IInv, StableInv, TypedInv
  <2> QED
    BY <2>1
<1> QED
  BY <1>1, Invariance, PTL

\* "Aborted, safe to retry" is only written for a message that was not typed
\* from that record.
THEOREM SafeAborts == Spec => []SafeAbortIsUntyped
<1>1. IInv => SafeAbortIsUntyped
  <2> SUFFICES ASSUME IInv, NEW m \in Msgs, typed[m] > 0
               PROVE  \E u \in Turns : Binding(turn[u].sub[m]) /\ u \in Holders(m)
    BY DEF SafeAbortIsUntyped
  <2>1. PICK u \in Turns : Sub(u, m) \notin {"none", "aborted"}
    BY DEF IInv, StableInv, TypedInv
  <2> QED
    BY <2>1 DEF Binding, Holders, Sub
<1> QED
  BY <1>1, Invariance, PTL

\* Acceptance is recorded only with proof, and reaches the ledger after the Turn.
THEOREM AcceptanceHasProof == Spec => []AcceptanceIsProven
<1>1. IInv => AcceptanceIsProven
  BY DEF IInv, StableInv, AcceptedInv
<1> QED
  BY <1>1, Invariance, PTL

-----------------------------------------------------------------------------
(* --------------------------- what a step may do --------------------------- *)

\* Only the delivery of a text types.
LEMMA OnlyDeliveryTypes ==
  ASSUME [Next]_vars
  PROVE  DeliverText \/ typed' = typed
<1>1. CASE UNCHANGED vars
  BY <1>1 DEF vars
<1>2. ASSUME NEW t \in Turns, NEW m \in Msgs, Send(t, m) \/ Answer(t, m)
      PROVE  typed' = typed
  BY <1>2 DEF Send, Answer, Begin
<1>3. ASSUME Prepare \/ Abort PROVE typed' = typed
  BY <1>3 DEF Prepare, Abort, SavePreparedLedger, SavePreparedState, RestoreLedger,
              ZeroInput, AbortLedger, AbortState
<1>4. ASSUME Input PROVE DeliverText \/ typed' = typed
  BY <1>4 DEF Input, TextNotDelivered, SaveTextState, SaveTextLedger, PreKeyFailure,
              PressEnter, SaveEnterState, SaveEnterLedger
<1>5. ASSUME Settle PROVE typed' = typed
  BY <1>5 DEF Settle, PollAcceptance, IdentityFailure, SaveFinalLedger,
              SaveUncertainLedger, SaveUncertainState
<1>6. ASSUME NEW t \in Turns, Monitor(t) \/ Close(t) PROVE typed' = typed
  BY <1>6 DEF Monitor, RecoverPreparedTurn, MarkUncertain, StallAs, ObservePane, PollTurn, Close
<1>7. ASSUME CommitObserved PROVE typed' = typed
  BY <1>7 DEF CommitObserved, StallAs
<1>8. ASSUME HumanSubmits \/ HumanClears \/ RestartAgent \/ Crash PROVE typed' = typed
  BY <1>8 DEF HumanSubmits, HumanClears, RestartAgent, Crash
<1> QED
  BY <1>1, <1>2, <1>3, <1>4, <1>5, <1>6, <1>7, <1>8 DEF Next

\* Nothing is typed into an agent process while another message typed there is
\* neither proven accepted nor given up.
THEOREM TypesOverNothing == Spec => NothingTypedOverUnproven
<1>1. ASSUME IInv, [Next]_vars
      PROVE  [\A m \in Msgs : typed'[m] # typed[m] =>
               \A n \in Msgs \ {m} : typed[n] = 0 \/ Excused(n)]_vars
  <2> SUFFICES ASSUME NEW m \in Msgs, typed'[m] # typed[m], NEW n \in Msgs \ {m}
               PROVE  typed[n] = 0 \/ Excused(n)
    OBVIOUS
  <2>1. DeliverText
    BY <1>1, OnlyDeliveryTypes
  <2>2. op.pc = "ready" /\ op.msg \in Msgs /\ typed' = More(typed, op.msg)
    BY <1>1, <2>1, OpTurn DEF DeliverText, At, IInv
  <2>3. m = op.msg
    BY <1>1, <2>2, TypeParts DEF More, IInv
  <2> QED
    BY <1>1, <2>2, <2>3 DEF IInv, StableInv, BeforeInv, Before
<1> QED
  BY <1>1, Invariance, PTL DEF Spec, NothingTypedOverUnproven

\* A step that reconciles keeps a prepared dispatch whose text was typed.
LEMMA PreparedIsKept ==
  ASSUME TypeOK, StableInv, op.pc \in {"none", "observed"},
         ledger.status = "prepared", typed[ledger.msg] > 0
  PROVE  /\ Kept(ledger)
         /\ Reconcile(ledger).status # "resolved" /\ Reconcile(ledger).msg = ledger.msg
         /\ ledger.anchor = pane.anchor =>
              Reconciled.status # "resolved" /\ Reconciled.msg = ledger.msg
<1>1. Kept(ledger)
  BY DEF StableInv, PreparedInv, Kept
<1>2. /\ Sound(ledger) /\ TurnsProven /\ turn \in [Turns -> TurnType]
      /\ pane.anchor \in 0..MaxRestarts
  BY SoundLedger, TypeParts DEF PaneType
<1>3. Follows(ledger, Reconcile(ledger))
  BY <1>2, ReconcileFacts
<1>4. ledger.anchor = pane.anchor =>
        Reconciled.status # "resolved" /\ Reconciled.msg = ledger.msg
  BY <1>1, <1>2, ReconciledFacts
<1> QED
  BY <1>1, <1>3, <1>4 DEF Follows

\* A document with the same message that is not "resolved" drops nothing.
LEMMA DroppingStep ==
  ASSUME IInv, [Next]_vars, ledger.status = "prepared", typed[ledger.msg] > 0,
         ledger.anchor = pane.anchor, turn'[ledger.turn].phase # "closed"
  PROVE  ledger'.status # "resolved" /\ ledger'.msg = ledger.msg
<1> USE DEF At
<1>1. /\ TypeOK /\ StableInv /\ ledger \in LedgerType /\ turn \in [Turns -> TurnType]
      /\ ledger.turn \in Turns /\ ledger.msg \in Msgs
  BY TypeParts DEF IInv, StableInv, ShapeInv, Named
<1>2. CASE ledger' = ledger
  BY <1>2
<1>3. ASSUME NEW status \in SubmissionStatuses,
             op.pc \notin {"none", "stall", "observed"},
             Save(Dispatch(status)) \/ SaveFails(Dispatch(status))
      PROVE  ledger'.status # "resolved" /\ ledger'.msg = ledger.msg
  <2> DEFINE l == Dispatch(status)
  <2>1. ledger.msg = op.msg
    BY <1>1, <1>3 DEF StableInv, PreparedInv
  <2>2. l \in LedgerType /\ Named(l) /\ l.status = status /\ l.msg = op.msg
    BY <1>1, <1>3, DispatchFacts DEF StableInv
  <2>3. ledger' \in {ledger, Over(ledger, l)}
    BY <1>3 DEF Save, SaveFails
  <2>4. status # "resolved"
    BY DEF SubmissionStatuses, ReceiptStatuses, Entered, Failures
  <2> HIDE DEF l
  <2> QED
    BY <1>1, <2>1, <2>2, <2>3, <2>4, LedgerWrite DEF StableInv, ShapeInv
<1>4. op.pc \notin Before
  <2>1. ASSUME op.pc \in Before PROVE FALSE
    <3>1. typed[op.msg] = 0
      BY <1>1, <2>1 DEF StableInv, BeforeInv
    <3>2. ledger.msg = op.msg
      BY <1>1, <2>1 DEF StableInv, PreparedInv, Before
    <3> QED
      BY <1>1, <3>1, <3>2, TypeParts
  <2> QED
    BY <2>1
<1>5. ASSUME UNCHANGED vars PROVE ledger' = ledger
  BY <1>5 DEF vars
<1>6. ASSUME NEW t \in Turns, NEW m \in Msgs, Send(t, m) \/ Answer(t, m)
      PROVE  ledger'.status # "resolved" /\ ledger'.msg = ledger.msg
  <2>1. op.pc = "none" /\ ledger' = Reconciled
    BY <1>6 DEF Send, Answer, Begin
  <2> QED
    BY <1>1, <2>1, PreparedIsKept
<1>7. ASSUME Prepare \/ Abort PROVE ledger' = ledger
  BY <1>4, <1>7
  DEF Prepare, Abort, SavePreparedLedger, SavePreparedState, RestoreLedger,
      ZeroInput, AbortLedger, AbortState, Before
<1>8. ASSUME Input PROVE ledger'.status # "resolved" /\ ledger'.msg = ledger.msg
  <2>1. CASE SaveTextLedger
    BY <1>3, <2>1, StatusSets DEF SaveTextLedger
  <2>2. CASE SaveEnterLedger
    BY <1>3, <2>2, StatusSets DEF SaveEnterLedger
  <2>3. CASE \/ DeliverText \/ TextNotDelivered \/ SaveTextState
             \/ PreKeyFailure \/ PressEnter \/ SaveEnterState
    BY <1>2, <2>3 DEF DeliverText, TextNotDelivered, SaveTextState, PreKeyFailure, PressEnter,
                SaveEnterState
  <2> QED
    BY <1>8, <2>1, <2>2, <2>3 DEF Input
<1>9. ASSUME Settle PROVE ledger'.status # "resolved" /\ ledger'.msg = ledger.msg
  <2>1. CASE SaveFinalLedger
    <3>1. op.outcome \in SubmissionStatuses
      BY <1>1, <2>1, StatusSets
      DEF SaveFinalLedger, StableInv, AfterInv, Outcomes, SubmissionStatuses, ReceiptStatuses
    <3> QED
      BY <1>3, <2>1, <3>1 DEF SaveFinalLedger
  <2>2. CASE SaveUncertainLedger
    BY <1>3, <2>2, StatusSets DEF SaveUncertainLedger
  <2>3. CASE SaveUncertainState \/ IdentityFailure
    BY <1>2, <2>3 DEF SaveUncertainState, IdentityFailure
  <2>4. ASSUME NEW outcome \in Outcomes, PollAcceptance(outcome)
        PROVE  ledger' = ledger
    BY <2>4 DEF PollAcceptance
  <2> QED
    BY <1>2, <1>9, <2>1, <2>2, <2>3, <2>4 DEF Settle
<1>10. ASSUME NEW t \in Turns, StallAs(t)
       PROVE  ledger'.status # "resolved" /\ ledger'.msg = ledger.msg
  <2>1. ledger' = ledger
    BY <1>10 DEF StallAs
  <2> QED
    BY <2>1
<1>11. ASSUME NEW t \in Turns, Monitor(t)
       PROVE  ledger'.status # "resolved" /\ ledger'.msg = ledger.msg
  <2>1. CASE RecoverPreparedTurn(t)
    <3> DEFINE l == [ledger EXCEPT !.status = "uncertain", !.msg = turn[t].msg, !.turn = t,
                                   !.anchor = turn[t].anchor]
    <3>1. turn[t].msg \in Msgs /\ turn[t].anchor \in 0..MaxRestarts
      BY <1>1, <2>1, CurrentFacts DEF RecoverPreparedTurn, TurnType
    <3>2. /\ l \in LedgerType /\ Named(l) /\ l.status = "uncertain" /\ l.msg = turn[t].msg
      BY <1>1, <3>1, StatusSets DEF LedgerType, Named
    <3>3. \/ ledger' = ledger
          \/ ledger' = Over(ledger, l) /\ ledger.msg = turn[t].msg
      BY <2>1 DEF RecoverPreparedTurn, Save
    <3> HIDE DEF l
    <3> QED
      BY <1>1, <1>2, <3>2, <3>3, OverFacts
  <2>2. CASE MarkUncertain(t)
    BY <1>10, <2>2 DEF MarkUncertain
  <2>3. ASSUME NEW outcome \in {"agent_accepted", "not_accepted"}, ObservePane(t, outcome)
        PROVE  ledger' = ledger
    BY <2>3 DEF ObservePane
  <2>4. ASSUME NEW phase \in {"working", "idle", "asking"}, PollTurn(t, phase)
        PROVE  ledger'.status # "resolved" /\ ledger'.msg = ledger.msg
    BY <1>1, <2>4, PreparedIsKept DEF PollTurn
  <2> QED
    BY <1>2, <1>11, <2>1, <2>2, <2>3, <2>4 DEF Monitor
<1>12. ASSUME CommitObserved
       PROVE  ledger'.status # "resolved" /\ ledger'.msg = ledger.msg
  <2>1. op.pc = "observed" /\ op.turn \in Turns
    BY <1>1, <1>12, OpTurn DEF CommitObserved
  <2>2. ledger' = Reconcile(ledger) \/ ledger' = ledger \/ StallAs(op.turn)
    BY <1>12 DEF CommitObserved
  <2>3. CASE ledger' = Reconcile(ledger)
    BY <1>1, <2>1, <2>3, PreparedIsKept
  <2>4. CASE StallAs(op.turn)
    BY <1>10, <2>1, <2>4
  <2> QED
    BY <1>2, <2>2, <2>3, <2>4
<1>13. ASSUME NEW t \in Turns, Close(t)
       PROVE  ledger'.status # "resolved" /\ ledger'.msg = ledger.msg
  <2>1. turn' = [turn EXCEPT ![t].phase = "closed"]
    BY <1>13 DEF Close
  <2>2. turn'[t].phase = "closed"
    BY <1>1, <2>1 DEF TurnType
  <2>3. ledger.turn # t
    BY <2>2
  <2> QED
    BY <1>2, <1>13, <2>3 DEF Close
<1>14. ASSUME HumanSubmits \/ HumanClears \/ RestartAgent \/ Crash PROVE ledger' = ledger
  BY <1>14 DEF HumanSubmits, HumanClears, RestartAgent, Crash
<1> QED
  BY <1>2, <1>5, <1>6, <1>7, <1>8, <1>9, <1>11, <1>12, <1>13, <1>14 DEF Next

\* A prepared dispatch that recovery drops was not typed, unless the user closed
\* its Turn or the agent was replaced.
THEOREM DropsOnlyUntyped == Spec => DroppedDispatchIsUntyped
<1>1. ASSUME IInv, [Next]_vars
      PROVE  [/\ ledger.status = "prepared"
              /\ ledger'.status = "resolved" \/ ledger'.msg # ledger.msg
              /\ ledger.anchor = pane.anchor
              /\ turn'[ledger.turn].phase # "closed"
              => typed[ledger.msg] = 0]_vars
  <2> SUFFICES ASSUME ledger.status = "prepared",
                      ledger'.status = "resolved" \/ ledger'.msg # ledger.msg,
                      ledger.anchor = pane.anchor,
                      turn'[ledger.turn].phase # "closed",
                      typed[ledger.msg] # 0
               PROVE  FALSE
    OBVIOUS
  <2>1. ledger.msg \in Msgs
    BY <1>1 DEF IInv, StableInv, ShapeInv, Named
  <2>2. typed[ledger.msg] > 0
    BY <1>1, <2>1, TypeParts DEF IInv
  <2> QED
    BY <1>1, <2>2, DroppingStep
<1> QED
  BY <1>1, Invariance, PTL DEF Spec, DroppedDispatchIsUntyped
=============================================================================

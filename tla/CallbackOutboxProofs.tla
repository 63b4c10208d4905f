------------------------ MODULE CallbackOutboxProofs ------------------------
(***************************************************************************)
(* Proofs about CallbackOutbox for every number of processes, messages,    *)
(* crashes and retries: type correctness, and at most one completion per   *)
(* Turn.                                                                   *)
(***************************************************************************)
EXTENDS CallbackOutbox, TLAPS

\* The program counters of a process inside a locked preparation.
Locked  == {"append", "save", "announce"}
Writing == {"append", "save"}

\* The state lock is held by exactly the process inside a locked preparation.
LockInv == \A p \in Procs : proc[p].pc \in Locked <=> lock = p

\* A preparation writes a message of an open Turn that its lane does not hold.
WriteInv ==
    \A p \in Procs : proc[p].pc \in Writing =>
        LET m == proc[p].msg IN
        /\ m \in Messages
        /\ proc[p].lane = LaneOf(m)
        /\ outbox[LaneOf(m)].msg # m
        /\ status \notin Released
        /\ proc[p].pc = "save" => m \in log
        /\ m \in Completions => m = claim

\* A lane holds a logged message of its own, one that ends the task only when released.
LaneInv ==
    \A l \in Lanes : LET m == outbox[l].msg IN
        m # NoMsg => /\ m \in log
                     /\ LaneOf(m) = l
                     /\ m \in Ends => status \in Released

\* Only the claimed completion is ever logged.
ClaimInv == log \cap Completions \subseteq {claim}

\* A process past its preparation works on a message; so does an open lane.
MsgInv ==
    /\ \A p \in Procs : proc[p].pc \in {"prepared", "transport", "settle"}
                            => proc[p].msg \in Messages /\ proc[p].id # 0
    /\ \A p \in Procs : proc[p].pc \in {"announce"} /\ proc[p].id # 0
                            => proc[p].msg \in Messages
    /\ \A l \in Lanes : Unsettled(outbox[l]) => outbox[l].msg \in Messages

StableInv == LockInv /\ WriteInv /\ LaneInv /\ ClaimInv /\ MsgInv

IInv == TypeOK /\ StableInv

(* --------------------------- helper lemmas --------------------------- *)

LEMMA Lane == \A m : LaneOf(m) \in Lanes /\ KindOf(m) \in Kinds
BY DEF LaneOf, Lanes, KindOf, Kinds

LEMMA IdleProcess ==
    /\ Idle \in Process
    /\ \A l \in Lanes : Monitor(l) \in Process
<1>1. Idle \in Process
  BY ConstantsAssumption DEF Idle, Process, PCs, Lanes, Outcomes, Ids
<1>2. \A l \in Lanes : Monitor(l) \in Process
  BY <1>1, ConstantsAssumption DEF Monitor, Idle, Process, PCs, Lanes, Outcomes, Ids
<1>3. QED BY <1>1, <1>2

\* A fresh attempt is well typed while the budget lasts.
LEMMA AttemptType ==
    ASSUME TypeOK, NEW m \in Messages, NEW p \in Procs, NEW n \in 0..RetryLimit,
           nextId <= MaxIds
    PROVE  Attempt(m, p, n) \in Delivery
<1>1. /\ nextId \in Nat \ {0} /\ MaxIds \in Nat /\ RetryLimit \in Nat
      /\ n \in Nat /\ n <= RetryLimit
  BY ConstantsAssumption DEF TypeOK
<1>2. nextId \in Ids \cup {0} /\ n + 1 \in 0..(RetryLimit + 1)
  BY <1>1 DEF Ids
<1>3. QED BY <1>2 DEF Attempt, EmptyDelivery, Delivery, Outcomes

LEMMA DeliveryType ==
    ASSUME NEW d \in Delivery
    PROVE  /\ Superseded(d) \in Delivery
           /\ Delivered(d) \in Delivery
BY ZenonT(60) DEF Superseded, Delivered, Delivery, Outcomes

\* Starting a preparation changes the lock and two idle processes.
LEMMA StartType ==
    ASSUME TypeOK, NEW p \in Procs, NEW m \in Messages, StartPreparing(p, m)
    PROVE  lock' \in Procs /\ proc' \in [Procs -> Process]
<1>1. PICK w \in FreeProcs \ {p} :
         /\ lock' = p
         /\ proc' = [proc EXCEPT
              ![p] = [Idle EXCEPT !.pc = NextWrite(m), !.lane = LaneOf(m), !.msg = m],
              ![w] = Monitor(LaneOf(m))]
  BY DEF StartPreparing
<1>2. [Idle EXCEPT !.pc = NextWrite(m), !.lane = LaneOf(m), !.msg = m] \in Process
  <2>1. Idle \in Process /\ LaneOf(m) \in Lanes /\ NextWrite(m) \in PCs
    BY Lane, IdleProcess DEF NextWrite, PCs
  <2>2. QED BY <2>1 DEF Process
<1>3. w \in Procs /\ Monitor(LaneOf(m)) \in Process
  BY Lane, IdleProcess DEF FreeProcs
<1>4. proc \in [Procs -> Process]
  BY DEF TypeOK
<1>5. QED BY <1>1, <1>2, <1>3, <1>4

(* ------------------------- type correctness -------------------------- *)

\* Moving one process within its program keeps processes well typed.
LEMMA GotoType ==
    ASSUME TypeOK, NEW p \in Procs, NEW pc \in PCs
    PROVE  [proc EXCEPT ![p].pc = pc] \in [Procs -> Process]
<1>1. [proc[p] EXCEPT !.pc = pc] \in Process
  BY DEF TypeOK, Process
<1>2. QED BY <1>1 DEF TypeOK

LEMMA ExitType ==
    ASSUME TypeOK, NEW p \in Procs
    PROVE  [proc EXCEPT ![p] = Idle] \in [Procs -> Process]
BY IdleProcess DEF TypeOK

LEMMA PrepareType ==
    ASSUME TypeOK, NEW p \in Procs, Prepare(p)
    PROVE  TypeOK'
<1>1. ASSUME NEW q \in Calls, AcceptCallback(p, q) PROVE TypeOK'
  BY <1>1, StartType DEF AcceptCallback, Messages, PCs, TypeOK, vars, turn, host, bounds
<1>2. ASSUME NEW m \in Prompts, RecordPrompt(p, m) PROVE TypeOK'
  BY <1>2, StartType, Lane DEF RecordPrompt, Messages, PCs, TypeOK, vars, turn, host, bounds
<1>3. ASSUME NEW k \in Kinds, RecoverPrompt(p, k) PROVE TypeOK'
  BY <1>3, StartType DEF RecoverPrompt, Messages, PCs, TypeOK, vars, turn, host, bounds
<1>4. ASSUME NEW c \in Completions, ClaimCompletion(p, c) PROVE TypeOK'
  BY <1>4, StartType DEF ClaimCompletion, Messages, PCs, TypeOK, vars, turn, host, bounds
<1>5. ASSUME NEW s \in Stalls, NotifyStall(p, s) PROVE TypeOK'
  BY <1>5, StartType DEF NotifyStall, Messages, PCs, TypeOK, vars, turn, host, bounds
<1>6. ASSUME StallQuietly(p) PROVE TypeOK'
  BY <1>6, GotoType DEF StallQuietly, Goto, TurnStatus, PCs, TypeOK, vars, turn, host, bounds
<1>7. ASSUME NEW s \in Stalls, StallDuplicate(p, s) PROVE TypeOK'
  BY <1>7, GotoType DEF StallDuplicate, Goto, PCs, TypeOK, vars, turn, host, bounds
<1>8. QED BY <1>1, <1>2, <1>3, <1>4, <1>5, <1>6, <1>7 DEF Prepare

LEMMA AfterFailureType ==
    ASSUME TypeOK, NEW p \in Procs
    PROVE  AfterFailure(p) \in Process
<1>1. [proc[p] EXCEPT !.pc = "recheck"] \in Process
  BY DEF TypeOK, Process, PCs
<1>2. QED BY <1>1, IdleProcess DEF AfterFailure

LEMMA StepType ==
    ASSUME TypeOK, WriteInv, MsgInv, NEW p \in Procs, Step(p)
    PROVE  TypeOK'
<1>1. CASE AppendMessage(p)
  <2>1. proc[p].msg \in Messages
    BY <1>1 DEF AppendMessage, WriteInv, Writing
  <2>2. QED BY <1>1, <2>1, GotoType DEF AppendMessage, Goto, PCs, TypeOK, vars, turn, host, bounds
<1>2. CASE SavePrepared(p)
  <2> DEFINE m == proc[p].msg  l == proc[p].lane
             fresh == Attempt(m, p, Previous(l, m))
  <2>1. m \in Messages /\ l \in Lanes /\ Previous(l, m) = 0
    BY <1>2, Lane DEF SavePrepared, WriteInv, Writing, Previous
  <2>2. fresh \in Delivery /\ fresh.attempts = 1 /\ nextId \in Ids
    <3>1. 0 \in 0..RetryLimit /\ nextId <= MaxIds
      BY <1>2, ConstantsAssumption DEF SavePrepared
    <3>2. fresh \in Delivery
      BY <2>1, <3>1, AttemptType
    <3>3. QED BY <2>1, <3>1, <3>2, ConstantsAssumption
                DEF Attempt, EmptyDelivery, TypeOK, Ids
  <2>3. outbox' \in [Lanes -> Delivery]
    <3>1. outbox["notification"] \in Delivery
      BY DEF TypeOK, Lanes
    <3>2. Superseded(outbox["notification"]) \in Delivery
      BY <3>1, DeliveryType
    <3>3. CASE m \in Ends
      BY <1>2, <2>2, <3>2, <3>3 DEF SavePrepared, Lanes
    <3>4. CASE m \notin Ends
      BY <1>2, <2>1, <2>2, <3>4 DEF SavePrepared, TypeOK
    <3>5. QED BY <3>3, <3>4
  <2>4. proc' \in [Procs -> Process]
    <3>1. PICK pc \in PCs : proc' = [proc EXCEPT ![p].pc = pc, ![p].attempts = fresh.attempts,
                                               ![p].id = nextId]
      BY <1>2 DEF SavePrepared, PCs
    <3>2. 1 \in 0..(RetryLimit + 1)
      BY ConstantsAssumption
    <3>3. [proc[p] EXCEPT !.pc = pc, !.attempts = 1, !.id = nextId] \in Process
      <4>1. proc[p] \in Process /\ 1 \in 0..(RetryLimit + 1) /\ nextId \in Ids
        BY <2>2, <3>2 DEF TypeOK
      <4>2. QED BY <4>1 DEF Process
    <3>4. QED BY <2>2, <3>1, <3>3 DEF TypeOK
  <2>5. status' \in TurnStatus /\ lock' \in Procs \cup {NoProc} /\ nextId' \in 1..(MaxIds + 1)
    BY <1>2, ConstantsAssumption DEF SavePrepared, StatusAfter, TypeOK, TurnStatus
  <2>6. QED BY <1>2, <2>3, <2>4, <2>5 DEF SavePrepared, TypeOK, host, bounds
<1>3. CASE AnnounceStall(p)
  <2>1. "prepared" \in PCs
    BY DEF PCs
  <2>2. proc' \in [Procs -> Process]
    BY <1>3, <2>1, GotoType, ExitType DEF AnnounceStall, Goto, Exit
  <2>3. QED BY <1>3, <2>2 DEF AnnounceStall, TypeOK, turn, host, bounds
<1>4. CASE BeginTransport(p)
  <2>1. proc[p].lane \in Lanes /\ proc[p].msg \in Messages \cup {NoMsg}
    BY DEF TypeOK, Process
  <2>2. outbox[proc[p].lane] \in Delivery
    BY <2>1 DEF TypeOK
  <2>3. proc[p].msg \in Messages
    BY <1>4, <2>1 DEF BeginTransport, MsgInv
  <2>4. [outbox[proc[p].lane] EXCEPT !.started = TRUE] \in Delivery
    BY <2>2 DEF Delivery
  <2>5. QED BY <1>4, <2>1, <2>3, <2>4, GotoType DEF BeginTransport, Goto, PCs, TypeOK, vars, turn, host, bounds
<1>5. CASE LoseClaim(p)
  BY <1>5, ExitType DEF LoseClaim, Exit, PCs, TypeOK, vars, turn, host, bounds
<1>6. CASE Return(p)
  <2>1. PICK o \in Outcomes : proc' = [proc EXCEPT ![p].pc = "settle", ![p].outcome = o]
    BY <1>6 DEF Return
  <2>2. [proc[p] EXCEPT !.pc = "settle", !.outcome = o] \in Process
    BY ZenonT(60) DEF TypeOK, Process, PCs
  <2>3. exposed' \subseteq Messages
    BY <1>6 DEF Return, TypeOK
  <2>4. QED BY <1>6, <2>1, <2>2, <2>3 DEF Return, TypeOK, turn, bounds
<1>7. CASE SettleDelivered(p)
  <2>1. outbox[proc[p].lane] \in Delivery /\ proc[p].lane \in Lanes
    BY DEF TypeOK, Process
  <2>2. Delivered(outbox[proc[p].lane]) \in Delivery
    BY <2>1, DeliveryType
  <2>3. QED BY <1>7, <2>1, <2>2, ExitType DEF SettleDelivered, StallSentAfter, Exit, TypeOK, host, bounds
<1>8. CASE SettleFailed(p)
  <2>1. proc[p].lane \in Lanes /\ proc[p].outcome \in Outcomes /\ proc[p] \in Process
    BY DEF TypeOK, Process
  <2>2. outbox[proc[p].lane] \in Delivery
    BY <2>1 DEF TypeOK
  <2>3. outbox' \in [Lanes -> Delivery]
    <3>1. [outbox[proc[p].lane] EXCEPT !.status = "failed", !.outcome = proc[p].outcome,
              !.pid = NoProc, !.lease = FALSE] \in Delivery
      BY <2>1, <2>2 DEF Delivery
    <3>2. QED BY <1>8, <3>1 DEF SettleFailed, TypeOK
  <2>4. proc' \in [Procs -> Process]
    <3>1. CASE RetryAuthorized(p)
      <4>1. PICK w \in FreeProcs \cup {p} :
              proc' = [[proc EXCEPT ![p] = Idle] EXCEPT ![w] = Monitor(proc[p].lane)]
        BY <1>8, <3>1 DEF SettleFailed
      <4>2. w \in Procs /\ Monitor(proc[p].lane) \in Process
        BY <2>1, IdleProcess DEF FreeProcs
      <4>3. QED BY <4>1, <4>2, ExitType
    <3>2. CASE ~RetryAuthorized(p)
      BY <1>8, <3>2, <2>1, AfterFailureType DEF SettleFailed, TypeOK
    <3>3. QED BY <3>1, <3>2
  <2>5. QED BY <1>8, <2>3, <2>4 DEF SettleFailed, TypeOK, turn, host, bounds
<1>9. CASE SettleSkipped(p)
  BY <1>9, AfterFailureType, IdleProcess DEF SettleSkipped, TypeOK, turn, host, bounds
<1>10. CASE ObserveAccepted(p)
  <2>1. [proc[p] EXCEPT !.pc = "accept", !.msg = outbox[proc[p].lane].msg] \in Process
    <3>1. proc[p] \in Process /\ proc[p].lane \in Lanes
      BY DEF TypeOK, Process
    <3>2. outbox[proc[p].lane].msg \in Messages \cup {NoMsg}
      BY <3>1 DEF TypeOK, Delivery
    <3>3. QED BY <3>1, <3>2 DEF Process, PCs
  <2>2. QED BY <1>10, <2>1 DEF ObserveAccepted, TypeOK, turn, host, bounds
<1>11. CASE ObserveRetryable(p)
  <2>1. [Monitor(proc[p].lane) EXCEPT !.pc = "retry", !.msg = outbox[proc[p].lane].msg,
            !.seen = outbox[proc[p].lane].attempts] \in Process
    <3>1. proc[p].lane \in Lanes
      BY DEF TypeOK, Process
    <3>2. Monitor(proc[p].lane) \in Process /\ outbox[proc[p].lane] \in Delivery
      BY <3>1, IdleProcess DEF TypeOK
    <3>3. QED BY <3>2 DEF Process, PCs, Delivery
  <2>2. QED BY <1>11, <2>1 DEF ObserveRetryable, TypeOK, turn, host, bounds
<1>12. CASE ObserveNothing(p)
  BY <1>12, ExitType DEF ObserveNothing, Exit, PCs, TypeOK, vars, turn, host, bounds
<1>13. CASE PrepareRetry(p)
  <2> DEFINE l == proc[p].lane  d == outbox[l]  m == proc[p].msg
  <2>1. l \in Lanes /\ d \in Delivery /\ m \in Messages \cup {NoMsg}
    BY DEF TypeOK, Process
  <2>2. m \in Messages /\ d.attempts \in 0..RetryLimit /\ nextId <= MaxIds
    BY <1>13, <2>1, ConstantsAssumption
    DEF PrepareRetry, Retryable, Undecided, Unsettled, MsgInv, Delivery
  <2>3. Attempt(m, p, d.attempts) \in Delivery
    BY <2>2, AttemptType
  <2>4. d.attempts + 1 \in 0..(RetryLimit + 1) /\ nextId \in Ids /\ nextId' \in 1..(MaxIds + 1)
    BY <1>13, <2>2, ConstantsAssumption DEF PrepareRetry, TypeOK, Ids
  <2>5. [proc[p] EXCEPT !.pc = "prepared", !.retry = TRUE, !.outcome = "none",
                        !.attempts = d.attempts + 1, !.id = nextId] \in Process
    <3>1. proc[p] \in Process
      BY DEF TypeOK
    <3>2. QED BY <2>4, <3>1 DEF Process, PCs, Outcomes
  <2>6. proc' \in [Procs -> Process] /\ outbox' \in [Lanes -> Delivery]
    BY <1>13, <2>1, <2>3, <2>5 DEF PrepareRetry, TypeOK
  <2>7. QED BY <1>13, <2>4, <2>6 DEF PrepareRetry, TypeOK, turn, host, bounds
<1>14. CASE RejectRetry(p)
  BY <1>14, AfterFailureType, IdleProcess DEF RejectRetry, TypeOK, turn, host, bounds
<1>15. CASE Recheck(p)
  <2>1. proc[p].lane \in Lanes
    BY DEF TypeOK, Process
  <2>2. Monitor(proc[p].lane) \in Process /\ outbox[proc[p].lane].msg \in Messages \cup {NoMsg}
    BY <2>1, IdleProcess DEF TypeOK, Delivery
  <2>3. [Monitor(proc[p].lane) EXCEPT !.pc = "accept", !.msg = outbox[proc[p].lane].msg] \in Process
    BY <2>2 DEF Process, PCs
  <2>4. QED BY <1>15, <2>2, <2>3, IdleProcess DEF Recheck, TypeOK, turn, host, bounds
<1>16. CASE SettleAccepted(p)
  <2>1. proc[p].lane \in Lanes /\ outbox[proc[p].lane] \in Delivery
    BY DEF TypeOK, Process
  <2>2. Delivered(outbox[proc[p].lane]) \in Delivery
    BY <2>1, DeliveryType
  <2>3. QED BY <1>16, <2>1, <2>2, ExitType
            DEF SettleAccepted, AcceptWhileLocked, StallSentAfter, Exit, TypeOK, host, bounds
<1>17. QED BY <1>1, <1>2, <1>3, <1>4, <1>5, <1>6, <1>7, <1>8, <1>9, <1>10, <1>11, <1>12, <1>13, <1>14, <1>15, <1>16 DEF Step

LEMMA TransportType ==
    ASSUME TypeOK, MsgInv, NEW p \in Procs, Reach(p) \/ Checkpoint(p) \/ Crash(p)
    PROVE  TypeOK'
<1>1. CASE Reach(p)
  <2>1. proc[p].msg \in Messages /\ proc[p].id \in Ids
    BY <1>1 DEF Reach, MsgInv, TypeOK, Process
  <2>2. QED BY <1>1, <2>1 DEF Reach, Attempted, TypeOK, turn, bounds
<1>2. CASE Checkpoint(p)
  <2>1. proc[p] \in Process /\ proc[p].lane \in Lanes
    BY DEF TypeOK, Process
  <2>2. [proc[p] EXCEPT !.outcome = "accepted"] \in Process
    BY <2>1 DEF Process, Outcomes
  <2>3. outbox[proc[p].lane] \in Delivery
    BY <2>1 DEF TypeOK
  <2>4. [outbox[proc[p].lane] EXCEPT !.outcome = "accepted", !.lease = TRUE] \in Delivery
    BY <2>3 DEF Delivery, Outcomes
  <2>5. proc' \in [Procs -> Process] /\ outbox' \in [Lanes -> Delivery]
    BY <1>2, <2>1, <2>2, <2>4 DEF Checkpoint, TypeOK
  <2>6. QED BY <1>2, <2>5 DEF Checkpoint, TypeOK, turn, host, bounds
<1>3. CASE Crash(p)
  <2>1. crashes' \in 0..MaxCrashes
    BY <1>3, ConstantsAssumption DEF Crash, TypeOK
  <2>2. proc' \in [Procs -> Process] /\ lock' \in Procs \cup {NoProc}
    BY <1>3, ExitType DEF Crash, Exit, TypeOK
  <2>3. QED BY <1>3, <2>1, <2>2 DEF Crash, TypeOK, turn, host
<1>4. QED BY <1>1, <1>2, <1>3

LEMMA ReconcileType ==
    ASSUME TypeOK, NEW l \in Lanes,
           ReconcileAccepted(l) \/ ReconcileRetryable(l) \/ LeaseExpires(l)
               \/ \E p \in Procs : ManualRetry(p, l)
    PROVE  TypeOK'
<1>1. outbox[l] \in Delivery
  BY DEF TypeOK
<1>2. CASE ReconcileAccepted(l)
  <2>1. Delivered(outbox[l]) \in Delivery
    BY <1>1, DeliveryType
  <2>2. QED BY <1>2, <2>1 DEF ReconcileAccepted, AcceptWhileLocked, StallSentAfter, TypeOK,
                              host, bounds
<1>3. CASE ReconcileRetryable(l)
  BY <1>3, IdleProcess DEF ReconcileRetryable, FreeProcs, TypeOK, turn, host, bounds
<1>4. CASE LeaseExpires(l)
  <2>1. [outbox[l] EXCEPT !.lease = FALSE] \in Delivery
    BY <1>1 DEF Delivery
  <2>2. QED BY <1>4, <2>1 DEF LeaseExpires, TypeOK, turn, host, bounds
<1>5. ASSUME NEW p \in Procs, ManualRetry(p, l) PROVE TypeOK'
  <2>1. outbox[l].msg \in Messages \cup {NoMsg}
    BY <1>1 DEF Delivery
  <2>2. ASSUME NEW pc \in {"accept", "retry"}
        PROVE  [Idle EXCEPT !.pc = pc, !.lane = l, !.msg = outbox[l].msg] \in Process
    BY <2>1, IdleProcess DEF Process, PCs
  <2>3. proc' \in [Procs -> Process]
    <3>1. PICK pc \in {"accept", "retry"} :
            proc' = [proc EXCEPT ![p] = [Idle EXCEPT !.pc = pc, !.lane = l, !.msg = outbox[l].msg]]
      BY <1>5 DEF ManualRetry
    <3>2. QED BY <2>2, <3>1 DEF TypeOK
  <2>4. QED BY <1>5, <2>3 DEF ManualRetry, TypeOK, turn, host, bounds
<1>6. QED BY <1>2, <1>3, <1>4, <1>5

LEMMA EnvironmentType ==
    ASSUME TypeOK, Environment
    PROVE  TypeOK'
<1>1. ASSUME NEW l \in Lanes PROVE Superseded(outbox[l]) \in Delivery
  BY DeliveryType DEF TypeOK
<1>2. ASSUME NEW m \in Prompts, Show(m) \/ Vanish(m) PROVE TypeOK'
  BY <1>2 DEF Show, Vanish, TypeOK, turn, host, bounds
<1>3. CASE ResolveApproval
  BY <1>3, ConstantsAssumption DEF ResolveApproval, TypeOK, TurnStatus, Messages, Kinds, host, bounds
<1>4. CASE ResolveInteraction
  <2>1. outbox' \in [Lanes -> Delivery]
    BY <1>1, <1>4, Lane DEF ResolveInteraction, TypeOK
  <2>2. QED BY <1>4, <2>1 DEF ResolveInteraction, TypeOK, TurnStatus, Kinds, bounds
<1>5. CASE Renew
  <2>1. renewals' \in 0..MaxRenewals
    BY <1>5, ConstantsAssumption DEF Renew, TypeOK
  <2>2. outbox' \in [Lanes -> Delivery]
    BY <1>1, <1>5 DEF Renew, TypeOK, Lanes
  <2>3. QED BY <1>5, <2>1, <2>2 DEF Renew, TypeOK, TurnStatus, host
<1>6. CASE Close
  BY <1>1, <1>6 DEF Close, TypeOK, TurnStatus, host, bounds
<1>7. QED BY <1>2, <1>3, <1>4, <1>5, <1>6 DEF Environment

LEMMA InitType == Init => TypeOK
<1>1. EmptyDelivery \in Delivery
  BY ConstantsAssumption DEF EmptyDelivery, Delivery, Outcomes, Ids
<1>2. 0 \in 0..MaxCrashes /\ 0 \in 0..MaxRenewals /\ 1 \in 1..(MaxIds + 1)
  BY ConstantsAssumption
<1>3. QED BY ZenonT(60), <1>1, <1>2, IdleProcess DEF Init, TypeOK, TurnStatus

LEMMA NextType == IInv /\ [Next]_vars => TypeOK'
<1> SUFFICES ASSUME IInv, [Next]_vars PROVE TypeOK'
  OBVIOUS
<1> USE DEF IInv, StableInv
<1>1. ASSUME NEW p \in Procs, Prepare(p) PROVE TypeOK'
  BY <1>1, PrepareType
<1>2. ASSUME NEW p \in Procs, Step(p) PROVE TypeOK'
  BY <1>2, StepType
<1>3. ASSUME NEW p \in Procs, Reach(p) \/ Checkpoint(p) \/ Crash(p) PROVE TypeOK'
  BY <1>3, TransportType
<1>4. ASSUME NEW l \in Lanes,
             ReconcileAccepted(l) \/ ReconcileRetryable(l) \/ LeaseExpires(l)
               \/ \E p \in Procs : ManualRetry(p, l)
      PROVE  TypeOK'
  BY <1>4, ReconcileType
<1>5. CASE Environment
  BY <1>5, EnvironmentType
<1>6. CASE UNCHANGED vars
  BY <1>6 DEF TypeOK, vars, turn, host, bounds
<1>7. QED BY <1>1, <1>2, <1>3, <1>4, <1>5, <1>6 DEF Next

(* ------------------------- inductive steps --------------------------- *)

\* What a starting preparation does to the processes.
LEMMA StartEffect ==
    ASSUME TypeOK, NEW p \in FreeProcs, NEW m \in Messages, StartPreparing(p, m)
    PROVE  /\ lock' = p
           /\ proc'[p] = [Idle EXCEPT !.pc = NextWrite(m), !.lane = LaneOf(m), !.msg = m]
           /\ \A q \in Procs \ {p} :
                 proc'[q] = proc[q] \/ (proc[q] = Idle /\ \E l \in Lanes : proc'[q] = Monitor(l))
<1>1. PICK w \in FreeProcs \ {p} :
         /\ lock' = p
         /\ proc' = [proc EXCEPT
              ![p] = [Idle EXCEPT !.pc = NextWrite(m), !.lane = LaneOf(m), !.msg = m],
              ![w] = Monitor(LaneOf(m))]
  BY DEF StartPreparing
<1>2. /\ p \in Procs /\ w \in Procs /\ w # p /\ proc[w] = Idle
      /\ LaneOf(m) \in Lanes /\ proc \in [Procs -> Process]
  BY Lane DEF TypeOK, FreeProcs
<1>3. proc'[p] = [Idle EXCEPT !.pc = NextWrite(m), !.lane = LaneOf(m), !.msg = m]
  BY <1>1, <1>2
<1>4. ASSUME NEW q \in Procs \ {p}
      PROVE  proc'[q] = proc[q] \/ (proc[q] = Idle /\ \E l \in Lanes : proc'[q] = Monitor(l))
  <2>1. proc'[q] = IF q = w THEN Monitor(LaneOf(m)) ELSE proc[q]
    BY <1>1, <1>2
  <2>2. QED BY <1>2, <2>1
<1>5. QED BY <1>1, <1>3, <1>4

\* Each operation that starts a preparation: its message, and what it leaves alone.
Starts(p, m) ==
    /\ p \in FreeProcs /\ m \in Messages /\ Unlocked
    /\ StartPreparing(p, m)
    /\ UNCHANGED <<status, outbox, log>>
    /\ status \notin Released
    /\ outbox[LaneOf(m)].msg # m
    /\ m \in Completions => claim' = m
    /\ claim # NoMsg => claim' = claim

LEMMA StartsPreparation ==
    ASSUME IInv, NEW p \in Procs, Prepare(p)
    PROVE  \/ \E m \in Messages : Starts(p, m)
           \/ /\ p \in FreeProcs /\ Unlocked /\ lock' = p
              /\ proc' = [proc EXCEPT ![p].pc = "announce"]
              /\ UNCHANGED <<outbox, log, claim>>
              /\ status \notin Released
<1> USE ConstantsAssumption, Lane DEF Starts, IInv, StableInv, turn, host, bounds, Released
<1>1. ASSUME NEW q \in Calls, AcceptCallback(p, q) PROVE Starts(p, q)
  BY <1>1 DEF AcceptCallback, LaneInv, Messages
<1>2. ASSUME NEW m \in Prompts, RecordPrompt(p, m) PROVE Starts(p, m)
  BY <1>2 DEF RecordPrompt, LaneInv, Messages
<1>3. ASSUME NEW k \in Kinds, RecoverPrompt(p, k) PROVE Starts(p, marker[k])
  BY <1>3 DEF RecoverPrompt, TypeOK, Messages
<1>4. ASSUME NEW c \in Completions, ClaimCompletion(p, c) PROVE Starts(p, c)
  BY <1>4 DEF ClaimCompletion, LaneInv, Messages, Ends
<1>5. ASSUME NEW s \in Stalls, NotifyStall(p, s) PROVE Starts(p, s)
  BY <1>5 DEF NotifyStall, LaneInv, Messages
<1>6. ASSUME StallQuietly(p) \/ \E s \in Stalls : StallDuplicate(p, s)
      PROVE  /\ p \in FreeProcs /\ Unlocked /\ lock' = p
             /\ proc' = [proc EXCEPT ![p].pc = "announce"]
             /\ UNCHANGED <<outbox, log, claim>>
             /\ status \notin Released
  BY <1>6 DEF StallQuietly, StallDuplicate, Goto
<1>7. QED BY <1>1, <1>2, <1>3, <1>4, <1>5, <1>6 DEF Prepare, Messages, TypeOK

LEMMA PrepareStable ==
    ASSUME IInv, NEW p \in Procs, Prepare(p)
    PROVE  StableInv'
<1> USE DEF IInv, StableInv
<1>1. ASSUME NEW m \in Messages, Starts(p, m) PROVE StableInv'
  <2>1. /\ p \in FreeProcs /\ StartPreparing(p, m) /\ lock = NoProc
        /\ status' = status /\ outbox' = outbox /\ log' = log
        /\ status \notin Released /\ outbox[LaneOf(m)].msg # m
        /\ m \in Completions => claim' = m
        /\ claim # NoMsg => claim' = claim
    BY <1>1 DEF Starts, Unlocked
  <2>2. /\ lock' = p
        /\ proc'[p].pc = NextWrite(m) /\ proc'[p].lane = LaneOf(m) /\ proc'[p].msg = m
        /\ \A q \in Procs \ {p} :
              proc'[q] = proc[q] \/ (proc[q].pc = "free" /\ proc'[q].pc = "sleep")
    <3>1. /\ Idle.pc = "free"
          /\ \A l \in Lanes : Monitor(l).pc = "sleep"
      BY DEF Idle, Monitor
    <3>2. LET r == [Idle EXCEPT !.pc = NextWrite(m), !.lane = LaneOf(m), !.msg = m]
          IN  r.pc = NextWrite(m) /\ r.lane = LaneOf(m) /\ r.msg = m
      BY DEF Idle
    <3>3. /\ lock' = p
          /\ proc'[p] = [Idle EXCEPT !.pc = NextWrite(m), !.lane = LaneOf(m), !.msg = m]
          /\ \A q \in Procs \ {p} :
                proc'[q] = proc[q] \/ (proc[q] = Idle /\ \E l \in Lanes : proc'[q] = Monitor(l))
      BY <2>1, StartEffect
    <3>4. QED BY <3>1, <3>2, <3>3
  <2>3. \A q \in Procs : proc[q].pc \notin Locked
    BY <2>1, ConstantsAssumption DEF LockInv
  <2>4. NextWrite(m) \in Writing /\ (NextWrite(m) = "save" => m \in log)
    BY DEF NextWrite, Writing
  <2>5. LockInv'
    BY <2>2, <2>3, <2>4 DEF LockInv, Locked, Writing
  <2>6. WriteInv'
    BY <2>1, <2>2, <2>3, <2>4 DEF WriteInv, Locked, Writing
  <2>7. LaneInv' /\ ClaimInv'
    <3>1. LaneInv'
      BY <2>1 DEF LaneInv
    <3>2. ClaimInv'
      BY <2>1, ConstantsAssumption DEF ClaimInv, Messages
    <3>3. QED BY <3>1, <3>2
  <2>8. MsgInv'
    BY <2>1, <2>2, <2>3, <2>4 DEF MsgInv, Locked, Writing, Unsettled
  <2>9. QED BY <2>5, <2>6, <2>7, <2>8
<1>2. ASSUME p \in FreeProcs, Unlocked, lock' = p,
             proc' = [proc EXCEPT ![p].pc = "announce"],
             UNCHANGED <<outbox, log, claim>>, status \notin Released
      PROVE  StableInv'
  <2>1. \A q \in Procs : proc[q].pc \notin Locked
    BY <1>2, ConstantsAssumption DEF LockInv, Unlocked
  <2>2. /\ proc[p] = Idle /\ proc'[p].pc = "announce" /\ proc'[p].id = 0
        /\ \A q \in Procs \ {p} : proc'[q] = proc[q]
    BY <1>2 DEF FreeProcs, Idle, TypeOK
  <2>3. LockInv' /\ WriteInv'
    BY <1>2, <2>1, <2>2 DEF LockInv, WriteInv, Locked, Writing
  <2>4. LaneInv' /\ ClaimInv'
    BY <1>2, Lane DEF LaneInv, ClaimInv, TypeOK
  <2>5. MsgInv'
    BY <1>2, <2>1, <2>2 DEF MsgInv, Locked, Unsettled
  <2>6. QED BY <2>3, <2>4, <2>5
<1>3. QED BY <1>1, <1>2, StartsPreparation

LEMMA WriteStable ==
    ASSUME IInv, TypeOK', NEW p \in Procs,
           AppendMessage(p) \/ SavePrepared(p) \/ AnnounceStall(p) \/ Crash(p)
    PROVE  StableInv'
<1> USE DEF IInv, StableInv
<1>1. CASE AppendMessage(p)
  <2>1. /\ proc[p].pc = "append" /\ proc[p].msg \in Messages /\ lock = p /\ lock' = lock
        /\ log' = log \cup {proc[p].msg}
        /\ UNCHANGED <<status, claim, outbox>>
        /\ proc[p].msg \in Completions => proc[p].msg = claim
    BY <1>1 DEF AppendMessage, WriteInv, Writing, LockInv, Locked, turn
  <2>2. /\ proc'[p].pc = "save" /\ proc'[p].msg = proc[p].msg /\ proc'[p].lane = proc[p].lane
        /\ \A q \in Procs \ {p} : proc'[q] = proc[q]
    <3>1. proc' = [proc EXCEPT ![p] = [proc[p] EXCEPT !.pc = "save"]]
      BY <1>1 DEF AppendMessage, Goto
    <3>2. proc[p] \in Process
      BY DEF TypeOK
    <3>3. QED BY <3>1, <3>2 DEF TypeOK, Process
  <2>3. LockInv' /\ WriteInv'
    BY <2>1, <2>2 DEF LockInv, WriteInv, Locked, Writing
  <2>4. LaneInv' /\ ClaimInv'
    BY <2>1 DEF LaneInv, ClaimInv
  <2>5. MsgInv'
    BY <2>1, <2>2 DEF MsgInv, Unsettled
  <2>6. QED BY <2>3, <2>4, <2>5
<1>2. CASE SavePrepared(p)
  <2> DEFINE m == proc[p].msg  l == proc[p].lane
             fresh == Attempt(m, p, Previous(l, m))
             announces == m \in Stalls
  <2>1. /\ proc[p].pc = "save" /\ m \in Messages /\ lock = p /\ l = LaneOf(m) /\ l \in Lanes
        /\ UNCHANGED <<log, claim>> /\ status \notin Released /\ m \in log
        /\ nextId \in Nat \ {0}
    BY <1>2, Lane DEF SavePrepared, WriteInv, Writing, LockInv, Locked, TypeOK
  <2>2. /\ fresh.msg = m /\ fresh.status = "pending"
    BY DEF Attempt, EmptyDelivery
  <2>3. /\ proc'[p].pc = IF announces THEN "announce" ELSE "prepared"
        /\ proc'[p].msg = m /\ proc'[p].lane = l /\ proc'[p].id = nextId
        /\ \A q \in Procs \ {p} : proc'[q] = proc[q]
        /\ lock' = IF announces THEN p ELSE NoProc
    <3>1. /\ proc' = [proc EXCEPT ![p] = [proc[p] EXCEPT
                !.pc = IF announces THEN "announce" ELSE "prepared",
                !.attempts = fresh.attempts, !.id = nextId]]
          /\ lock' = IF announces THEN p ELSE NoProc
      BY <1>2 DEF SavePrepared
    <3>2. proc[p] \in Process /\ proc \in [Procs -> Process]
      BY DEF TypeOK
    <3>3. QED BY <3>1, <3>2 DEF Process
  <2>4. \A q \in Procs \ {p} : proc[q].pc \notin Locked
    BY <2>1 DEF LockInv
  <2>5. /\ m \in Ends => /\ l = "lifecycle"
                         /\ outbox'["lifecycle"] = fresh
                         /\ outbox'["notification"] = Superseded(outbox["notification"])
                         /\ status' = "idle"
        /\ m \notin Ends => \A k \in Lanes : outbox'[k] = IF k = l THEN fresh ELSE outbox[k]
    BY <1>2, <2>1, ConstantsAssumption
    DEF SavePrepared, LaneOf, Lanes, StatusAfter, TypeOK, Prompts, Ends, Calls
  <2>6. \A k \in Lanes : /\ outbox'[k].msg = (IF k = l THEN m ELSE outbox[k].msg)
                         /\ k # l /\ Unsettled(outbox'[k]) => Unsettled(outbox[k])
    <3>1. \A d \in Delivery : Superseded(d).msg = d.msg
                              /\ (Unsettled(Superseded(d)) => Unsettled(d))
      BY DEF Superseded, Delivery, Unsettled
    <3>2. QED BY <2>1, <2>2, <2>5, <3>1 DEF Lanes, TypeOK
  <2>7. LockInv'
    BY <2>1, <2>3, <2>4, ConstantsAssumption DEF LockInv, Locked
  <2>8. WriteInv'
    BY <2>3, <2>4 DEF WriteInv, Locked, Writing
  <2>9. LaneInv'
    <3>1. m \in Ends => status' \in Released
      BY <2>5 DEF Released
    <3>2. \A k \in Lanes : outbox[k].msg \notin Ends \/ outbox[k].msg = NoMsg
      BY <2>1 DEF LaneInv
    <3>3. QED BY <2>1, <2>6, <3>1, <3>2 DEF LaneInv
  <2>10. ClaimInv'
    BY <2>1 DEF ClaimInv
  <2>11. MsgInv'
    <3>1. \A k \in Lanes : Unsettled(outbox'[k]) => outbox'[k].msg \in Messages
      BY <2>1, <2>6 DEF MsgInv
    <3>2. QED BY <2>1, <2>3, <2>4, <3>1 DEF MsgInv, Locked, Unsettled
  <2>12. QED BY <2>7, <2>8, <2>9, <2>10, <2>11
<1>3. CASE AnnounceStall(p)
  <2>1. /\ proc[p].pc = "announce" /\ lock = p /\ lock' = NoProc
        /\ UNCHANGED <<status, claim, outbox, log>>
    BY <1>3 DEF AnnounceStall, LockInv, Locked, turn
  <2>2. /\ proc'[p].pc \in {"free", "prepared"}
        /\ proc'[p].pc = "prepared" => proc'[p].msg = proc[p].msg /\ proc'[p].id = proc[p].id
                                      /\ proc[p].id # 0
        /\ \A q \in Procs \ {p} : proc'[q] = proc[q]
    <3>1. proc[p] \in Process /\ proc \in [Procs -> Process] /\ Idle.pc = "free"
      BY DEF TypeOK, Idle
    <3>2. CASE proc[p].id = 0
      BY <1>3, <3>1, <3>2 DEF AnnounceStall, Exit
    <3>3. CASE proc[p].id # 0
      <4>1. proc' = [proc EXCEPT ![p] = [proc[p] EXCEPT !.pc = "prepared"]]
        BY <1>3, <3>3 DEF AnnounceStall, Goto
      <4>2. QED BY <3>1, <3>3, <4>1 DEF Process
    <3>4. QED BY <3>2, <3>3
  <2>3. LockInv' /\ WriteInv'
    BY <2>1, <2>2, ConstantsAssumption DEF LockInv, WriteInv, Locked, Writing
  <2>4. LaneInv' /\ ClaimInv'
    BY <2>1 DEF LaneInv, ClaimInv
  <2>5. MsgInv'
    BY <2>1, <2>2 DEF MsgInv, Unsettled
  <2>6. QED BY <2>3, <2>4, <2>5
<1>4. CASE Crash(p)
  <2>1. /\ proc'[p].pc = "free"
        /\ \A q \in Procs \ {p} : proc'[q] = proc[q]
        /\ UNCHANGED <<status, claim, outbox, log>>
        /\ lock' = IF lock = p THEN NoProc ELSE lock
    BY <1>4 DEF Crash, Exit, Idle, TypeOK, turn
  <2>2. LockInv' /\ WriteInv'
    BY <2>1, ConstantsAssumption DEF LockInv, WriteInv, Locked, Writing
  <2>3. LaneInv' /\ ClaimInv'
    BY <2>1 DEF LaneInv, ClaimInv
  <2>4. MsgInv'
    BY <2>1 DEF MsgInv, Unsettled
  <2>5. QED BY <2>2, <2>3, <2>4
<1>5. QED BY <1>1, <1>2, <1>3, <1>4

\* What every step outside a locked preparation leaves alone.
Frame ==
    /\ \A q \in Procs : proc[q].pc \in Locked \/ proc'[q].pc \in Locked => proc'[q] = proc[q]
    /\ UNCHANGED <<lock, log, claim>>
    /\ status' # status => Unlocked
    /\ status \in Released => status' \in Released
    /\ \A l \in Lanes : /\ outbox'[l].msg = outbox[l].msg
                        /\ Unsettled(outbox'[l]) => Unsettled(outbox[l])
    /\ \A q \in Procs : proc'[q].pc \in {"prepared", "transport", "settle"}
                            => proc'[q].msg \in Messages /\ proc'[q].id # 0

LEMMA FrameStable ==
    ASSUME IInv, TypeOK', Frame
    PROVE  StableInv'
<1> USE DEF IInv, StableInv
<1>1. LockInv'
  BY DEF Frame, LockInv
<1>2. WriteInv'
  <2>1. ASSUME NEW q \in Procs, proc'[q].pc \in Writing
        PROVE  proc'[q] = proc[q] /\ lock = q /\ status' = status
    BY <2>1, ConstantsAssumption DEF Frame, LockInv, Writing, Locked, Unlocked
  <2>2. QED BY <2>1, Lane DEF Frame, WriteInv
<1>3. LaneInv' /\ ClaimInv'
  BY DEF Frame, LaneInv, ClaimInv
<1>4. MsgInv'
  <2>1. \A q \in Procs : proc'[q].pc = "announce" /\ proc'[q].id # 0 => proc'[q].msg \in Messages
    BY DEF Frame, MsgInv, Locked
  <2>2. \A l \in Lanes : Unsettled(outbox'[l]) => outbox'[l].msg \in Messages
    BY DEF Frame, MsgInv
  <2>3. QED BY <2>1, <2>2 DEF Frame, MsgInv, Unsettled
<1>5. QED BY <1>1, <1>2, <1>3, <1>4

\* One process moves outside the locked preparations; it may launch a monitor.
Moves(p) ==
    /\ proc[p].pc \notin Locked /\ proc'[p].pc \notin Locked
    /\ \A q \in Procs \ {p} :
          proc'[q] = proc[q] \/ (proc[q].pc = "free" /\ proc'[q].pc = "sleep")
    /\ proc'[p].pc \in {"prepared", "transport", "settle"}
          => proc'[p].msg \in Messages /\ proc'[p].id # 0

LEMMA MovesFrame ==
    ASSUME IInv, NEW p \in Procs, Moves(p),
           UNCHANGED <<lock, log, claim, status>>,
           \A l \in Lanes : /\ outbox'[l].msg = outbox[l].msg
                            /\ Unsettled(outbox'[l]) => Unsettled(outbox[l])
    PROVE  Frame
BY DEF Moves, Frame, Locked, IInv, StableInv, MsgInv

LEMMA DeliveryEffect ==
    ASSUME NEW d \in Delivery
    PROVE  /\ Superseded(d).msg = d.msg /\ (Unsettled(Superseded(d)) => Unsettled(d))
           /\ Delivered(d).msg = d.msg /\ ~Unsettled(Delivered(d))
BY DEF Superseded, Delivered, Delivery, Unsettled

LEMMA AfterFailureEffect ==
    ASSUME TypeOK, NEW p \in Procs
    PROVE  AfterFailure(p).pc \in {"free", "recheck"}
BY DEF AfterFailure, Idle, TypeOK, Process

LEMMA StepFrame ==
    ASSUME IInv, TypeOK', NEW p \in Procs,
           \/ BeginTransport(p) \/ LoseClaim(p) \/ Reach(p) \/ Checkpoint(p) \/ Return(p)
           \/ SettleDelivered(p) \/ SettleFailed(p) \/ SettleSkipped(p)
           \/ ObserveAccepted(p) \/ ObserveRetryable(p) \/ ObserveNothing(p)
           \/ PrepareRetry(p) \/ RejectRetry(p) \/ Recheck(p) \/ SettleAccepted(p)
    PROVE  Frame
<1> USE DEF IInv, StableInv
<1> DEFINE l == proc[p].lane
<1>1. /\ proc[p] \in Process /\ proc \in [Procs -> Process] /\ outbox \in [Lanes -> Delivery]
      /\ l \in Lanes /\ outbox[l] \in Delivery
      /\ Idle.pc = "free" /\ \A k \in Lanes : Monitor(k).pc = "sleep"
  BY DEF TypeOK, Process, Idle, Monitor
<1>2. proc[p].pc \in {"prepared", "transport", "settle"} => proc[p].msg \in Messages /\ proc[p].id # 0
  BY DEF MsgInv
<1> DEFINE SameMessages ==
      \A k \in Lanes : /\ outbox'[k].msg = outbox[k].msg
                       /\ Unsettled(outbox'[k]) => Unsettled(outbox[k])
<1>3. outbox' = outbox => SameMessages
  OBVIOUS
<1>4. CASE BeginTransport(p)
  <2>1. proc' = [proc EXCEPT ![p] = [proc[p] EXCEPT !.pc = "transport"]] /\ proc[p].pc = "prepared"
    BY <1>4 DEF BeginTransport, Goto
  <2>2. Moves(p)
    BY <1>1, <1>2, <2>1 DEF Moves, Locked, Process
  <2>3. [outbox[l] EXCEPT !.started = TRUE].msg = outbox[l].msg
        /\ [outbox[l] EXCEPT !.started = TRUE].status = outbox[l].status
    BY <1>1 DEF Delivery
  <2>4. SameMessages
    BY <1>1, <1>4, <2>3 DEF BeginTransport, Unsettled
  <2>5. QED BY <1>4, <2>2, <2>4, MovesFrame DEF BeginTransport, turn
<1>5. CASE LoseClaim(p) \/ ObserveNothing(p)
  <2>1. Moves(p)
    BY <1>1, <1>5 DEF LoseClaim, ObserveNothing, Exit, Moves, Locked
  <2>2. QED BY <1>3, <1>5, <2>1, MovesFrame DEF LoseClaim, ObserveNothing, turn
<1>6. CASE Reach(p)
  <2>1. Moves(p)
    BY <1>2, <1>6 DEF Reach, Moves, Locked
  <2>2. QED BY <1>3, <1>6, <2>1, MovesFrame DEF Reach, turn
<1>7. CASE Checkpoint(p)
  <2>1. proc' = [proc EXCEPT ![p] = [proc[p] EXCEPT !.outcome = "accepted"]] /\ proc[p].pc = "transport"
    BY <1>7 DEF Checkpoint
  <2>2. Moves(p)
    BY <1>1, <1>2, <2>1 DEF Moves, Locked, Process
  <2> DEFINE d == [outbox[l] EXCEPT !.outcome = "accepted", !.lease = TRUE]
  <2>3. d.msg = outbox[l].msg /\ d.status = outbox[l].status
    BY <1>1 DEF Delivery
  <2>4. outbox' = outbox \/ outbox' = [outbox EXCEPT ![l] = d]
    BY <1>7 DEF Checkpoint
  <2>5. SameMessages
    BY <1>1, <2>3, <2>4 DEF Unsettled
  <2>6. QED BY <1>7, <2>2, <2>5, MovesFrame DEF Checkpoint, turn
<1>8. CASE Return(p)
  <2>1. PICK o \in Outcomes : proc' = [proc EXCEPT ![p] = [proc[p] EXCEPT !.pc = "settle", !.outcome = o]]
    BY <1>8 DEF Return
  <2>2. Moves(p)
    BY <1>1, <1>2, <1>8, <2>1 DEF Return, Moves, Locked, Process
  <2>3. QED BY <1>3, <1>8, <2>2, MovesFrame DEF Return, turn
<1>9. CASE SettleDelivered(p)
  <2>1. Moves(p)
    BY <1>1, <1>9 DEF SettleDelivered, Exit, Moves, Locked
  <2>2. SameMessages
    BY <1>1, <1>9, DeliveryEffect DEF SettleDelivered
  <2>3. QED BY <1>9, <2>1, <2>2, MovesFrame DEF SettleDelivered
<1>10. CASE SettleFailed(p)
  <2>1. Moves(p)
    <3>1. CASE RetryAuthorized(p)
      <4>1. PICK w \in FreeProcs \cup {p} :
              proc' = [[proc EXCEPT ![p] = Idle] EXCEPT ![w] = Monitor(l)]
        BY <1>10, <3>1 DEF SettleFailed
      <4>2. w \in Procs /\ (w = p \/ proc[w].pc = "free") /\ proc[p].pc = "settle"
        BY <1>1, <1>10 DEF FreeProcs, SettleFailed
      <4>3. QED BY <1>1, <4>1, <4>2 DEF Moves, Locked
    <3>2. CASE ~RetryAuthorized(p)
      BY <1>1, <1>10, <3>2, AfterFailureEffect DEF SettleFailed, Moves, Locked
    <3>3. QED BY <3>1, <3>2
  <2> DEFINE d == [outbox[l] EXCEPT !.status = "failed", !.outcome = proc[p].outcome,
                                    !.pid = NoProc, !.lease = FALSE]
  <2>2. d.msg = outbox[l].msg /\ Unsettled(outbox[l]) /\ outbox' = [outbox EXCEPT ![l] = d]
    BY <1>1, <1>10 DEF SettleFailed, HoldsClaim, Delivery, Unsettled
  <2>3. SameMessages
    BY <1>1, <2>2
  <2>4. QED BY <1>10, <2>1, <2>3, MovesFrame DEF SettleFailed, turn
<1>11. CASE SettleSkipped(p) \/ RejectRetry(p)
  <2>1. Moves(p)
    BY <1>1, <1>11, AfterFailureEffect DEF SettleSkipped, RejectRetry, Moves, Locked
  <2>2. QED BY <1>3, <1>11, <2>1, MovesFrame DEF SettleSkipped, RejectRetry, turn
<1>12. CASE ObserveAccepted(p)
  <2>1. proc' = [proc EXCEPT ![p] = [proc[p] EXCEPT !.pc = "accept", !.msg = outbox[l].msg]]
        /\ proc[p].pc = "sleep"
    BY <1>12 DEF ObserveAccepted
  <2>2. Moves(p)
    BY <1>1, <2>1 DEF Moves, Locked, Process
  <2>3. QED BY <1>3, <1>12, <2>2, MovesFrame DEF ObserveAccepted, turn
<1>13. CASE ObserveRetryable(p)
  <2> DEFINE r == [Monitor(l) EXCEPT !.pc = "retry", !.msg = outbox[l].msg, !.seen = outbox[l].attempts]
  <2>1. proc' = [proc EXCEPT ![p] = r] /\ proc[p].pc = "sleep" /\ r.pc = "retry"
    BY <1>13 DEF ObserveRetryable, Monitor, Idle
  <2>2. Moves(p)
    BY <1>1, <2>1 DEF Moves, Locked
  <2>3. QED BY <1>3, <1>13, <2>2, MovesFrame DEF ObserveRetryable, turn
<1>14. CASE PrepareRetry(p)
  <2> DEFINE a == Attempt(proc[p].msg, p, outbox[l].attempts)
             r == [proc[p] EXCEPT !.pc = "prepared", !.retry = TRUE, !.outcome = "none",
                                  !.attempts = outbox[l].attempts + 1, !.id = nextId]
  <2>1. proc' = [proc EXCEPT ![p] = r] /\ proc[p].pc = "retry" /\ outbox' = [outbox EXCEPT ![l] = a]
        /\ Retryable(outbox[l]) /\ outbox[l].msg = proc[p].msg
    BY <1>14 DEF PrepareRetry
  <2>7. Unsettled(outbox[l])
    BY <2>1 DEF Retryable, Undecided
  <2>8. nextId # 0
    BY ConstantsAssumption DEF TypeOK
  <2>2. r.msg = proc[p].msg /\ r.id = nextId /\ a.msg = proc[p].msg
    BY <1>1 DEF Process, Attempt, EmptyDelivery
  <2>3. proc[p].msg \in Messages
    BY <1>1, <2>1, <2>7 DEF MsgInv
  <2>4. Moves(p)
    BY <1>1, <2>1, <2>2, <2>3, <2>8 DEF Moves, Locked
  <2>5. SameMessages
    BY <1>1, <2>1, <2>2, <2>7
  <2>6. QED BY <1>14, <2>4, <2>5, MovesFrame DEF PrepareRetry, turn
<1>15. CASE Recheck(p)
  <2> DEFINE r == [Monitor(l) EXCEPT !.pc = "accept", !.msg = outbox[l].msg]
  <2>1. /\ proc[p].pc = "recheck" /\ r.pc = "accept"
        /\ \E x \in {r, Monitor(l), Idle} : proc' = [proc EXCEPT ![p] = x]
    BY <1>15 DEF Recheck, Monitor, Idle
  <2>2. Moves(p)
    BY <1>1, <2>1 DEF Moves, Locked
  <2>3. QED BY <1>3, <1>15, <2>2, MovesFrame DEF Recheck, turn
<1>16. CASE SettleAccepted(p)
  <2>1. Moves(p)
    BY <1>1, <1>16 DEF SettleAccepted, Exit, Moves, Locked
  <2>2. SameMessages
    BY <1>1, <1>16, DeliveryEffect DEF SettleAccepted, AcceptWhileLocked
  <2>3. QED BY <1>16, <2>1, <2>2, MovesFrame DEF SettleAccepted
<1>17. QED BY <1>4, <1>5, <1>6, <1>7, <1>8, <1>9, <1>10, <1>11, <1>12, <1>13, <1>14, <1>15, <1>16
\* Host startup, lease expiry and manual retries disturb no preparation.
LEMMA HostFrame ==
    ASSUME IInv, TypeOK', NEW k \in Lanes,
           \/ ReconcileAccepted(k) \/ ReconcileRetryable(k) \/ LeaseExpires(k)
           \/ \E p \in Procs : ManualRetry(p, k)
    PROVE  Frame
<1> USE DEF IInv, StableInv
<1>1. /\ proc \in [Procs -> Process] /\ outbox \in [Lanes -> Delivery] /\ outbox[k] \in Delivery
      /\ Idle.pc = "free" /\ Monitor(k).pc = "sleep"
  BY DEF TypeOK, Idle, Monitor
<1>2. CASE ReconcileAccepted(k)
  <2>1. \A l \in Lanes : /\ outbox'[l].msg = outbox[l].msg
                         /\ Unsettled(outbox'[l]) => Unsettled(outbox[l])
    BY <1>1, <1>2, DeliveryEffect DEF ReconcileAccepted, AcceptWhileLocked
  <2>2. QED BY <1>2, <2>1 DEF ReconcileAccepted, Frame, MsgInv
<1>3. CASE ReconcileRetryable(k)
  <2>1. PICK w \in FreeProcs : proc' = [proc EXCEPT ![w] = Monitor(k)]
    BY <1>3 DEF ReconcileRetryable
  <2>2. w \in Procs /\ proc[w].pc = "free" /\ proc'[w].pc = "sleep"
        /\ \A q \in Procs \ {w} : proc'[q] = proc[q]
    BY <1>1, <2>1 DEF FreeProcs
  <2>3. Moves(w)
    BY <2>2 DEF Moves, Locked
  <2>4. QED BY <1>3, <2>2, <2>3, MovesFrame DEF ReconcileRetryable, turn
<1>4. CASE LeaseExpires(k)
  <2> DEFINE d == [outbox[k] EXCEPT !.lease = FALSE]
  <2>1. d.msg = outbox[k].msg /\ d.status = outbox[k].status /\ outbox' = [outbox EXCEPT ![k] = d]
    BY <1>1, <1>4 DEF LeaseExpires, Delivery
  <2>2. \A l \in Lanes : /\ outbox'[l].msg = outbox[l].msg
                         /\ Unsettled(outbox'[l]) => Unsettled(outbox[l])
    BY <1>1, <2>1 DEF Unsettled
  <2>3. QED BY <1>4, <2>2 DEF LeaseExpires, Frame, MsgInv, turn
<1>5. ASSUME NEW p \in Procs, ManualRetry(p, k) PROVE Frame
  <2> DEFINE pc == IF AcceptedEvidence(outbox[k]) THEN "accept" ELSE "retry"
             r == [Idle EXCEPT !.pc = pc, !.lane = k, !.msg = outbox[k].msg]
  <2>1. r.pc = pc /\ proc[p].pc = "free" /\ proc' = [proc EXCEPT ![p] = r]
    BY <1>1, <1>5 DEF ManualRetry, FreeProcs, Idle
  <2>2. Moves(p)
    BY <1>1, <2>1 DEF Moves, Locked
  <2>3. QED BY <1>5, <2>2, MovesFrame DEF ManualRetry, turn
<1>6. QED BY <1>2, <1>3, <1>4, <1>5

\* The steps of the user and of the terminal leave processes and the log alone.
LEMMA EnvironmentFrame ==
    ASSUME IInv, TypeOK', Environment
    PROVE  Frame
<1> USE DEF IInv, StableInv
<1>1. outbox \in [Lanes -> Delivery] /\ status \in TurnStatus
  BY DEF TypeOK
<1> DEFINE SameMessages ==
      \A l \in Lanes : /\ outbox'[l].msg = outbox[l].msg
                       /\ Unsettled(outbox'[l]) => Unsettled(outbox[l])
<1>2. ASSUME SameMessages, UNCHANGED <<proc, lock, log, claim>>,
             status' # status => Unlocked,
             status \in Released => status' \in Released
      PROVE  Frame
  BY <1>2 DEF Frame, MsgInv
<1>3. ASSUME NEW m \in Prompts, Show(m) \/ Vanish(m) PROVE Frame
  BY <1>2, <1>3 DEF Show, Vanish, turn
<1>4. CASE ResolveApproval
  BY <1>2, <1>4 DEF ResolveApproval, Released
<1>5. CASE ResolveInteraction
  <2>1. SameMessages
    BY <1>1, <1>5, DeliveryEffect, Lane DEF ResolveInteraction
  <2>2. QED BY <1>2, <1>5, <2>1 DEF ResolveInteraction, Released
<1>6. CASE Renew
  <2>1. SameMessages
    BY <1>1, <1>6, DeliveryEffect DEF Renew, Lanes
  <2>2. QED BY <1>2, <1>6, <2>1 DEF Renew, Released
<1>7. CASE Close
  <2>1. SameMessages
    BY <1>1, <1>7, DeliveryEffect DEF Close
  <2>2. QED BY <1>2, <1>7, <2>1 DEF Close, Released
<1>8. QED BY <1>3, <1>4, <1>5, <1>6, <1>7 DEF Environment

(* ---------------------------- invariance ----------------------------- *)

LEMMA Initial == Init => IInv
<1> SUFFICES ASSUME Init PROVE IInv
  OBVIOUS
<1>1. TypeOK
  BY InitType
<1>2. /\ \A p \in Procs : proc[p].pc = "free" /\ lock # p
      /\ \A l \in Lanes : outbox[l].msg = NoMsg /\ outbox[l].status = "none"
      /\ log = {}
  BY ConstantsAssumption DEF Init, Idle, EmptyDelivery
<1>3. LockInv /\ WriteInv
  BY <1>2 DEF LockInv, WriteInv, Locked, Writing
<1>4. LaneInv /\ ClaimInv /\ MsgInv
  BY <1>2 DEF LaneInv, ClaimInv, MsgInv, Unsettled
<1>5. QED BY <1>1, <1>3, <1>4 DEF IInv, StableInv

LEMMA Inductive == IInv /\ [Next]_vars => IInv'
<1> SUFFICES ASSUME IInv, [Next]_vars PROVE IInv'
  OBVIOUS
<1>1. TypeOK'
  BY NextType DEF IInv, StableInv
<1> SUFFICES StableInv'
  BY <1>1 DEF IInv
<1>2. ASSUME NEW p \in Procs, Prepare(p) PROVE StableInv'
  BY <1>1, <1>2, PrepareStable
<1>3. ASSUME NEW p \in Procs, Step(p) \/ Reach(p) \/ Checkpoint(p) \/ Crash(p)
      PROVE  StableInv'
  <2>1. CASE AppendMessage(p) \/ SavePrepared(p) \/ AnnounceStall(p) \/ Crash(p)
    BY <1>1, <2>1, WriteStable
  <2>2. CASE ~(AppendMessage(p) \/ SavePrepared(p) \/ AnnounceStall(p) \/ Crash(p))
    BY <1>1, <1>3, <2>2, StepFrame, FrameStable DEF Step
  <2>3. QED BY <2>1, <2>2
<1>4. ASSUME NEW k \in Lanes,
             \/ ReconcileAccepted(k) \/ ReconcileRetryable(k) \/ LeaseExpires(k)
             \/ \E p \in Procs : ManualRetry(p, k)
      PROVE  StableInv'
  BY <1>1, <1>4, HostFrame, FrameStable
<1>5. CASE Environment
  BY <1>1, <1>5, EnvironmentFrame, FrameStable
<1>6. CASE UNCHANGED vars
  <2>1. UNCHANGED <<status, claim, outbox, log, lock, proc>>
    BY <1>6 DEF vars, turn
  <2>2. Frame
    BY <2>1 DEF Frame, IInv, StableInv, MsgInv
  <2>3. QED BY <1>1, <2>2, FrameStable
<1>7. QED BY <1>2, <1>3, <1>4, <1>5, <1>6 DEF Next

THEOREM Invariance == Spec => []IInv
BY Initial, Inductive, PTL DEF Spec

\* In every reachable state every variable has its type: in particular no
\* attempt count passes the retry budget, whatever interleaves or dies
\* (persistPreparation and decideDurableNotificationRetry).
THEOREM Typing == Spec => []TypeOK
<1>1. IInv => TypeOK
  BY DEF IInv
<1>2. QED BY <1>1, Invariance, PTL

\* At most one completion the monitors detect is ever logged or put in its lane, and it is
\* the one of the durable claim, for any number of monitors that detect any
\* evidence in any order and die anywhere (claimTerminalCompletion).
THEOREM OneCompletionHolds == Spec => []OneCompletion
<1>1. IInv => OneCompletion
  <2>1. ASSUME IInv, outbox["lifecycle"].msg \in Completions
        PROVE  outbox["lifecycle"].msg = claim
    <3>1. outbox["lifecycle"].msg # NoMsg
      BY <2>1, ConstantsAssumption DEF Messages
    <3>2. outbox["lifecycle"].msg \in log
      BY <2>1, <3>1 DEF IInv, StableInv, LaneInv, Lanes
    <3>3. QED BY <2>1, <3>2 DEF IInv, StableInv, ClaimInv
  <2>2. QED BY <2>1 DEF OneCompletion, IInv, StableInv, ClaimInv
<1>2. QED BY <1>1, Invariance, PTL
=============================================================================

--------------------------- MODULE FileLockProofs ---------------------------
(***************************************************************************)
(* Theorems about FileLock for every set of processes, every crash and     *)
(* every disk fault: type correctness for both variants, and for the       *)
(* variant of src/store.ts that an owner keeps its file.                   *)
(***************************************************************************)
EXTENDS FileLock, TLAPS

(* ------------------ the inductive invariant ------------------ *)

\* Who is inside a reclaim created the guard.
GuardInv == \A p \in Proc : pc[p] \in Reclaiming => guard = p

\* A file names nobody but its creator, and is young while being written.
FileInv ==
  /\ lock.pid # NoProc => lock.pid = lock.by
  /\ \A p \in Proc : pc[p] = "writing" /\ lock.by = p
                       => ~lock.old /\ lock.pid = NoProc

\* What a reclaimer saw is still true of the file at the path; the file it is
\* about to unlink has no owner any more.
JudgementInv(p) ==
  /\ Inspecting(p) => Exists
  /\ pc[p] = "read" /\ sawOld[p] => lock.old
  /\ pc[p] = "signal" => sawPid[p] # NoProc /\ sawPid[p] = lock.pid
  /\ pc[p] = "unlink" => pc[lock.by] \notin Owning

LockInv ==
  /\ TypeOK
  /\ GuardInv
  /\ FileInv
  /\ OwnerKeepsItsFile
  /\ ~raced => \A p \in Proc : JudgementInv(p)

\* The two values a lock file is created and removed with.
LEMMA FileTyped ==
  \A p \in Proc \cup {NoProc} :
    [by |-> p, pid |-> NoProc, old |-> FALSE]
      \in [by : Proc \cup {NoProc}, pid : Proc \cup {NoProc}, old : BOOLEAN]
BY Zenon

LEMMA InitTyped == Init => TypeOK
BY FileTyped DEF Init, TypeOK, NoFile, Steps, Owning, Reclaiming

\* Type correctness of both variants of the lock (src/store.ts,
\* src/file-lock-cli-adapter.ts), whatever the constants.
THEOREM LockTyping == Spec => []TypeOK
<1>1. Init => TypeOK
  BY InitTyped
<1>2. TypeOK /\ [Next]_vars => TypeOK'
  <2> SUFFICES ASSUME TypeOK, [Next]_vars PROVE TypeOK'
    OBVIOUS
  <2> USE DEF TypeOK, Goto, Steps, Owning, Reclaiming, NoFile
  <2>1. ASSUME NEW p \in Proc, Request(p) \/ Retry(p) \/ TimeOut(p)
        PROVE  TypeOK'
    BY <2>1 DEF Request, Retry, TimeOut
  <2>2. ASSUME NEW p \in Proc, Open(p) PROVE TypeOK'
    <3>1. CASE Exists
      BY <2>2, <3>1 DEF Open
    <3>2. CASE ~Exists
      <4>1. lock' = [by |-> p, pid |-> NoProc, old |-> FALSE]
        BY <2>2, <3>2 DEF Open
      <4>2. lock' \in [by : Proc \cup {NoProc}, pid : Proc \cup {NoProc},
                       old : BOOLEAN]
        BY <4>1, FileTyped, Zenon
      <4> QED
        BY <2>2, <3>2, <4>2 DEF Open
    <3> QED
      BY <3>1, <3>2
  <2>3. ASSUME NEW p \in Proc, WriteOwner(p) \/ WriteFails(p) PROVE TypeOK'
    BY <2>3 DEF WriteOwner, WriteFails, Written
  <2>4. ASSUME NEW p \in Proc, OpenGuard(p) \/ GuardFails(p) PROVE TypeOK'
    BY <2>4 DEF OpenGuard, GuardFails
  <2>5. ASSUME NEW p \in Proc, Stat(p) PROVE TypeOK'
    BY <2>5 DEF Stat, AfterAbsent
  <2>6. ASSUME NEW p \in Proc, ReadOwner(p) \/ Signal(p) PROVE TypeOK'
    BY <2>6 DEF ReadOwner, Signal, JudgeByAge
  <2>7. ASSUME NEW p \in Proc, Unlink(p) \/ CloseGuard(p) PROVE TypeOK'
    BY <2>7, FileTyped DEF Unlink, CloseGuard
  <2>8. ASSUME NEW p \in Proc, Release(p) \/ Drop(p) PROVE TypeOK'
    BY <2>8, FileTyped DEF Release, Drop
  <2>9. ASSUME NEW p \in Proc, Crash(p) PROVE TypeOK'
    BY <2>9 DEF Crash
  <2>10. CASE Age
    BY <2>10 DEF Age
  <2>11. CASE UNCHANGED vars
    BY <2>11 DEF vars
  <2> QED
    BY <2>1, <2>2, <2>3, <2>4, <2>5, <2>6, <2>7, <2>8, <2>9, <2>10, <2>11
    DEF Next, Step
<1> QED
  BY <1>1, <1>2, PTL DEF Spec

\* The Store's lock: an owner keeps its file, and so the lock excludes, unless
\* a release fell into another process's inspection
\* (acquireConversationLock, removeStaleConversationLockAsReclaimer).
THEOREM LockIsKept ==
  ASSUME ~AbsentIsStale
  PROVE  Spec => [](OwnerKeepsItsFile /\ (~raced => MutualExclusion))
<1> USE ProcAssumption
<1>1. Init => LockInv
  BY InitTyped DEF Init, LockInv, GuardInv, FileInv, OwnerKeepsItsFile, NoFile,
                   JudgementInv, Inspecting, Owning, Reclaiming
<1>2. LockInv /\ TypeOK' /\ [Next]_vars => LockInv'
  <2> SUFFICES ASSUME LockInv, TypeOK', [Next]_vars
               PROVE  /\ GuardInv'
                      /\ FileInv'
                      /\ OwnerKeepsItsFile'
                      /\ ~raced' => \A q \in Proc : JudgementInv(q)'
    BY DEF LockInv
  <2> USE DEF LockInv, TypeOK, Goto, Owning, Reclaiming
  <2> DEFINE Goal == /\ GuardInv'
                     /\ FileInv'
                     /\ OwnerKeepsItsFile'
                     /\ ~raced' => \A q \in Proc : JudgementInv(q)'
  <2>1. ASSUME NEW p \in Proc, Request(p) \/ Retry(p) \/ TimeOut(p)
        PROVE  Goal
    BY <2>1 DEF Request, Retry, TimeOut, GuardInv, FileInv, OwnerKeepsItsFile,
                JudgementInv, Inspecting, Exists
  <2>2. ASSUME NEW p \in Proc, Open(p) PROVE Goal
    BY <2>2 DEF Open, GuardInv, FileInv, OwnerKeepsItsFile, JudgementInv,
                Inspecting, Exists
  <2>3. ASSUME NEW p \in Proc, WriteOwner(p) \/ WriteFails(p) PROVE Goal
    BY <2>3 DEF WriteOwner, WriteFails, Written, GuardInv, FileInv,
                OwnerKeepsItsFile, JudgementInv, Inspecting, Exists
  <2>4. ASSUME NEW p \in Proc, OpenGuard(p) \/ GuardFails(p) PROVE Goal
    BY <2>4 DEF OpenGuard, GuardFails, GuardInv, FileInv, OwnerKeepsItsFile,
                JudgementInv, Inspecting, Exists
  <2>5. ASSUME NEW p \in Proc, Stat(p) PROVE Goal
    BY <2>5 DEF Stat, AfterAbsent, GuardInv, FileInv, OwnerKeepsItsFile,
                JudgementInv, Inspecting, Exists
  <2>6. ASSUME NEW p \in Proc, ReadOwner(p) PROVE Goal
    BY <2>6 DEF ReadOwner, JudgeByAge, GuardInv, FileInv, OwnerKeepsItsFile,
                JudgementInv, Inspecting, Exists
  <2>7. ASSUME NEW p \in Proc, Signal(p) PROVE Goal
    BY <2>7 DEF Signal, ProcessExists, GuardInv, FileInv, OwnerKeepsItsFile,
                JudgementInv, Inspecting, Exists
  <2>8. ASSUME NEW p \in Proc, Unlink(p) PROVE Goal
    BY <2>8 DEF Unlink, NoFile, GuardInv, FileInv, OwnerKeepsItsFile,
                JudgementInv, Inspecting, Exists
  <2>9. ASSUME NEW p \in Proc, CloseGuard(p) PROVE Goal
    BY <2>9 DEF CloseGuard, GuardInv, FileInv, OwnerKeepsItsFile,
                JudgementInv, Inspecting, Exists
  <2>10. ASSUME NEW p \in Proc, Release(p) PROVE Goal
    BY <2>10 DEF Release, GuardInv, FileInv, OwnerKeepsItsFile, JudgementInv,
                 Inspecting, Exists
  <2>11. ASSUME NEW p \in Proc, Drop(p) PROVE Goal
    BY ZenonT(60), <2>11 DEF Drop, NoFile, GuardInv, FileInv, OwnerKeepsItsFile,
                 JudgementInv, Inspecting, Exists
  <2>12. ASSUME NEW p \in Proc, Crash(p) PROVE Goal
    BY <2>12 DEF Crash, GuardInv, FileInv, OwnerKeepsItsFile, JudgementInv,
                 Inspecting, Exists
  <2>13. CASE Age
    BY <2>13 DEF Age, GuardInv, FileInv, OwnerKeepsItsFile, JudgementInv,
                 Inspecting, Exists
  <2>14. CASE UNCHANGED vars
    BY <2>14 DEF vars, GuardInv, FileInv, OwnerKeepsItsFile, JudgementInv,
                 Inspecting, Exists
  <2> QED
    BY <2>1, <2>2, <2>3, <2>4, <2>5, <2>6, <2>7, <2>8, <2>9, <2>10, <2>11,
       <2>12, <2>13, <2>14 DEF Next, Step
<1>3. LockInv => OwnerKeepsItsFile /\ (~raced => MutualExclusion)
  BY DEF LockInv, OwnerKeepsItsFile, MutualExclusion, Owning
<1> QED
  BY <1>1, <1>2, <1>3, LockTyping, PTL DEF Spec

=============================================================================

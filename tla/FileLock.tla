------------------------------ MODULE FileLock ------------------------------
(***************************************************************************)
(* One advisory lock file, as every AKK process takes it: created with     *)
(* O_EXCL, owned by the pid and token written into it, reclaimed from a    *)
(* dead owner under a second exclusive file, the reclaim guard.            *)
(*                                                                         *)
(* The protocol exists twice.  src/file-lock-cli-adapter.ts guards         *)
(* terminals, routing and task records; src/store.ts guards the Store and  *)
(* every Turn's state.  They differ in one verdict: the adapter takes a    *)
(* file that vanished before its inspection for a stale one and unlinks    *)
(* the path all the same, the Store goes back to creating the file.        *)
(*                                                                         *)
(* One action is one system call together with what the program decides    *)
(* from its result.  A process is one synchronous acquisition at a time;   *)
(* its pid is its identity and is not reused.                              *)
(***************************************************************************)
EXTENDS Naturals, FiniteSets

CONSTANTS
  Proc,           \* processes, each with its own pid
  NoProc,         \* no process: no file, or a file that names no owner
  AbsentIsStale,  \* TRUE: the adapter, FALSE: the Store
  CrashAt,        \* the steps at which a process may die
  MaxCrashes,     \* how many processes may die
  DiskFaults      \* whether a write or fsync may fail

Reclaiming == {"stat", "read", "signal", "unlink", "removed", "kept"}

Owning == {"writing", "held", "drop"}

Steps == {"idle", "open", "guard", "waiting"} \cup Owning \cup Reclaiming

ASSUME ProcAssumption == NoProc \notin Proc
ASSUME VariantAssumption == AbsentIsStale \in BOOLEAN /\ DiskFaults \in BOOLEAN
ASSUME CrashAssumption == CrashAt \subseteq Steps /\ MaxCrashes \in Nat

VARIABLES
  lock,     \* the lock file: its creator, the owner it names, older than 30 s?
  guard,    \* the creator of the reclaim guard, NoProc if there is none
  pc,       \* the next step of each process
  sawOld,   \* the age a reclaimer read in lstat
  sawPid,   \* the owner a reclaimer read in the file
  raced     \* observer: a lock was released while a reclaimer inspected it

vars == <<lock, guard, pc, sawOld, sawPid, raced>>

NoFile == [by |-> NoProc, pid |-> NoProc, old |-> FALSE]

Exists == lock.by # NoProc

Init ==
  /\ lock = NoFile
  /\ guard = NoProc
  /\ pc = [p \in Proc |-> "idle"]
  /\ sawOld = [p \in Proc |-> FALSE]
  /\ sawPid = [p \in Proc |-> NoProc]
  /\ raced = FALSE

Goto(p, step) == pc' = [pc EXCEPT ![p] = step]

-----------------------------------------------------------------------------
(* Acquiring *)

Request(p) ==
  /\ pc[p] = "idle"
  /\ Goto(p, "open")
  /\ UNCHANGED <<lock, guard, sawOld, sawPid, raced>>

\* O_CREAT | O_EXCL: the file appears empty; if it is there, try to reclaim it.
Open(p) ==
  /\ pc[p] = "open"
  /\ IF Exists
     THEN Goto(p, "guard") /\ UNCHANGED lock
     ELSE /\ lock' = [by |-> p, pid |-> NoProc, old |-> FALSE]
          /\ Goto(p, "writing")
  /\ UNCHANGED <<guard, sawOld, sawPid, raced>>

\* The file descriptor of p: what it writes shows at the path only while the
\* file at the path is still the one it created.
Written(p) == IF lock.by = p THEN [lock EXCEPT !.pid = p] ELSE lock

WriteOwner(p) ==
  /\ pc[p] = "writing"
  /\ lock' = Written(p)
  /\ Goto(p, "held")
  /\ UNCHANGED <<guard, sawOld, sawPid, raced>>

\* A failed write leaves an empty file, a failed fsync a complete one; the
\* acquisition throws and removes neither.
WriteFails(p) ==
  /\ DiskFaults
  /\ pc[p] = "writing"
  /\ lock' \in {lock, Written(p)}
  /\ Goto(p, "idle")
  /\ UNCHANGED <<guard, sawOld, sawPid, raced>>

Retry(p) ==
  /\ pc[p] = "waiting"
  /\ Goto(p, "open")
  /\ UNCHANGED <<lock, guard, sawOld, sawPid, raced>>

TimeOut(p) ==
  /\ pc[p] = "waiting"
  /\ Goto(p, "idle")
  /\ UNCHANGED <<lock, guard, sawOld, sawPid, raced>>

-----------------------------------------------------------------------------
(* Reclaiming *)

\* Mutant: the guard is opened without O_EXCL.
GuardShared(p) ==
  /\ pc[p] = "guard"
  /\ guard' = p /\ Goto(p, "stat")
  /\ UNCHANGED <<lock, sawOld, sawPid, raced>>

OpenGuard(p) ==
  /\ pc[p] = "guard"
  /\ IF guard = NoProc
     THEN guard' = p /\ Goto(p, "stat")
     ELSE Goto(p, "waiting") /\ UNCHANGED guard
  /\ UNCHANGED <<lock, sawOld, sawPid, raced>>

\* The guard's own write fails: the acquisition throws, the guard stays.
GuardFails(p) ==
  /\ DiskFaults
  /\ pc[p] = "guard"
  /\ guard = NoProc
  /\ guard' = p
  /\ Goto(p, "idle")
  /\ UNCHANGED <<lock, sawOld, sawPid, raced>>

\* Mutant: the missing file is a result of its own that no caller handles.
AbsentUnhandled == IF AbsentIsStale THEN "unlink" ELSE "absent"

\* Mutant: a file that is already gone is unlinked all the same.
AbsentUnlinked == "unlink"

\* What a reclaimer does next when lstat finds no file.
AfterAbsent == IF AbsentIsStale THEN "unlink" ELSE "removed"

Stat(p) ==
  /\ pc[p] = "stat"
  /\ sawOld' = [sawOld EXCEPT ![p] = lock.old]
  /\ Goto(p, IF Exists THEN "read" ELSE AfterAbsent)
  /\ UNCHANGED <<lock, guard, sawPid, raced>>

\* Mutant: a file that names no owner is never stale.
NeverByAge(p) == IF sawOld[p] THEN "kept" ELSE "kept"

\* Mutant: a file that names no owner is always stale.
AtAnyAge(p) == IF sawOld[p] THEN "unlink" ELSE "unlink"

\* No owner in the file, or no file any more: its age in lstat decides.
JudgeByAge(p) == IF sawOld[p] THEN "unlink" ELSE "kept"

ReadOwner(p) ==
  /\ pc[p] = "read"
  /\ sawPid' = [sawPid EXCEPT ![p] = lock.pid]
  /\ Goto(p, IF lock.pid = NoProc THEN JudgeByAge(p) ELSE "signal")
  /\ UNCHANGED <<lock, guard, sawOld, raced>>

ProcessExists(p) == pc[p] # "dead"

\* kill(pid, 0) on the owner that was read.
Signal(p) ==
  /\ pc[p] = "signal"
  /\ Goto(p, IF ProcessExists(sawPid[p]) THEN "kept" ELSE "unlink")
  /\ UNCHANGED <<lock, guard, sawOld, sawPid, raced>>

\* By path: whatever file is there now, or none, goes.
Unlink(p) ==
  /\ pc[p] = "unlink"
  /\ lock' = NoFile
  /\ Goto(p, "removed")
  /\ UNCHANGED <<guard, sawOld, sawPid, raced>>

\* After a removal the file is created at once, otherwise after the retry delay.
CloseGuard(p) ==
  /\ pc[p] \in {"removed", "kept"}
  /\ guard' = NoProc
  /\ Goto(p, IF pc[p] = "removed" THEN "open" ELSE "waiting")
  /\ sawOld' = [sawOld EXCEPT ![p] = FALSE]
  /\ sawPid' = [sawPid EXCEPT ![p] = NoProc]
  /\ UNCHANGED <<lock, raced>>

-----------------------------------------------------------------------------
(* Releasing *)

\* The token is read first: a file of somebody else is left alone.
Release(p) ==
  /\ pc[p] = "held"
  /\ Goto(p, IF lock.pid = p THEN "drop" ELSE "idle")
  /\ UNCHANGED <<lock, guard, sawOld, sawPid, raced>>

Inspecting(p) == pc[p] \in {"read", "signal", "unlink"}

Drop(p) ==
  /\ pc[p] = "drop"
  /\ lock' = NoFile
  /\ Goto(p, "idle")
  /\ raced' = (raced \/ \E q \in Proc : Inspecting(q))
  /\ UNCHANGED <<guard, sawOld, sawPid>>

-----------------------------------------------------------------------------
(* Environment *)

\* Thirty seconds pass.  Timing assumption: no process stays that long between
\* creating the file and naming itself in it, nor between two calls of one
\* inspection.
Age ==
  /\ Exists
  /\ pc[lock.by] # "writing"
  /\ lock' = [lock EXCEPT !.old = TRUE]
  /\ UNCHANGED <<guard, pc, sawOld, sawPid, raced>>

Dead == {p \in Proc : pc[p] = "dead"}

\* A process dies, or ends: its files stay.
Crash(p) ==
  /\ pc[p] \in CrashAt
  /\ Cardinality(Dead) < MaxCrashes
  /\ Goto(p, "dead")
  /\ UNCHANGED <<lock, guard, sawOld, sawPid, raced>>

-----------------------------------------------------------------------------
\* What a process does of itself.
Step(p) ==
  \/ Request(p) \/ Open(p) \/ WriteOwner(p) \/ Retry(p) \/ TimeOut(p)
  \/ OpenGuard(p) \/ Stat(p) \/ ReadOwner(p) \/ Signal(p) \/ Unlink(p)
  \/ CloseGuard(p) \/ Release(p) \/ Drop(p)

Next ==
  \/ \E p \in Proc : Step(p)
  \/ \E p \in Proc : WriteFails(p) \/ GuardFails(p) \/ Crash(p)
  \/ Age

Spec == Init /\ [][Next]_vars

\* Every process that lives keeps running, and time passes.
FairSpec == Spec /\ (\A p \in Proc : WF_vars(Step(p))) /\ WF_vars(Age)

-----------------------------------------------------------------------------
(* Properties *)

TypeOK ==
  /\ lock \in [by : Proc \cup {NoProc}, pid : Proc \cup {NoProc}, old : BOOLEAN]
  /\ guard \in Proc \cup {NoProc}
  /\ pc \in [Proc -> Steps \cup {"dead"}]
  /\ sawOld \in [Proc -> BOOLEAN]
  /\ sawPid \in [Proc -> Proc \cup {NoProc}]
  /\ raced \in BOOLEAN

\* Two processes never run under the lock at once: the one promise of
\* withConversationLock and of the adapter's acquire.
MutualExclusion ==
  \A p, q \in Proc : pc[p] = "held" /\ pc[q] = "held" => p = q

\* A process that is creating, holding or dropping the lock has its own file at
\* the path, whatever crashes, failed writes and concurrent reclaims there were,
\* unless an owner released the lock while a reclaimer was between its lstat and
\* its unlink (removeStaleConversationLock).  MutualExclusion follows.
OwnerKeepsItsFile ==
  ~raced => \A p \in Proc :
              /\ pc[p] \in Owning => lock.by = p
              /\ pc[p] \in {"held", "drop"} => lock.pid = p

\* A reclaimer left its guard behind, dying or failing to write it: nothing
\* ever removes it, and the lock file can no longer be reclaimed.
GuardLost == guard # NoProc /\ pc[guard] \notin Reclaiming

\* The lock file names a process that lives and does not hold the lock: fsync
\* failed after the write.
Abandoned == \E p \in Proc : lock.pid = p /\ pc[p] \notin Owning \cup {"dead"}

\* Whatever was left behind, some process gets the lock again and again, unless
\* the guard is lost, a living process abandoned the file, or the disk fails
\* every time (acquireConversationLock: reclaim, retry delay, timeout).
LockIsTakenAgain ==
  \/ []<>((\E p \in Proc : pc[p] = "held") \/ GuardLost \/ Abandoned)
  \/ []<><<\E p \in Proc : WriteFails(p)>>_vars

=============================================================================

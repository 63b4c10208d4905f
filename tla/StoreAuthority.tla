--------------------------- MODULE StoreAuthority ---------------------------
(***************************************************************************)
(* Which Store may send to one native thread of a coding agent.            *)
(*                                                                         *)
(* Several Hosts with a Store each can see the same terminal.  The ledger  *)
(* of the terminal names the Store that has authority over the thread, and *)
(* that Store holds the claimable Session.  A transfer moves the claim to  *)
(* another Store: a journal in the ledger, one save in the source Store    *)
(* and one in the target Store, under three leases taken one after the     *)
(* other.  The transferring command holds the lock of the terminal         *)
(* throughout; Watches and work on other terminals need the lease of their *)
(* Store only.  A command may die, and a save may fail, at every step.     *)
(***************************************************************************)
EXTENDS Naturals, FiniteSets

CONSTANTS
  Stores,
  Hosts,        \* Host processes; each registers in the Stores it writes
  Ephemeral,    \* Hosts whose Store is declared ephemeral
  First,        \* the Store that binds the thread first
  NoStore,
  NoHost,
  MaxTouches,   \* changes of a Session that are no transfer
  MaxFaults     \* saves that may fail, and commands that may be interrupted

ASSUME StoreAssumption == First \in Stores /\ NoStore \notin Stores
ASSUME HostAssumption == Ephemeral \subseteq Hosts /\ NoHost \notin Hosts
ASSUME BoundAssumption == MaxTouches \in Nat /\ MaxFaults \in Nat

VARIABLES
  ledger,    \* authority over the thread, and the journal of a transfer
  session,   \* the Session of the thread in each Store
  owners,    \* Hosts registered in each Store; registrations are never removed
  work,      \* Stores with an unfinished Turn or Watch of the thread
  alive,     \* Hosts that run
  op,        \* the transfer under way, under the lock of the terminal
  faults

vars == <<ledger, session, owners, work, alive, op, faults>>

Phases == {"none", "prepared", "source_retired", "target_created", "committed"}

NoJournal ==
  [phase |-> "none", id |-> 0, source |-> NoStore, target |-> NoStore,
   owners |-> {}, rev |-> 0, automatic |-> FALSE, legacy |-> FALSE]

NoSession == [status |-> "none", rev |-> 0, received |-> 0, retired |-> 0]

NoOp == [pc |-> "none", by |-> NoHost, journal |-> NoJournal]

\* The first Host has bound the thread, or a version without registrations has.
Init ==
  /\ \E h \in Hosts, stamped \in BOOLEAN :
       /\ ledger = [status |-> "resolved", store |-> First, generation |-> 1,
                    stamped |-> stamped, journal |-> NoJournal]
       /\ owners = [s \in Stores |-> IF s = First /\ stamped THEN {h} ELSE {}]
  /\ session = [s \in Stores |->
                  IF s = First THEN [NoSession EXCEPT !.status = "bound"]
                               ELSE NoSession]
  /\ work = {}
  /\ alive = Hosts
  /\ op = NoOp
  /\ faults = MaxFaults

At(pc) == op.pc = pc

\* The command is over; after an error nothing is rolled back.
Throws == op' = NoOp

Goto(pc) == op' = [op EXCEPT !.pc = pc]

Incomplete(j) == j.phase \notin {"none", "committed"}

\* The writer leases the transfer holds across several steps.
Leased(s) ==
  \/ At("retire") /\ s = op.journal.source
  \/ At("retired") /\ s = op.journal.source
  \/ At("created") /\ s = op.journal.target
  \/ At("commit") /\ s = op.journal.target

Register(h, s) == owners' = [owners EXCEPT ![s] = @ \cup {h}]

-----------------------------------------------------------------------------
(* Work in a Store *)

\* Mutant: a write is judged by the preflight of its command alone.
AnyWriteAllowed(s) == s \in Stores

\* What the repository lets a command of Store s write over the ledger.
WriteAllowed(s) == ~Incomplete(ledger.journal) /\ ledger.store = s

\* The ledger as a writer of Store s leaves it.
Stamped(s, status) ==
  [ledger EXCEPT !.status = status, !.store = s, !.stamped = TRUE,
                 !.generation = IF ledger.stamped /\ ledger.store = s
                                THEN @ ELSE @ + 1]

\* A Send to the thread, under the lock of the terminal.
Send(h, s) ==
  /\ At("none")
  /\ h \in alive
  /\ ledger.status = "resolved"
  /\ session[s].status = "bound"
  /\ WriteAllowed(s)
  /\ Register(h, s)
  /\ ledger' = Stamped(s, "working")
  /\ work' = work \cup {s}
  /\ UNCHANGED <<session, alive, op, faults>>

\* The Turn ends, or is closed, under the lease of its Store alone; perhaps again.
Settle(h, s) ==
  /\ ~Leased(s)
  /\ h \in alive
  /\ WriteAllowed(s)
  /\ Register(h, s)
  /\ ledger' = Stamped(s, "resolved")
  /\ work' = work \ {s}
  /\ UNCHANGED <<session, alive, op, faults>>

\* A Watch of the terminal, or any work on another terminal of the Store.
StartWatch(h, s) ==
  /\ ~Leased(s)
  /\ h \in alive
  /\ Register(h, s)
  /\ work' \in {work, work \cup {s}}
  /\ UNCHANGED <<ledger, session, alive, op, faults>>

EndWatch(s) ==
  /\ ~Leased(s)
  /\ s \in work
  /\ s = ledger.store => ledger.status = "resolved"
  /\ work' = work \ {s}
  /\ UNCHANGED <<ledger, session, owners, alive, op, faults>>

\* A command of the Store updates its Session, by compare-and-swap; a retired
\* Session refuses every save.  The ledger is not read: a transfer may be unfinished.
TouchSession(s) ==
  /\ ~Leased(s)
  /\ session[s].status = "bound"
  /\ session[s].retired = 0
  /\ session[s].rev < MaxTouches
  /\ session' = [session EXCEPT ![s].rev = @ + 1]
  /\ UNCHANGED <<ledger, owners, work, alive, op, faults>>

-----------------------------------------------------------------------------
(* The transfer *)

Dead(s) == owners[s] # {} /\ owners[s] \cap alive = {}

Legacy(s) == owners[s] = {} /\ ~ledger.stamped

WorkSettled(s) == session[s].status = "bound" /\ session[s].retired = 0 /\ s \notin work

\* A person must confirm that the Hosts of a legacy Store are stopped; only dead
\* Hosts of ephemeral Stores give up their claim without being asked.
Eligible(s, automatic) ==
  /\ ledger.status = "resolved"
  /\ WorkSettled(s)
  /\ IF automatic THEN Dead(s) /\ ledger.stamped /\ owners[s] \subseteq Ephemeral
                  ELSE Dead(s) \/ Legacy(s)

Prepared(s, t, automatic) ==
  [phase |-> "prepared", id |-> ledger.generation + 1, source |-> s, target |-> t,
   owners |-> owners[s], rev |-> session[s].rev, automatic |-> automatic,
   legacy |-> Legacy(s)]

\* A command of a Host of Store t asks for authority: it resumes the journal it
\* finds if that is its own, or prepares one.
Request(h, t, automatic) ==
  /\ At("none")
  /\ h \in alive
  /\ t # ledger.store
  /\ IF Incomplete(ledger.journal)
     THEN /\ ledger.journal.target = t
          /\ automatic => ledger.journal.automatic
          /\ op' = [pc |-> "target", by |-> h, journal |-> ledger.journal]
     ELSE /\ Eligible(ledger.store, automatic)
          /\ op' = [pc |-> "target", by |-> h,
                    journal |-> Prepared(ledger.store, t, automatic)]
  /\ UNCHANGED <<ledger, session, owners, work, alive, faults>>

\* No other Session of the thread, live or retired, is in the target Store.
TargetAvailable(j) ==
  session[j.target].status # "none" => session[j.target].received = j.id

\* Mutant: what was inspected before the leases is trusted.
SourceTrusted(j) == j.source \in Stores

SourceVerified(j) ==
  /\ owners[j.source] = j.owners
  /\ Dead(j.source) \/ (j.legacy /\ owners[j.source] = {})

\* First lease of the target: its Host registers before anything is fenced.
ReadyTarget ==
  /\ At("target")
  /\ IF TargetAvailable(op.journal)
     THEN Register(op.by, op.journal.target) /\ Goto("source")
     ELSE Throws /\ UNCHANGED owners
  /\ UNCHANGED <<ledger, session, work, alive, faults>>

Journaled(phase) ==
  [ledger EXCEPT !.journal = [op.journal EXCEPT !.phase = phase]]

Fault == faults > 0 /\ faults' = faults - 1

\* A save of the ledger, which may fail before or after it took effect.
Persist(l, pc) ==
  \/ ledger' = l /\ pc # "none" /\ Goto(pc) /\ UNCHANGED faults
  \/ ledger' = l /\ pc = "none" /\ Throws /\ UNCHANGED faults
  \/ ledger' \in {ledger, l} /\ Throws /\ Fault

\* Mutant: the Session is not compared with the copy in the journal.
SourceSettled(j) == WorkSettled(j.source)

SourceUnchanged(j) == WorkSettled(j.source) /\ session[j.source].rev = j.rev

\* Mutant: the Session is retired first, the journal follows.
FenceSourceUnjournaled ==
  /\ At("source")
  /\ SourceVerified(op.journal)
  /\ SourceUnchanged(op.journal)
  /\ Goto("retire")
  /\ UNCHANGED <<ledger, faults, session, owners, work, alive>>

\* The lease of the source: the Session may have been retired before a crash.
FenceSource ==
  /\ At("source")
  /\ LET j == op.journal
     IN \/ /\ SourceVerified(j)
           /\ session[j.source].retired = j.id
           /\ Goto("source_released")
           /\ UNCHANGED <<ledger, faults>>
        \/ /\ SourceVerified(j)
           /\ session[j.source].retired # j.id
           /\ SourceUnchanged(j)
           /\ Persist(Journaled("prepared"), "retire")
        \/ /\ \/ ~SourceVerified(j)
              \/ session[j.source].retired # j.id /\ ~SourceUnchanged(j)
           /\ Throws
           /\ UNCHANGED <<ledger, faults>>
  /\ UNCHANGED <<session, owners, work, alive>>

\* Mutant: the claim is left in the source until the target has it.
RetireLater ==
  /\ At("retire")
  /\ Goto("retired")
  /\ UNCHANGED <<session, ledger, owners, work, alive, faults>>

RetireSource ==
  /\ At("retire")
  /\ session' = [session EXCEPT ![op.journal.source].status = "quarantined",
                                ![op.journal.source].retired = op.journal.id]
  /\ \/ Goto("retired") /\ UNCHANGED faults
     \/ Throws /\ Fault
  /\ UNCHANGED <<ledger, owners, work, alive>>

RecordRetired ==
  /\ At("retired")
  /\ Persist(Journaled("source_retired"), "source_released")
  /\ UNCHANGED <<session, owners, work, alive>>

\* Mutant: a Session an earlier attempt has created is taken for a competing one.
CreateTargetOnce ==
  /\ At("source_released")
  /\ LET j == op.journal
         copy == [NoSession EXCEPT !.status = "bound", !.received = j.id]
     IN IF SourceVerified(j) /\ session[j.target] = NoSession
        THEN session' = [session EXCEPT ![j.target] = copy] /\ Goto("created")
        ELSE Throws /\ UNCHANGED session
  /\ UNCHANGED <<ledger, owners, work, alive, faults>>

\* Second lease of the target: the Session of the journal is there, or is
\* created.
CreateTarget ==
  /\ At("source_released")
  /\ LET j == op.journal
         copy == [NoSession EXCEPT !.status = "bound", !.received = j.id]
     IN IF /\ SourceVerified(j)
           /\ TargetAvailable(j)
           /\ session[j.target] \in {NoSession, copy}
        THEN /\ session' = [session EXCEPT ![j.target] = copy]
             /\ \/ Goto("created") /\ UNCHANGED faults
                \/ Throws /\ Fault
        ELSE Throws /\ UNCHANGED <<session, faults>>
  /\ UNCHANGED <<ledger, owners, work, alive>>

RecordCreated ==
  /\ At("created")
  /\ Persist(Journaled("target_created"), "commit")
  /\ UNCHANGED <<session, owners, work, alive>>

\* Mutant: the committed document does not name its Store.
CommitUnnamed ==
  /\ At("commit")
  /\ Register(op.by, op.journal.target)
  /\ Persist([Journaled("committed") EXCEPT !.status = "resolved",
                !.store = NoStore, !.generation = op.journal.id], "none")
  /\ UNCHANGED <<session, work, alive>>

Commit ==
  /\ At("commit")
  /\ Register(op.by, op.journal.target)
  /\ Persist([Journaled("committed") EXCEPT
                !.status = "resolved", !.store = op.journal.target,
                !.generation = op.journal.id, !.stamped = TRUE], "none")
  /\ UNCHANGED <<session, work, alive>>

\* The transferring command dies; the lock and the leases are reclaimed.
Interrupt ==
  /\ ~At("none")
  /\ Fault
  /\ Throws
  /\ UNCHANGED <<ledger, session, owners, work, alive>>

\* A Host dies; one of the Hosts stays for ever.
Die(h) ==
  /\ h \in alive
  /\ Cardinality(alive) > 1
  /\ alive' = alive \ {h}
  /\ op' = IF op.by = h THEN NoOp ELSE op
  /\ UNCHANGED <<ledger, session, owners, work, faults>>

-----------------------------------------------------------------------------

Transfer ==
  \/ ReadyTarget \/ FenceSource \/ RetireSource \/ RecordRetired
  \/ CreateTarget \/ RecordCreated \/ Commit

Next ==
  \/ \E h \in Hosts, s \in Stores :
       \/ Send(h, s) \/ Settle(h, s) \/ StartWatch(h, s)
       \/ \E automatic \in BOOLEAN : Request(h, s, automatic)
  \/ \E s \in Stores : EndWatch(s) \/ TouchSession(s)
  \/ Transfer \/ Interrupt
  \/ \E h \in Hosts : Die(h)

Spec == Init /\ [][Next]_vars

\* A transfer goes on, and the person who asked for it repeats the command
\* until it is through.
FairSpec ==
  /\ Spec
  /\ WF_vars(Transfer)
  /\ \A s \in Stores :
       WF_vars(Incomplete(ledger.journal) /\ \E h \in Hosts : Request(h, s, FALSE))
-----------------------------------------------------------------------------
(* Properties *)

JournalType ==
  [phase : Phases, id : Nat, source : Stores \cup {NoStore},
   target : Stores \cup {NoStore}, owners : SUBSET Hosts, rev : 0..MaxTouches,
   automatic : BOOLEAN, legacy : BOOLEAN]

\* The variables have their types; the ledger always names a Store.
TypeOK ==
  /\ ledger \in [status : {"resolved", "working"}, store : Stores,
                 generation : Nat, stamped : BOOLEAN, journal : JournalType]
  /\ session \in [Stores -> [status : {"none", "bound", "quarantined"},
                             rev : 0..MaxTouches, received : Nat, retired : Nat]]
  /\ owners \in [Stores -> SUBSET Hosts]
  /\ work \subseteq Stores
  /\ alive \subseteq Hosts
  /\ op \in [pc : {"none", "target", "source", "retire", "retired",
                   "source_released", "created", "commit"},
             by : Hosts \cup {NoHost}, journal : JournalType]
  /\ faults \in 0..MaxFaults

\* Wherever a transfer is interrupted, two Stores never hold a claimable Session
\* of the thread.
OneClaim ==
  \A s, t \in Stores :
    session[s].status = "bound" /\ session[t].status = "bound" => s = t

\* Without an unfinished journal the Store the ledger names holds the claim: no
\* crash leaves a thread that no Store can send to and no journal explains.
AuthorityHoldsClaim ==
  ~Incomplete(ledger.journal) => session[ledger.store].status = "bound"

\* A Store loses its claim only after all of its Hosts are dead, with no Turn or
\* Watch left, although Hosts and Watches may start after the first inspection.
NoLiveOwnerIsRetired ==
  [][\A s \in Stores : session[s].retired = 0 /\ session'[s].retired # 0 =>
       owners[s] \cap alive = {} /\ s \notin work]_vars

\* What is handed over is the last version of the Session, and the journal that
\* holds the copy is durable before the Session is retired.
CopyIsLast ==
  [][\A s \in Stores : session[s].retired = 0 /\ session'[s].retired # 0 =>
       /\ ledger.journal.id = session'[s].retired
       /\ ledger.journal.rev = session[s].rev]_vars

\* No write of another command erases an unfinished journal or takes back
\* authority that was handed over.
AuthorityMovesOnce ==
  [][/\ Incomplete(ledger.journal) => ledger'.journal.id = ledger.journal.id
     /\ ledger'.store # ledger.store =>
          /\ Incomplete(ledger.journal) /\ ~Incomplete(ledger'.journal)
          /\ session[ledger.store].retired = ledger.journal.id
          /\ ledger'.generation > ledger.generation]_vars

\* What the code refuses to go on after, each for good: a Host has registered in
\* the source, the source Session changed before it was retired, the target Session
\* changed before the commit.
Refused(j) ==
  \/ owners[j.source] # j.owners
  \/ session[j.source].retired # j.id /\ session[j.source].rev # j.rev
  \/ session[j.target].received = j.id /\ session[j.target].rev # 0

\* Once journaled, a transfer is completed from every point it can be interrupted
\* at, unless one of these three changes was made meanwhile; nothing else, and no
\* number of interruptions and failing saves, leaves the thread fenced.
TransferIsResumed ==
  Incomplete(ledger.journal) ~> (~Incomplete(ledger.journal) \/ Refused(ledger.journal))
=============================================================================

------------------------ MODULE StoreAuthorityProofs ------------------------
(***************************************************************************)
(* Proofs about StoreAuthority for every set of Stores and Hosts, and any  *)
(* number of failed saves and interrupted commands: type correctness, one  *)
(* claim per thread, and what a step of a transfer may never do.           *)
(***************************************************************************)
EXTENDS StoreAuthority, TLAPS

(* ---------------------- the inductive invariant ---------------------- *)

Bound(s) == session[s].status = "bound"

\* The claim is where the ledger says, or the journal tells where it may be.
ClaimInv ==
  /\ \A s \in Stores : Bound(s) => session[s].retired = 0
  /\ ~Incomplete(ledger.journal) => \A s \in Stores : Bound(s) <=> s = ledger.store
  /\ Incomplete(ledger.journal) =>
       \/ \A s \in Stores : Bound(s) <=> s = ledger.journal.source
       \/ \A s \in Stores : Bound(s) => s = ledger.journal.target

\* An unfinished journal leads from the Store of the ledger to another one.
JournalInv ==
  Incomplete(ledger.journal) =>
    /\ ledger.journal.source = ledger.store
    /\ ledger.journal.target \in Stores \ {ledger.store}
    /\ ledger.journal.id > ledger.generation

\* The command works from the Store of the ledger, on the journal that is there.
OpInv ==
  op.pc # "none" =>
    /\ op.by \in Hosts
    /\ op.journal.source = ledger.store
    /\ op.journal.target \in Stores \ {ledger.store}
    /\ op.journal.id > 0
    /\ Incomplete(ledger.journal) =>
         /\ op.journal.id = ledger.journal.id
         /\ op.journal.target = ledger.journal.target

\* Before the journal is written: a Host that registers spoils the transfer, and
\* no other writer can move the generation unnoticed.
InspectedInv ==
  op.pc # "none" /\ ~Incomplete(ledger.journal) =>
    /\ op.pc \in {"target", "source"}
    /\ op.journal.owners \subseteq owners[ledger.store]
    /\ op.journal.owners \cap alive = {}
    /\ owners[ledger.store] = op.journal.owners => op.journal.id > ledger.generation

\* What the lease of the source protects from the journal to the retirement.
RetireInv ==
  op.pc = "retire" =>
    /\ Bound(ledger.store)
    /\ ledger.store \notin work
    /\ owners[ledger.store] \cap alive = {}
    /\ ledger.journal.rev = session[ledger.store].rev

\* What is durable at the later steps.
RetiredInv ==
  /\ op.pc \in {"retired", "source_released", "created", "commit"} =>
       session[ledger.store].retired = op.journal.id
  /\ op.pc \in {"created", "commit"} => Bound(op.journal.target)

StableInv ==
  ClaimInv /\ JournalInv /\ OpInv /\ InspectedInv /\ RetireInv /\ RetiredInv

IInv == TypeOK /\ StableInv

(* -------------------------- type correctness ------------------------- *)

LEMMA NoJournalTyped == NoJournal \in JournalType
<1>1. 0 \in 0..MaxTouches
  BY BoundAssumption
<1>2. 0 \in Nat
  OBVIOUS
<1>3. QED BY <1>1, <1>2, Zenon DEF NoJournal, JournalType, Phases

LedgerType ==
  [status : {"resolved", "working"}, store : Stores, generation : Nat,
   stamped : BOOLEAN, journal : JournalType]

OpType ==
  [pc : {"none", "target", "source", "retire", "retired", "source_released",
         "created", "commit"},
   by : Hosts \cup {NoHost}, journal : JournalType]

LEMMA Initial == Init => TypeOK
<1> SUFFICES ASSUME Init PROVE TypeOK
  OBVIOUS
<1>1. ledger \in LedgerType
  <2>1. PICK h \in Hosts, stamped \in BOOLEAN :
          ledger = [status |-> "resolved", store |-> First, generation |-> 1,
                    stamped |-> stamped, journal |-> NoJournal]
    BY DEF Init
  <2>2. 1 \in Nat
    OBVIOUS
  <2>3. QED BY <2>1, <2>2, NoJournalTyped, StoreAssumption, Zenon DEF LedgerType
<1>2. op \in OpType
  BY NoJournalTyped, Zenon DEF Init, NoOp, OpType
<1>3. session \in [Stores -> [status : {"none", "bound", "quarantined"},
                              rev : 0..MaxTouches, received : Nat, retired : Nat]]
  BY BoundAssumption DEF Init, NoSession
<1>4. owners \in [Stores -> SUBSET Hosts] /\ faults \in 0..MaxFaults
  BY BoundAssumption DEF Init
<1>5. QED BY <1>1, <1>2, <1>3, <1>4 DEF Init, TypeOK, LedgerType, OpType

\* A journal in another phase is a journal; so are the documents that hold it.
LEMMA PhaseTyped ==
  ASSUME NEW j \in JournalType, NEW phase \in Phases
  PROVE  [j EXCEPT !.phase = phase] \in JournalType
BY DEF JournalType, Phases

LEMMA JournaledTyped ==
  ASSUME TypeOK, NEW phase \in Phases
  PROVE  Journaled(phase) \in LedgerType
<1>1. op.journal \in JournalType
  BY DEF TypeOK
<1>2. QED BY <1>1, PhaseTyped DEF TypeOK, LedgerType, Journaled

LEMMA StampedTyped ==
  ASSUME TypeOK, NEW s \in Stores, NEW status \in {"resolved", "working"}
  PROVE  Stamped(s, status) \in LedgerType
<1>1. \A g \in Nat :
        [ledger EXCEPT !.status = status, !.store = s, !.stamped = TRUE,
                       !.generation = g] \in LedgerType
  BY Zenon DEF TypeOK, LedgerType
<1>2. ledger.generation \in Nat /\ ledger.generation + 1 \in Nat
  BY DEF TypeOK
<1>3. QED BY <1>1, <1>2 DEF Stamped

LEMMA PreparedTyped ==
  ASSUME TypeOK, NEW s \in Stores, NEW t \in Stores, NEW automatic \in BOOLEAN
  PROVE  Prepared(s, t, automatic) \in JournalType
<1>1. /\ owners[s] \in SUBSET Hosts
      /\ session[s].rev \in 0..MaxTouches
      /\ ledger.generation + 1 \in Nat
  BY DEF TypeOK
<1>2. Legacy(s) \in BOOLEAN
  BY Zenon DEF Legacy
<1>3. QED BY <1>1, <1>2, Zenon DEF Prepared, JournalType, Phases

\* What a committed transfer leaves in the ledger.
LEMMA CommittedTyped ==
  ASSUME TypeOK, op.journal.target \in Stores
  PROVE  [Journaled("committed") EXCEPT
            !.status = "resolved", !.store = op.journal.target,
            !.generation = op.journal.id, !.stamped = TRUE] \in LedgerType
<1>1. Journaled("committed") \in LedgerType
  BY JournaledTyped DEF Phases
<1>2. op.journal.id \in Nat
  BY DEF TypeOK, JournalType
<1>3. QED BY <1>1, <1>2, Zenon DEF LedgerType

\* A save leaves the ledger as it was or as it should be.
LEMMA PersistTyped ==
  ASSUME TypeOK, NEW l \in LedgerType,
         NEW pc \in {"none", "retire", "source_released", "commit"},
         Persist(l, pc)
  PROVE  ledger' \in LedgerType /\ op' \in OpType /\ faults' \in 0..MaxFaults
<1>1. NoOp \in OpType
  BY NoJournalTyped, Zenon DEF NoOp, OpType
<1>2. [op EXCEPT !.pc = pc] \in OpType
  BY DEF TypeOK, OpType
<1>3. ledger \in LedgerType /\ op \in OpType
  BY DEF TypeOK, LedgerType, OpType
<1>4. faults - 1 \in 0..MaxFaults \/ faults = 0
  BY BoundAssumption DEF TypeOK
<1>5. QED BY <1>1, <1>2, <1>3, <1>4, BoundAssumption DEF Persist, Throws, Goto, Fault, TypeOK

\* Every action keeps the types.
LEMMA TypeStep ==
  ASSUME TypeOK, OpInv, [Next]_vars
  PROVE  TypeOK'
<1> USE DEF LedgerType, OpType
<1> DEFINE SessionType ==
      [Stores -> [status : {"none", "bound", "quarantined"},
                  rev : 0..MaxTouches, received : Nat, retired : Nat]]
<1>0. /\ ledger \in LedgerType /\ session \in SessionType
      /\ owners \in [Stores -> SUBSET Hosts]
      /\ work \subseteq Stores /\ alive \subseteq Hosts
      /\ op \in OpType /\ faults \in 0..MaxFaults
  BY DEF TypeOK
<1>n. NoOp \in OpType
  BY NoJournalTyped, Zenon DEF NoOp
<1>j. op.journal \in JournalType /\ ledger.journal \in JournalType
  BY <1>0
<1>g. \A pc \in {"none", "target", "source", "retire", "retired",
                 "source_released", "created", "commit"} :
        [op EXCEPT !.pc = pc] \in OpType
  BY <1>0
<1>r. \A h \in Hosts, s \in Stores :
        [owners EXCEPT ![s] = @ \cup {h}] \in [Stores -> SUBSET Hosts]
  BY <1>0
<1>f. Fault => faults' \in 0..MaxFaults
  BY <1>0, BoundAssumption DEF Fault
<1>1. ASSUME NEW h \in Hosts, NEW s \in Stores, Send(h, s) PROVE TypeOK'
  <2>1. ledger' \in LedgerType
    BY <1>1, StampedTyped DEF Send
  <2>2. QED BY <1>1, <2>1, <1>0, <1>r DEF Send, Register, TypeOK
<1>2. ASSUME NEW h \in Hosts, NEW s \in Stores, Settle(h, s) PROVE TypeOK'
  <2>1. ledger' \in LedgerType
    BY <1>2, StampedTyped DEF Settle
  <2>2. QED BY <1>2, <2>1, <1>0, <1>r DEF Settle, Register, TypeOK
<1>3. ASSUME NEW h \in Hosts, NEW s \in Stores, StartWatch(h, s) PROVE TypeOK'
  BY <1>3, <1>0, <1>r DEF StartWatch, Register, TypeOK
<1>4. ASSUME NEW s \in Stores, EndWatch(s) PROVE TypeOK'
  BY <1>4, <1>0 DEF EndWatch, TypeOK
<1>5. ASSUME NEW s \in Stores, TouchSession(s) PROVE TypeOK'
  <2>1. session' \in SessionType
    BY <1>5, <1>0, BoundAssumption DEF TouchSession
  <2>2. QED BY <1>5, <2>1, <1>0 DEF TouchSession, TypeOK
<1>6. ASSUME NEW h \in Hosts, NEW t \in Stores, NEW automatic \in BOOLEAN,
             Request(h, t, automatic)
      PROVE  TypeOK'
  <2>1. Prepared(ledger.store, t, automatic) \in JournalType
    BY <1>0, PreparedTyped
  <2>2. \A j \in JournalType : [pc |-> "target", by |-> h, journal |-> j] \in OpType
    BY Zenon
  <2>3. op' \in OpType
    BY <1>6, <2>1, <2>2, <1>j DEF Request
  <2>4. QED BY <1>6, <2>3, <1>0 DEF Request, TypeOK
<1>o. op.pc # "none" => /\ op.by \in Hosts /\ op.journal.id \in Nat
                        /\ op.journal.source \in Stores
                        /\ op.journal.target \in Stores
  BY <1>0, <1>j DEF OpInv, JournalType
<1>7. ASSUME ReadyTarget PROVE TypeOK'
  BY <1>7, <1>0, <1>o, <1>r, <1>g, <1>n
  DEF ReadyTarget, At, Register, Goto, Throws, TypeOK
<1>8. ASSUME FenceSource PROVE TypeOK'
  <2>1. Journaled("prepared") \in LedgerType
    BY JournaledTyped DEF Phases
  <2>2. CASE Persist(Journaled("prepared"), "retire")
    <3>1. ledger' \in LedgerType /\ op' \in OpType /\ faults' \in 0..MaxFaults
      BY <2>1, <2>2, PersistTyped
    <3>2. QED BY <1>8, <3>1, <1>0 DEF FenceSource, TypeOK
  <2>3. CASE ~Persist(Journaled("prepared"), "retire")
    BY <1>8, <2>3, <1>0, <1>g, <1>n DEF FenceSource, Goto, Throws, TypeOK
  <2>4. QED BY <2>2, <2>3
<1>9. ASSUME RetireSource PROVE TypeOK'
  <2>1. session' \in SessionType
    BY <1>9, <1>0, <1>o DEF RetireSource, At
  <2>2. QED BY SMTT(30), <1>9, <2>1, <1>0, <1>g, <1>n, <1>f
        DEF RetireSource, Goto, Throws, TypeOK
<1>10. ASSUME RecordRetired PROVE TypeOK'
  <2>1. Journaled("source_retired") \in LedgerType
    BY JournaledTyped DEF Phases
  <2>2. ledger' \in LedgerType /\ op' \in OpType /\ faults' \in 0..MaxFaults
    BY <1>10, <2>1, PersistTyped DEF RecordRetired
  <2>3. QED BY <1>10, <2>2, <1>0 DEF RecordRetired, TypeOK
<1>11. ASSUME CreateTarget PROVE TypeOK'
  <2> DEFINE copy == [NoSession EXCEPT !.status = "bound", !.received = op.journal.id]
  <2>1. op.journal.id \in Nat /\ op.journal.target \in Stores
    BY <1>11, <1>o DEF CreateTarget, At
  <2>2. copy \in [status : {"none", "bound", "quarantined"},
                  rev : 0..MaxTouches, received : Nat, retired : Nat]
    <3>1. 0 \in 0..MaxTouches /\ 0 \in Nat
      BY BoundAssumption
    <3>2. QED BY <2>1, <3>1, Zenon DEF NoSession
  <2>3. session' \in {session, [session EXCEPT ![op.journal.target] = copy]}
    BY <1>11 DEF CreateTarget
  <2>4. session' \in SessionType
    BY <2>1, <2>2, <2>3, <1>0
  <2>5. op' \in OpType /\ faults' \in 0..MaxFaults
    BY <1>11, <1>0, <1>g, <1>n, <1>f DEF CreateTarget, Goto, Throws
  <2>6. QED BY <1>11, <2>4, <2>5, <1>0 DEF CreateTarget, TypeOK
<1>12. ASSUME RecordCreated PROVE TypeOK'
  <2>1. Journaled("target_created") \in LedgerType
    BY JournaledTyped DEF Phases
  <2>2. ledger' \in LedgerType /\ op' \in OpType /\ faults' \in 0..MaxFaults
    BY <1>12, <2>1, PersistTyped DEF RecordCreated
  <2>3. QED BY <1>12, <2>2, <1>0 DEF RecordCreated, TypeOK
<1>13. ASSUME Commit PROVE TypeOK'
  <2>1. [Journaled("committed") EXCEPT
           !.status = "resolved", !.store = op.journal.target,
           !.generation = op.journal.id, !.stamped = TRUE] \in LedgerType
    BY <1>13, <1>o, CommittedTyped DEF Commit, At
  <2>2. ledger' \in LedgerType /\ op' \in OpType /\ faults' \in 0..MaxFaults
    BY <1>13, <2>1, PersistTyped DEF Commit
  <2>3. QED BY <1>13, <2>2, <1>0, <1>r, <1>o DEF Commit, At, Register, TypeOK
<1>14. ASSUME Interrupt PROVE TypeOK'
  BY <1>14, <1>0, <1>n, <1>f DEF Interrupt, Throws, TypeOK
<1>15. ASSUME NEW h \in Hosts, Die(h) PROVE TypeOK'
  BY <1>15, <1>0, <1>n DEF Die, TypeOK
<1>16. CASE UNCHANGED vars
  BY <1>16, <1>0 DEF vars, TypeOK
<1>17. QED
  BY <1>1, <1>2, <1>3, <1>4, <1>5, <1>6, <1>7, <1>8, <1>9, <1>10, <1>11,
     <1>12, <1>13, <1>14, <1>15, <1>16
  DEF Next, Transfer

(* ------------------------ the claim and the journal ----------------------- *)

LEMMA NoOpFacts == NoOp.pc = "none" /\ ~Incomplete(NoJournal)
BY DEF NoOp, NoJournal, Incomplete

\* The journal the command writes differs from its own in the phase only.
LEMMA JournaledFacts ==
  ASSUME TypeOK, NEW phase \in Phases
  PROVE  LET l == Journaled(phase) IN
         /\ l.store = ledger.store /\ l.generation = ledger.generation
         /\ l.journal.phase = phase
         /\ l.journal.id = op.journal.id /\ l.journal.rev = op.journal.rev
         /\ l.journal.source = op.journal.source
         /\ l.journal.target = op.journal.target
<1>1. op.journal \in JournalType
  BY DEF TypeOK
<1>2. QED BY <1>1 DEF TypeOK, JournalType, Journaled

LEMMA StampedFacts ==
  ASSUME TypeOK, NEW s \in Stores, NEW status \in {"resolved", "working"},
         s = ledger.store
  PROVE  LET l == Stamped(s, status) IN
         /\ l.store = ledger.store /\ l.journal = ledger.journal
         /\ l.generation \in {ledger.generation, ledger.generation + 1}
BY DEF TypeOK, Stamped

\* What follows of a save: it took effect or the command is over.
LEMMA PersistFacts ==
  ASSUME TypeOK, NEW l, NEW pc, Persist(l, pc)
  PROVE  /\ ledger' \in {ledger, l}
         /\ op'.pc = "none" \/ (ledger' = l /\ pc # "none" /\ op'.pc = pc
                                 /\ op'.journal = op.journal /\ op'.by = op.by)
BY NoOpFacts DEF TypeOK, Persist, Throws, Goto

LEMMA InitialStable == Init => StableInv
BY NoOpFacts, StoreAssumption
DEF Init, StableInv, ClaimInv, JournalInv, OpInv, InspectedInv, RetireInv,
    RetiredInv, Bound, NoSession, NoOp

\* Every action keeps the claim, the journal and the command in agreement.
LEMMA StableStep ==
  ASSUME IInv, [Next]_vars, TypeOK'
  PROVE  StableInv'
<1> DEFINE j == ledger.journal
<1>0. TypeOK /\ StableInv
  BY DEF IInv
<1>t. /\ ledger.store \in Stores /\ ledger.generation \in Nat
      /\ op.journal \in JournalType /\ ledger.journal \in JournalType
  BY <1>0 DEF TypeOK
<1>1. ASSUME NEW h \in Hosts, NEW s \in Stores, Send(h, s) PROVE StableInv'
  <2>1. s = ledger.store /\ ledger' = Stamped(s, "working")
    BY <1>1 DEF Send, WriteAllowed
  <2>2. ledger'.store = ledger.store /\ ledger'.journal = ledger.journal
    BY <2>1, <1>0, StampedFacts
  <2>3. QED BY <1>1, <2>2, <1>0
        DEF Send, At, WriteAllowed, StableInv, ClaimInv, JournalInv, OpInv, InspectedInv,
            RetireInv, RetiredInv, Bound
<1>2. ASSUME NEW h \in Hosts, NEW s \in Stores, Settle(h, s) PROVE StableInv'
  <2>1. s = ledger.store /\ ledger' = Stamped(s, "resolved") /\ ~Incomplete(j)
    BY <1>2 DEF Settle, WriteAllowed
  <2>2. /\ ledger'.store = ledger.store /\ ledger'.journal = ledger.journal
        /\ ledger'.generation \in {ledger.generation, ledger.generation + 1}
    BY <2>1, <1>0, StampedFacts
  <2>3. owners' = [owners EXCEPT ![s] = @ \cup {h}] /\ h \in alive
        /\ UNCHANGED <<session, alive, op>>
    BY <1>2 DEF Settle, Register
  <2>4. ClaimInv' /\ JournalInv' /\ OpInv'
    BY <2>1, <2>2, <2>3, <1>0 DEF StableInv, ClaimInv, JournalInv, OpInv, Bound
  <2>5. InspectedInv' /\ RetireInv' /\ RetiredInv'
    BY <2>1, <2>2, <2>3, <1>0, <1>t
    DEF StableInv, InspectedInv, RetireInv, RetiredInv, TypeOK
  <2>6. QED BY <2>4, <2>5 DEF StableInv
<1>3. ASSUME NEW h \in Hosts, NEW s \in Stores, StartWatch(h, s) PROVE StableInv'
  <2>1. owners' = [owners EXCEPT ![s] = @ \cup {h}] /\ h \in alive
        /\ UNCHANGED <<ledger, session, alive, op>>
    BY <1>3 DEF StartWatch, Register
  <2>2. ClaimInv' /\ JournalInv' /\ OpInv' /\ RetiredInv'
    BY <2>1, <1>0 DEF StableInv, ClaimInv, JournalInv, OpInv, RetiredInv, Bound
  <2>3. InspectedInv'
    BY <2>1, <1>0, <1>t DEF StableInv, InspectedInv, TypeOK
  <2>4. RetireInv'
    BY <2>1, <1>3, <1>0, <1>t
    DEF StartWatch, Leased, At, StableInv, OpInv, RetireInv, Bound, TypeOK
  <2>5. QED BY <2>2, <2>3, <2>4 DEF StableInv
<1>4. ASSUME NEW s \in Stores, EndWatch(s) PROVE StableInv'
  BY <1>4, <1>0
  DEF EndWatch, StableInv, ClaimInv, JournalInv, OpInv, InspectedInv, RetireInv,
      RetiredInv, Bound
<1>5. ASSUME NEW s \in Stores, TouchSession(s) PROVE StableInv'
  <2>1. /\ \A t \in Stores : session'[t].status = session[t].status
                             /\ session'[t].retired = session[t].retired
        /\ \A t \in Stores \ {s} : session'[t] = session[t]
        /\ UNCHANGED <<ledger, owners, work, alive, op>>
    BY <1>5, <1>0 DEF TouchSession, TypeOK
  <2>2. ClaimInv' /\ JournalInv' /\ OpInv' /\ InspectedInv' 
    BY <2>1, <1>0, <1>t DEF StableInv, ClaimInv, JournalInv, OpInv, InspectedInv, Bound
  <2>3. RetireInv'
    BY <2>1, <1>5, <1>0, <1>t
    DEF TouchSession, Leased, At, StableInv, OpInv, RetireInv, Bound, TypeOK
  <2>4. RetiredInv'
    BY <2>1, <1>0, <1>t DEF StableInv, OpInv, RetiredInv, Bound, TypeOK, JournalType
  <2>5. QED BY <2>2, <2>3, <2>4 DEF StableInv
<1>6. ASSUME NEW h \in Hosts, NEW t \in Stores, NEW automatic \in BOOLEAN,
             Request(h, t, automatic)
      PROVE  StableInv'
  <2>1. UNCHANGED <<ledger, session, owners, work, alive>>
        /\ op'.pc = "target" /\ op'.by = h /\ t # ledger.store
    BY <1>6 DEF Request
  <2>2. CASE Incomplete(j)
    <3>1. op'.journal = j
      BY <1>6, <2>2 DEF Request
    <3>2. QED BY <2>1, <2>2, <3>1, <1>0, <1>t
          DEF StableInv, ClaimInv, JournalInv, OpInv, InspectedInv, RetireInv,
              RetiredInv, Bound, JournalType
  <2>3. CASE ~Incomplete(j)
    <3>1. op'.journal = Prepared(ledger.store, t, automatic)
      BY <1>6, <2>3 DEF Request
    <3>2. Dead(ledger.store) \/ Legacy(ledger.store)
      BY <1>6, <2>3 DEF Request, Eligible
    <3>3. /\ op'.journal.id = ledger.generation + 1
          /\ op'.journal.source = ledger.store /\ op'.journal.target = t
          /\ op'.journal.owners = owners[ledger.store]
      BY <3>1 DEF Prepared
    <3>4. owners[ledger.store] \cap alive = {}
      BY <3>2 DEF Dead, Legacy
    <3>5. QED BY <2>1, <2>3, <3>3, <3>4, <1>0, <1>t
          DEF StableInv, ClaimInv, JournalInv, OpInv, InspectedInv, RetireInv,
              RetiredInv, Bound
  <2>4. QED BY <2>2, <2>3
<1>7. ASSUME ReadyTarget PROVE StableInv'
  <2>1. /\ UNCHANGED <<ledger, session, work, alive>> /\ op.pc = "target"
        /\ op'.pc = "none" \/ (op'.pc = "source" /\ op'.journal = op.journal
                                /\ op'.by = op.by)
        /\ \A s \in Stores \ {op.journal.target} : owners'[s] = owners[s]
    BY <1>7, <1>0, NoOpFacts DEF ReadyTarget, At, Register, Goto, Throws, TypeOK
  <2>2. QED BY <2>1, <1>0, <1>t
        DEF StableInv, ClaimInv, JournalInv, OpInv, InspectedInv, RetireInv,
            RetiredInv, Bound
<1>p. /\ Incomplete(j) <=> j.phase \in {"prepared", "source_retired", "target_created"}
      /\ op.journal.id \in Nat
  BY <1>t DEF Incomplete, JournalType, Phases
<1>8. ASSUME FenceSource PROVE StableInv'
  <2>1. UNCHANGED <<session, owners, work, alive>> /\ op.pc = "source"
    BY <1>8 DEF FenceSource, At
  <2>2. CASE op' = NoOp /\ UNCHANGED ledger
    BY <2>1, <2>2, <1>0, NoOpFacts
    DEF StableInv, ClaimInv, JournalInv, OpInv, InspectedInv, RetireInv,
        RetiredInv, Bound
  <2>3. CASE session[ledger.store].retired = op.journal.id /\ UNCHANGED ledger
               /\ op' = [op EXCEPT !.pc = "source_released"]
    <3>1. op'.pc = "source_released" /\ op'.journal = op.journal /\ op'.by = op.by
      BY <2>3, <1>0 DEF TypeOK
    <3>2. Incomplete(j)
      BY <2>1, <2>3, <1>0, <1>t, <1>p DEF StableInv, ClaimInv, OpInv
    <3>3. QED BY <2>1, <2>3, <3>1, <3>2, <1>0
          DEF StableInv, ClaimInv, JournalInv, OpInv, InspectedInv, RetireInv,
              RetiredInv, Bound
  <2>4. CASE /\ SourceVerified(op.journal)
             /\ SourceUnchanged(op.journal)
             /\ Persist(Journaled("prepared"), "retire")
    <3> DEFINE l == Journaled("prepared")
    <3>1. /\ l.store = ledger.store /\ l.generation = ledger.generation
          /\ l.journal.phase = "prepared" /\ Incomplete(l.journal)
          /\ l.journal.id = op.journal.id /\ l.journal.rev = op.journal.rev
          /\ l.journal.source = op.journal.source
          /\ l.journal.target = op.journal.target
      BY <1>0, JournaledFacts DEF Phases, Incomplete
    <3>2. /\ ledger' \in {ledger, l}
          /\ op'.pc = "none" \/ (ledger' = l /\ op'.pc = "retire"
                                  /\ op'.journal = op.journal /\ op'.by = op.by)
      BY <2>4, <1>0, PersistFacts
    <3>3. /\ op.journal.source = ledger.store
          /\ Bound(ledger.store) /\ ledger.store \notin work
          /\ session[ledger.store].rev = op.journal.rev
          /\ owners[ledger.store] \cap alive = {}
          /\ owners[ledger.store] = op.journal.owners
      BY <2>1, <2>4, <1>0
      DEF SourceVerified, SourceUnchanged, WorkSettled, Dead, StableInv, OpInv, Bound
    <3>4. op.journal.id > ledger.generation
      BY <2>1, <3>3, <1>0, <1>p DEF StableInv, OpInv, InspectedInv, JournalInv
    <3>5. \A s \in Stores : Bound(s) <=> s = ledger.store
      BY <3>3, <1>0, <1>t DEF StableInv, ClaimInv, JournalInv
    <3>6. ClaimInv' /\ JournalInv' /\ OpInv'
      <4>1. CASE ledger' = ledger
        BY <4>1, <2>1, <3>2, <3>1, <1>0
        DEF StableInv, ClaimInv, JournalInv, OpInv, Bound
      <4>2. CASE ledger' = l
        BY <4>2, <2>1, <3>1, <3>2, <3>3, <3>4, <3>5, <1>0
        DEF StableInv, ClaimInv, JournalInv, OpInv, Bound
      <4>3. QED BY <4>1, <4>2, <3>2
    <3>7. InspectedInv' /\ RetireInv' /\ RetiredInv'
      BY <2>1, <3>1, <3>2, <3>3 DEF InspectedInv, RetireInv, RetiredInv, Bound
    <3>8. QED BY <3>6, <3>7 DEF StableInv
  <2>5. QED
    BY <1>8, <2>1, <2>2, <2>3, <2>4, <1>0
    DEF FenceSource, Throws, Goto, StableInv, OpInv
<1>9. ASSUME RetireSource PROVE StableInv'
  <2>1. /\ UNCHANGED <<ledger, owners, work, alive>> /\ op.pc = "retire"
        /\ op'.pc = "none" \/ (op'.pc = "retired" /\ op'.journal = op.journal
                                /\ op'.by = op.by)
    BY <1>9, <1>0, NoOpFacts DEF RetireSource, At, Goto, Throws, TypeOK
  <2>2. Incomplete(j) /\ op.journal.source = ledger.store /\ op.journal.id > 0
        /\ Bound(ledger.store) /\ ledger.journal.source = ledger.store
    BY <2>1, <1>0 DEF StableInv, OpInv, InspectedInv, RetireInv, JournalInv
  <2>3. /\ session'[ledger.store].status = "quarantined"
        /\ session'[ledger.store].retired = op.journal.id
        /\ \A s \in Stores \ {ledger.store} : session'[s] = session[s]
    BY <1>9, <2>2, <1>0, <1>t DEF RetireSource, TypeOK
  <2>4. \A s \in Stores : ~Bound(s)'
    BY <2>1, <2>2, <2>3, <1>0, <1>t DEF StableInv, ClaimInv, JournalInv, OpInv, Bound
  <2>5. QED BY <2>1, <2>2, <2>3, <2>4, <1>0, <1>t
        DEF StableInv, ClaimInv, JournalInv, OpInv, InspectedInv, RetireInv,
            RetiredInv, Bound
<1>10. ASSUME RecordRetired PROVE StableInv'
  <2> DEFINE l == Journaled("source_retired")
  <2>1. UNCHANGED <<session, owners, work, alive>> /\ op.pc = "retired"
    BY <1>10 DEF RecordRetired, At
  <2>2. /\ l.store = ledger.store /\ l.generation = ledger.generation
        /\ Incomplete(l.journal)
        /\ l.journal.id = op.journal.id
        /\ l.journal.source = op.journal.source
        /\ l.journal.target = op.journal.target
    BY <1>0, JournaledFacts DEF Phases, Incomplete
  <2>3. /\ ledger' \in {ledger, l}
        /\ op'.pc = "none" \/ (ledger' = l /\ op'.pc = "source_released"
                                /\ op'.journal = op.journal /\ op'.by = op.by)
    BY <1>10, <1>0, PersistFacts DEF RecordRetired
  <2>4. Incomplete(j) /\ op.journal.source = j.source
        /\ op.journal.target = j.target /\ op.journal.id = j.id
    BY <2>1, <1>0 DEF StableInv, OpInv, InspectedInv, JournalInv
  <2>5. /\ ledger'.store = ledger.store /\ ledger'.generation = ledger.generation
        /\ Incomplete(ledger'.journal)
        /\ ledger'.journal.id = j.id /\ ledger'.journal.source = j.source
        /\ ledger'.journal.target = j.target
    BY <2>2, <2>3, <2>4
  <2>6. ClaimInv' /\ JournalInv' /\ OpInv'
    BY <2>1, <2>3, <2>4, <2>5, <1>0 DEF StableInv, ClaimInv, JournalInv, OpInv, Bound
  <2>7. InspectedInv' /\ RetireInv' /\ RetiredInv'
    BY <2>1, <2>3, <2>4, <2>5, <1>0 DEF StableInv, InspectedInv, RetireInv, RetiredInv, Bound
  <2>8. QED BY <2>6, <2>7 DEF StableInv
<1>11. ASSUME CreateTarget PROVE StableInv'
  <2>1. /\ UNCHANGED <<ledger, owners, work, alive>> /\ op.pc = "source_released"
        /\ op'.pc = "none" \/ (op'.pc = "created" /\ op'.journal = op.journal
                                /\ op'.by = op.by)
    BY <1>11, <1>0, NoOpFacts DEF CreateTarget, At, Goto, Throws, TypeOK
  <2>2. /\ Incomplete(j) /\ j.source = ledger.store /\ j.target = op.journal.target
        /\ j.target \in Stores \ {ledger.store}
        /\ session[ledger.store].retired = op.journal.id /\ op.journal.id > 0
    BY <2>1, <1>0 DEF StableInv, OpInv, InspectedInv, JournalInv, RetiredInv
  <2>3. CASE UNCHANGED session /\ op'.pc = "none"
    BY <2>1, <2>3, <1>0 DEF StableInv, ClaimInv, JournalInv, OpInv, InspectedInv,
       RetireInv, RetiredInv, Bound
  <2>4. CASE session' = [session EXCEPT ![op.journal.target] =
                           [NoSession EXCEPT !.status = "bound",
                                             !.received = op.journal.id]]
    <3>1. /\ session'[j.target].status = "bound" /\ session'[j.target].retired = 0
          /\ \A s \in Stores \ {j.target} : session'[s] = session[s]
      BY <2>2, <2>4, <1>0 DEF NoSession, TypeOK
    <3>2. ~Bound(ledger.store)
      BY <2>2, <1>0, <1>t DEF StableInv, ClaimInv
    <3>3. \A s \in Stores : Bound(s)' <=> s = j.target
      BY <2>2, <3>1, <3>2, <1>0, <1>t DEF StableInv, ClaimInv, Bound
    <3>4. ClaimInv' /\ JournalInv' /\ OpInv'
      BY <2>1, <2>2, <3>1, <3>3, <1>0, <1>t DEF StableInv, ClaimInv, JournalInv, OpInv, Bound
    <3>5. InspectedInv' /\ RetireInv' /\ RetiredInv'
      BY <2>1, <2>2, <3>1, <3>3, <1>0, <1>t
      DEF StableInv, InspectedInv, RetireInv, RetiredInv, Bound
    <3>6. QED BY <3>4, <3>5 DEF StableInv
  <2>5. QED BY <1>11, <2>3, <2>4, NoOpFacts DEF CreateTarget, Throws
<1>12. ASSUME RecordCreated PROVE StableInv'
  <2> DEFINE l == Journaled("target_created")
  <2>1. UNCHANGED <<session, owners, work, alive>> /\ op.pc = "created"
    BY <1>12 DEF RecordCreated, At
  <2>2. /\ l.store = ledger.store /\ l.generation = ledger.generation
        /\ Incomplete(l.journal)
        /\ l.journal.id = op.journal.id
        /\ l.journal.source = op.journal.source
        /\ l.journal.target = op.journal.target
    BY <1>0, JournaledFacts DEF Phases, Incomplete
  <2>3. /\ ledger' \in {ledger, l}
        /\ op'.pc = "none" \/ (ledger' = l /\ op'.pc = "commit"
                                /\ op'.journal = op.journal /\ op'.by = op.by)
    BY <1>12, <1>0, PersistFacts DEF RecordCreated
  <2>4. Incomplete(j) /\ op.journal.source = j.source
        /\ op.journal.target = j.target /\ op.journal.id = j.id
    BY <2>1, <1>0 DEF StableInv, OpInv, InspectedInv, JournalInv
  <2>5. /\ ledger'.store = ledger.store /\ ledger'.generation = ledger.generation
        /\ Incomplete(ledger'.journal)
        /\ ledger'.journal.id = j.id /\ ledger'.journal.source = j.source
        /\ ledger'.journal.target = j.target
    BY <2>2, <2>3, <2>4
  <2>6. ClaimInv' /\ JournalInv' /\ OpInv'
    BY <2>1, <2>3, <2>4, <2>5, <1>0 DEF StableInv, ClaimInv, JournalInv, OpInv, Bound
  <2>7. InspectedInv' /\ RetireInv' /\ RetiredInv'
    BY <2>1, <2>3, <2>4, <2>5, <1>0 DEF StableInv, InspectedInv, RetireInv, RetiredInv, Bound
  <2>8. QED BY <2>6, <2>7 DEF StableInv
<1>13. ASSUME Commit PROVE StableInv'
  <2> DEFINE l == [Journaled("committed") EXCEPT
                     !.status = "resolved", !.store = op.journal.target,
                     !.generation = op.journal.id, !.stamped = TRUE]
  <2>1. UNCHANGED <<session, work, alive>> /\ op.pc = "commit"
    BY <1>13 DEF Commit, At
  <2>2. /\ Incomplete(j) /\ j.source = ledger.store /\ j.target = op.journal.target
        /\ j.target \in Stores \ {ledger.store} /\ op.journal.id = j.id
        /\ session[ledger.store].retired = op.journal.id /\ op.journal.id > 0
        /\ Bound(j.target)
    BY <2>1, <1>0 DEF StableInv, OpInv, InspectedInv, JournalInv, RetiredInv
  <2>3. l.store = j.target /\ ~Incomplete(l.journal)
    <3>1. Journaled("committed") \in LedgerType
      BY <1>0, JournaledTyped DEF Phases
    <3>2. l.store = op.journal.target /\ l.journal = Journaled("committed").journal
      BY <3>1, Zenon DEF LedgerType
    <3>3. l.journal.phase = "committed"
      BY <3>2, <1>0, JournaledFacts DEF Phases
    <3>4. QED BY <3>2, <3>3, <2>2 DEF Incomplete
  <2>4. op'.pc = "none" /\ ledger' \in {ledger, l}
    BY <1>13, <1>0, PersistFacts DEF Commit
  <2>5. \A s \in Stores : Bound(s) <=> s = j.target
    BY <2>2, <1>0, <1>t DEF StableInv, ClaimInv
  <2>6. CASE ledger' = ledger
    BY <2>1, <2>4, <2>6, <2>2, <1>0
    DEF StableInv, ClaimInv, JournalInv, OpInv, InspectedInv, RetireInv,
        RetiredInv, Bound
  <2>7. CASE ledger' = l
    <3>1. ledger'.store = j.target /\ ~Incomplete(ledger'.journal)
      BY <2>3, <2>7
    <3>2. QED BY <2>1, <2>4, <2>5, <3>1, <1>0
          DEF StableInv, ClaimInv, JournalInv, OpInv, InspectedInv, RetireInv,
              RetiredInv, Bound
  <2>8. QED BY <2>4, <2>6, <2>7
<1>14. ASSUME Interrupt PROVE StableInv'
  <2>1. UNCHANGED <<ledger, session, owners, work, alive>> /\ op'.pc = "none"
    BY <1>14, NoOpFacts DEF Interrupt, Throws
  <2>2. QED BY <2>1, <1>0
        DEF StableInv, ClaimInv, JournalInv, OpInv, InspectedInv, RetireInv,
            RetiredInv, Bound
<1>15. ASSUME NEW h \in Hosts, Die(h) PROVE StableInv'
  <2>1. /\ UNCHANGED <<ledger, session, owners, work>> /\ alive' \subseteq alive
        /\ op'.pc = "none" \/ op' = op
    BY <1>15, NoOpFacts DEF Die
  <2>2. QED BY <2>1, <1>0
        DEF StableInv, ClaimInv, JournalInv, OpInv, InspectedInv, RetireInv,
            RetiredInv, Bound
<1>16. CASE UNCHANGED vars
  BY <1>16, <1>0
  DEF vars, StableInv, ClaimInv, JournalInv, OpInv, InspectedInv, RetireInv,
      RetiredInv, Bound
<1>17. QED
  BY <1>1, <1>2, <1>3, <1>4, <1>5, <1>6, <1>7, <1>8, <1>9, <1>10, <1>11,
     <1>12, <1>13, <1>14, <1>15, <1>16
  DEF IInv, Next, Transfer

(* ------------------------------ theorems ----------------------------- *)

LEMMA InitialIInv == Init => IInv
BY Initial, InitialStable DEF IInv

LEMMA Inductive == IInv /\ [Next]_vars => IInv'
<1> SUFFICES ASSUME IInv, [Next]_vars PROVE IInv'
  OBVIOUS
<1>1. TypeOK'
  BY TypeStep DEF IInv, StableInv
<1>2. QED BY <1>1, StableStep DEF IInv

\* The inductive invariant holds in every reachable state.
THEOREM Invariance == Spec => []IInv
BY InitialIInv, Inductive, PTL DEF Spec

\* In every reachable state every variable has its type; in particular the ledger
\* always names a Store, in whatever step of a transfer a command dies
\* (transferNativeStoreAuthorityWhileLocked).
THEOREM Typing == Spec => []TypeOK
<1>1. IInv => TypeOK
  BY DEF IInv
<1>2. QED BY <1>1, Invariance, PTL

\* For any number of Stores and Hosts, failed saves and dead commands, no two
\* Stores hold a claimable Session of the thread: the source is retired before the
\* target is created, and nothing but the journal leads there
\* (native-store-authority-transfer.ts).
THEOREM OneClaimHolds == Spec => []OneClaim
<1>1. IInv => OneClaim
  BY DEF IInv, TypeOK, StableInv, ClaimInv, OneClaim, Bound
<1>2. QED BY <1>1, Invariance, PTL

\* Without an unfinished journal the Store of the ledger holds the claim, so no
\* crash leaves a thread that no Store can send to and no journal explains
\* (transferNativeStoreAuthorityWhileLocked).
THEOREM AuthorityIsHeld == Spec => []AuthorityHoldsClaim
<1>1. IInv => AuthorityHoldsClaim
  BY DEF IInv, TypeOK, StableInv, ClaimInv, AuthorityHoldsClaim, Bound
<1>2. QED BY <1>1, Invariance, PTL

\* A Session is retired by one step only, in the Store of the ledger.
LEMMA OnlyRetire ==
  ASSUME IInv, [Next]_vars, NEW s \in Stores,
         session[s].retired = 0, session'[s].retired # 0
  PROVE  RetireSource /\ s = ledger.store
<1>0. TypeOK /\ OpInv
  BY DEF IInv, StableInv
<1>1. session' # session
  OBVIOUS
<1>2. ~\E t \in Stores : TouchSession(t)
  BY <1>0 DEF TouchSession, TypeOK
<1>3. ~CreateTarget
  <2>1. SUFFICES ASSUME CreateTarget PROVE FALSE
    OBVIOUS
  <2> DEFINE copy == [NoSession EXCEPT !.status = "bound", !.received = op.journal.id]
  <2>2. session' \in {session, [session EXCEPT ![op.journal.target] = copy]}
    BY <2>1 DEF CreateTarget
  <2>3. op.journal.target \in Stores
    BY <2>1, <1>0 DEF CreateTarget, At, OpInv
  <2>4. copy.retired = 0
    BY DEF NoSession
  <2> HIDE DEF copy
  <2>5. session'[s] \in {session[s], copy}
    BY <2>2, <2>3, <1>0 DEF TypeOK
  <2>6. QED BY <2>4, <2>5
<1>4. RetireSource
  BY <1>1, <1>2, <1>3
  DEF Next, Transfer, vars, Send, Settle, StartWatch, EndWatch, Request,
      ReadyTarget, FenceSource, RecordRetired, RecordCreated, Commit, Interrupt, Die
<1>5. op.journal.source = ledger.store
  BY <1>4, <1>0 DEF RetireSource, At, OpInv
<1>6. QED BY <1>4, <1>5, <1>0 DEF RetireSource, TypeOK

\* No Store loses its claim while one of its Hosts runs or a Turn or Watch is left:
\* the lease of the source covers everything from the inspection that counts
\* (verifySourceOwner, nativeAuthorityWorkSettled) to the retirement.
THEOREM LiveOwnersKeepTheirClaim == Spec => NoLiveOwnerIsRetired
<1>1. ASSUME IInv, [Next]_vars, NEW s \in Stores,
             session[s].retired = 0, session'[s].retired # 0
      PROVE  owners[s] \cap alive = {} /\ s \notin work
  <2>1. RetireSource /\ s = ledger.store
    BY <1>1, OnlyRetire
  <2>2. QED BY <1>1, <2>1 DEF RetireSource, At, IInv, StableInv, RetireInv
<1>2. IInv /\ [Next]_vars =>
        [\A s \in Stores : session[s].retired = 0 /\ session'[s].retired # 0 =>
           owners[s] \cap alive = {} /\ s \notin work]_vars
  BY <1>1
<1>3. QED BY <1>2, Invariance, PTL DEF Spec, NoLiveOwnerIsRetired

\* The journal that holds the copy of a Session is durable before the Session is
\* retired, and the copy is its last version (persist before the quarantine in
\* transferNativeStoreAuthorityWhileLocked).
THEOREM TheLastCopyMoves == Spec => CopyIsLast
<1>1. ASSUME IInv, [Next]_vars, NEW s \in Stores,
             session[s].retired = 0, session'[s].retired # 0
      PROVE  /\ ledger.journal.id = session'[s].retired
             /\ ledger.journal.rev = session[s].rev
  <2>1. RetireSource /\ s = ledger.store
    BY <1>1, OnlyRetire
  <2>2. /\ ledger.journal.id = op.journal.id
        /\ ledger.journal.rev = session[s].rev
        /\ op.journal.source = s
    BY <1>1, <2>1
    DEF RetireSource, At, IInv, StableInv, OpInv, InspectedInv, RetireInv
  <2>3. session'[s].retired = op.journal.id
    BY <1>1, <2>1, <2>2 DEF RetireSource, IInv, TypeOK
  <2>4. QED BY <2>2, <2>3
<1>2. IInv /\ [Next]_vars =>
        [\A s \in Stores : session[s].retired = 0 /\ session'[s].retired # 0 =>
           /\ ledger.journal.id = session'[s].retired
           /\ ledger.journal.rev = session[s].rev]_vars
  BY <1>1
<1>3. QED BY <1>2, Invariance, PTL DEF Spec, CopyIsLast

\* No other command erases an unfinished journal, and authority moves only along
\* one, after the Store it leaves was retired, to a younger generation: no retry
\* or late save takes it back (assertAuthorityWriteAllowed).
THEOREM AuthorityIsNotTakenBack == Spec => AuthorityMovesOnce
<1> DEFINE A ==
      /\ Incomplete(ledger.journal) => ledger'.journal.id = ledger.journal.id
      /\ ledger'.store # ledger.store =>
           /\ Incomplete(ledger.journal) /\ ~Incomplete(ledger'.journal)
           /\ session[ledger.store].retired = ledger.journal.id
           /\ ledger'.generation > ledger.generation
<1>1. ASSUME IInv, [Next]_vars PROVE A \/ UNCHANGED vars
  <2>0. TypeOK /\ OpInv /\ JournalInv /\ InspectedInv /\ RetiredInv
        /\ ledger.journal \in JournalType /\ op.journal \in JournalType
    BY <1>1 DEF IInv, StableInv, TypeOK
  <2>1. CASE UNCHANGED ledger
    BY <2>1
  <2>2. ASSUME NEW h \in Hosts, NEW s \in Stores, Send(h, s) \/ Settle(h, s) PROVE A
    <3>1. s = ledger.store /\ ~Incomplete(ledger.journal)
          /\ ledger' \in {Stamped(s, "working"), Stamped(s, "resolved")}
      BY <2>2 DEF Send, Settle, WriteAllowed
    <3>2. ledger'.store = ledger.store
      BY <3>1, <2>0, StampedFacts
    <3>3. QED BY <3>1, <3>2
  <2>3. ASSUME NEW phase \in {"prepared", "source_retired", "target_created"},
               NEW pc, Persist(Journaled(phase), pc), op.pc # "none"
        PROVE  A
    <3>1. ledger' \in {ledger, Journaled(phase)}
      BY <2>3, <2>0, PersistFacts
    <3>2. Journaled(phase).store = ledger.store
          /\ Journaled(phase).journal.id = op.journal.id
      BY <2>0, <2>3, JournaledFacts DEF Phases
    <3>3. Incomplete(ledger.journal) => op.journal.id = ledger.journal.id
      BY <2>0, <2>3 DEF OpInv
    <3>4. QED BY <3>1, <3>2, <3>3
  <2>4. CASE Commit
    <3> DEFINE l == [Journaled("committed") EXCEPT
                       !.status = "resolved", !.store = op.journal.target,
                       !.generation = op.journal.id, !.stamped = TRUE]
    <3>1. ledger' \in {ledger, l} /\ op.pc = "commit"
      BY <2>4, <2>0, PersistFacts DEF Commit, At
    <3>2. Journaled("committed") \in LedgerType
      BY <2>0, JournaledTyped DEF Phases
    <3>3. l.generation = op.journal.id /\ l.journal = Journaled("committed").journal
      BY <3>2, Zenon DEF LedgerType
    <3>4. l.journal.id = op.journal.id /\ l.journal.phase = "committed"
      BY <3>3, <2>0, JournaledFacts DEF Phases
    <3>5. /\ Incomplete(ledger.journal) /\ op.journal.id = ledger.journal.id
          /\ ledger.journal.id > ledger.generation
          /\ session[ledger.store].retired = ledger.journal.id
      BY <3>1, <2>0 DEF OpInv, InspectedInv, JournalInv, RetiredInv
    <3>6. ~Incomplete(l.journal)
      BY <3>4 DEF Incomplete
    <3>7. QED BY <3>1, <3>3, <3>4, <3>5, <3>6
  <2>5. CASE FenceSource
    BY <2>1, <2>3, <2>5 DEF FenceSource, At
  <2>6. CASE RecordRetired \/ RecordCreated
    BY <2>3, <2>6 DEF RecordRetired, RecordCreated, At
  <2>7. QED
    BY <1>1, <2>1, <2>2, <2>4, <2>5, <2>6
    DEF Next, Transfer, vars, StartWatch, EndWatch, TouchSession, Request,
        ReadyTarget, RetireSource, CreateTarget, Interrupt, Die
<1>2. IInv /\ [Next]_vars => [A]_vars
  BY <1>1
<1>3. QED BY <1>2, Invariance, PTL DEF Spec, AuthorityMovesOnce
=============================================================================

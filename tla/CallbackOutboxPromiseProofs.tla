-------------------- MODULE CallbackOutboxPromiseProofs --------------------
(***************************************************************************)
(* Proofs about what CallbackOutbox does to the host, for every number of  *)
(* processes, messages, crashes and retries: what it records of a delivery *)
(* is true, released Turns and answered questions are fenced, and it       *)
(* implements CallbackPromise.                                             *)
(***************************************************************************)
EXTENDS CallbackOutboxProofs, FiniteSetTheorems

\* The messages that are prepared for their lane only once: an asynchronous
\* question that lost its lane is offered again.
Once == Messages \ AsyncQuestions

\* The program counters of a process that holds an attempt.
Carrying == {"announce", "prepared", "transport", "settle"}

\* Attempts are numbered, and each belongs to one process.
IdInv ==
    /\ \A p \in Procs : proc[p].id < nextId
    /\ \A l \in Lanes : outbox[l].id < nextId
    /\ \A p, q \in Procs : proc[p].id # 0 /\ proc[p].id = proc[q].id => p = q
    /\ \A p \in Procs : proc[p].pc \in Writing => proc[p].id = 0

\* What a process knows of the outcome of its attempt, and the lane of it.
ResultInv ==
    \A p \in Procs :
        /\ proc[p].pc \in Writing \cup {"announce", "prepared"} => proc[p].outcome = "none"
        /\ proc[p].pc \in {"transport", "settle"} /\ proc[p].outcome = "accepted"
              => Attempted(p) \in received
        /\ proc[p].pc \in {"transport", "settle"} /\ HoldsClaim(p) =>
              /\ outbox[proc[p].lane].started
              /\ outbox[proc[p].lane].outcome = "accepted" => proc[p].outcome = "accepted"
        /\ proc[p].pc = "settle" => proc[p].outcome # "none"

\* What a lane records of its last attempt.
EvidenceInv ==
    \A l \in Lanes : LET d == outbox[l] IN
        /\ d.status = "delivered" => d.outcome = "accepted"
        /\ d.outcome = "accepted" => d.started /\ <<d.msg, d.id>> \in received
        /\ Unsettled(d) /\ ~d.started => d.outcome = "none"

\* A message that may be with the host is not offered to it again: no lane, no
\* preparation and no failed attempt takes it for undelivered.
ExposedInv ==
    /\ \A l \in Lanes : LET d == outbox[l] IN
          Unsettled(d) /\ (~d.started \/ d.outcome = "retryable_failure")
              => d.msg \notin exposed \cap Once
    /\ \A p \in Procs : proc[p].pc \in Writing => proc[p].msg \notin exposed \cap Once
    /\ \A p \in Procs :
          proc[p].pc = "settle" /\ proc[p].outcome = "retryable_failure" /\ HoldsClaim(p)
              => proc[p].msg \notin exposed \cap Once

\* One transport per message, and the host takes from no other.
TransportInv ==
    /\ \A p \in Procs : proc[p].pc = "transport" /\ proc[p].msg \in Once =>
          /\ proc[p].msg \in exposed
          /\ \A q \in Procs : proc[q].pc = "transport" /\ proc[q].msg = proc[p].msg => p = q
          /\ \A x \in received : x[1] = proc[p].msg => x = Attempted(p)
    /\ \A x \in received : x[1] \in Once =>
          x[1] \in exposed /\ \A y \in received : y[1] = x[1] => y = x

\* Why a message that was exposed is not prepared again: a question and a stall
\* are logged, a completion has released its Turn, and a prompt still on the
\* screen keeps its lane until it is.
OfferInv ==
    /\ exposed \subseteq log
    /\ \A c \in Completions \cap exposed : status \in Released
    /\ \A m \in Blocking \cap exposed :
          Shown(m) => outbox["lifecycle"].msg = m \/ status \in Released
    /\ \A p \in Procs :
          proc[p].pc \in Writing /\ proc[p].lane = "lifecycle" /\ proc[p].msg \notin Completions
              => \A m \in Blocking \cap exposed : ~Shown(m)

\* The life of the prompts, and what an answer fences.
PromptInv ==
    /\ \A m \in Prompts \cap log : prompt[m] # "new"
    /\ \A m, n \in Blocking : Shown(m) /\ Shown(n) => m = n
    /\ \A p \in Procs :
          proc[p].pc \in Writing /\ proc[p].msg \in Prompts => prompt[proc[p].msg] \in {"shown", "gone"}
    /\ \A k \in Kinds : marker[k] # NoMsg => KindOf(marker[k]) = k
    /\ \A l \in Lanes : LET d == outbox[l] IN
          d.msg \in Prompts \ Approvals /\ prompt[d.msg] = "answered" /\ Unsettled(d)
              => d.outcome = "accepted"

\* What a released Turn leaves in its lanes.
ReleasedInv ==
    /\ status = "closed" => \A l \in Lanes : Unsettled(outbox[l]) => outbox[l].outcome = "accepted"
    /\ status = "idle" =>
          /\ Unsettled(outbox["notification"]) => outbox["notification"].outcome = "accepted"
          /\ outbox["lifecycle"].msg \in Ends

DeliveryInv ==
    /\ IdInv /\ ResultInv /\ EvidenceInv /\ ExposedInv /\ TransportInv
    /\ OfferInv /\ PromptInv /\ ReleasedInv

Holds == IInv /\ DeliveryInv

(* --------------------------- helper lemmas --------------------------- *)

\* What the types say of a process and of its lane.
LEMMA Typed ==
    ASSUME TypeOK
    PROVE  /\ proc \in [Procs -> Process] /\ outbox \in [Lanes -> Delivery]
           /\ \A p \in Procs : proc[p] \in Process /\ proc[p].lane \in Lanes
                               /\ proc[p].id \in Nat /\ outbox[proc[p].lane] \in Delivery
           /\ \A l \in Lanes : outbox[l] \in Delivery /\ outbox[l].id \in Nat
           /\ nextId \in Nat \ {0}
  BY ConstantsAssumption DEF TypeOK, Process, Delivery, Ids

\* The lane of a message; a claim is held in it.
LEMMA Claimed ==
    ASSUME IInv, NEW p \in Procs, HoldsClaim(p), proc[p].msg \in Messages
    PROVE  /\ outbox[proc[p].lane].msg = proc[p].msg
           /\ LaneOf(proc[p].msg) = proc[p].lane
           /\ proc[p].msg \in log
           /\ Unsettled(outbox[proc[p].lane])
  BY Typed, ConstantsAssumption DEF IInv, StableInv, LaneInv, HoldsClaim, Unsettled

\* Nobody is inside a preparation while the lock is free.
LEMMA NobodyPrepares ==
    ASSUME IInv, Unlocked
    PROVE  \A p \in Procs : proc[p].pc \notin Locked
  BY ConstantsAssumption DEF IInv, StableInv, LockInv, Unlocked

\* An attempt is held by one process only.
LEMMA OneHolder ==
    ASSUME Holds, NEW p \in Procs, NEW q \in Procs, HoldsClaim(p), HoldsClaim(q),
           proc[p].lane = proc[q].lane, proc[p].id # 0
    PROVE  p = q
  BY DEF Holds, DeliveryInv, IdInv, HoldsClaim

(* ------------------------------ frames ------------------------------- *)

\* Nothing happens to lane l but that it is superseded, settled or no longer leased.
Calm(l) ==
    LET d == outbox[l]  e == outbox'[l] IN
    /\ e.msg = d.msg /\ e.id = d.id /\ e.attempts = d.attempts /\ e.started = d.started
    /\ \/ e.status = d.status /\ e.outcome = d.outcome
       \/ e.status = "superseded" /\ e.outcome = d.outcome
       \/ e.status = "delivered" /\ e.outcome = "accepted"
            /\ d.started /\ <<d.msg, d.id>> \in received

\* A process that moves carries no attempt afterwards.
Aside ==
    \A q \in Procs :
        \/ proc'[q] = proc[q]
        \/ proc'[q].pc \notin Writing \cup Carrying /\ proc'[q].id \in {0, proc[q].id}

\* No prompt that was announced appears.
NoneAppears ==
    \A m \in Prompts : prompt'[m] = "shown" => prompt[m] = "shown" \/ m \notin log

\* What is calm about a step that no preparation and no transport takes.
Quiet ==
    /\ Aside /\ NoneAppears
    /\ \A l \in Lanes : Calm(l)
    /\ UNCHANGED <<log, exposed, received, nextId>>
    /\ status \in Released => status' \in Released

LEMMA QuietLane ==
    ASSUME Quiet, NEW l \in Lanes, Unsettled(outbox'[l])
    PROVE  /\ Unsettled(outbox[l])
           /\ outbox'[l].status = outbox[l].status /\ outbox'[l].outcome = outbox[l].outcome
  BY DEF Quiet, Calm, Unsettled

LEMMA QuietClaim ==
    ASSUME Quiet, TypeOK, NEW p \in Procs, proc'[p] = proc[p], HoldsClaim(p)'
    PROVE  /\ HoldsClaim(p)
           /\ outbox'[proc[p].lane].started = outbox[proc[p].lane].started
           /\ outbox'[proc[p].lane].outcome = outbox[proc[p].lane].outcome
<1>1. proc[p].lane \in Lanes
  BY Typed
<1>2. Unsettled(outbox'[proc[p].lane])
  BY DEF HoldsClaim, Unsettled
<1>3. LET d == outbox[proc[p].lane]  e == outbox'[proc[p].lane]
      IN  e.msg = d.msg /\ e.id = d.id /\ e.attempts = d.attempts /\ e.started = d.started
  BY <1>1 DEF Quiet, Calm
<1>4. /\ outbox'[proc[p].lane].status = outbox[proc[p].lane].status
      /\ outbox'[proc[p].lane].outcome = outbox[proc[p].lane].outcome
  BY <1>1, <1>2, QuietLane
<1> QED
  BY <1>3, <1>4 DEF HoldsClaim

LEMMA QuietStable ==
    ASSUME Holds, TypeOK', Quiet
    PROVE  IdInv' /\ ResultInv' /\ EvidenceInv' /\ ExposedInv' /\ TransportInv' /\ OfferInv'
<1> USE DEF Holds, DeliveryInv
<1>0. TypeOK /\ \A p \in Procs : proc'[p].pc \in Writing \cup Carrying => proc'[p] = proc[p]
  BY DEF IInv, Quiet, Aside
<1>1. IdInv'
  <2>1. \A p \in Procs : proc'[p].id \in {0, proc[p].id}
    BY DEF Quiet, Aside
  <2>2. \A l \in Lanes : outbox'[l].id = outbox[l].id
    BY DEF Quiet, Calm
  <2>3. nextId' = nextId /\ 0 < nextId
    BY <1>0, Typed DEF Quiet
  <2> QED
    BY <1>0, <2>1, <2>2, <2>3 DEF IdInv
<1>2. ResultInv'
  <2> SUFFICES ASSUME NEW p \in Procs, proc'[p].pc \in Writing \cup Carrying
               PROVE  /\ proc'[p].pc \in Writing \cup {"announce", "prepared"} => proc'[p].outcome = "none"
                      /\ proc'[p].pc \in {"transport", "settle"} /\ proc'[p].outcome = "accepted"
                            => Attempted(p)' \in received'
                      /\ proc'[p].pc \in {"transport", "settle"} /\ HoldsClaim(p)' =>
                            /\ outbox'[proc'[p].lane].started
                            /\ outbox'[proc'[p].lane].outcome = "accepted" => proc'[p].outcome = "accepted"
                      /\ proc'[p].pc = "settle" => proc'[p].outcome # "none"
    BY DEF ResultInv, Writing, Carrying
  <2>1. proc'[p] = proc[p] /\ received' = received
    BY <1>0 DEF Quiet
  <2>2. HoldsClaim(p)' => /\ HoldsClaim(p)
                          /\ outbox'[proc[p].lane].started = outbox[proc[p].lane].started
                          /\ outbox'[proc[p].lane].outcome = outbox[proc[p].lane].outcome
    BY <1>0, <2>1, QuietClaim
  <2> QED
    BY <2>1, <2>2 DEF ResultInv, Attempted
<1>3. EvidenceInv'
  <2> SUFFICES ASSUME NEW l \in Lanes
               PROVE  LET d == outbox'[l] IN
                      /\ d.status = "delivered" => d.outcome = "accepted"
                      /\ d.outcome = "accepted" => d.started /\ <<d.msg, d.id>> \in received'
                      /\ Unsettled(d) /\ ~d.started => d.outcome = "none"
    BY DEF EvidenceInv, Unsettled
  <2>1. LET d == outbox[l]  e == outbox'[l] IN
          /\ e.msg = d.msg /\ e.id = d.id /\ e.started = d.started
          /\ \/ e.status = d.status /\ e.outcome = d.outcome
             \/ e.status = "superseded" /\ e.outcome = d.outcome
             \/ e.status = "delivered" /\ e.outcome = "accepted"
                  /\ d.started /\ <<d.msg, d.id>> \in received
    BY DEF Quiet, Calm
  <2>2. received' = received
    BY DEF Quiet
  <2>3. Unsettled(outbox'[l]) => Unsettled(outbox[l]) /\ outbox'[l].outcome = outbox[l].outcome
    BY QuietLane
  <2>4. LET d == outbox[l] IN
          /\ d.status = "delivered" => d.outcome = "accepted"
          /\ d.outcome = "accepted" => d.started /\ <<d.msg, d.id>> \in received
          /\ Unsettled(d) /\ ~d.started => d.outcome = "none"
    BY DEF EvidenceInv
  <2> QED
    BY <2>1, <2>2, <2>3, <2>4, SMTT(30)
<1>4. ExposedInv'
  <2>1. ASSUME NEW l \in Lanes, Unsettled(outbox'[l]),
               ~outbox'[l].started \/ outbox'[l].outcome = "retryable_failure"
        PROVE  outbox'[l].msg \notin exposed' \cap Once
    BY <2>1, QuietLane DEF ExposedInv, Quiet, Calm
  <2>2. ASSUME NEW p \in Procs, proc'[p].pc \in Writing
        PROVE  proc'[p].msg \notin exposed' \cap Once
    BY <1>0, <2>2 DEF ExposedInv, Quiet
  <2>3. ASSUME NEW p \in Procs, proc'[p].pc = "settle", proc'[p].outcome = "retryable_failure",
               HoldsClaim(p)'
        PROVE  proc'[p].msg \notin exposed' \cap Once
    <3>1. proc'[p] = proc[p]
      BY <1>0, <2>3 DEF Carrying
    <3>2. HoldsClaim(p)
      BY <1>0, <2>3, <3>1, QuietClaim
    <3> QED
      BY <2>3, <3>1, <3>2 DEF ExposedInv, Quiet
  <2> QED
    BY <2>1, <2>2, <2>3 DEF ExposedInv, Unsettled
<1>5. TransportInv'
  BY <1>0 DEF TransportInv, Quiet, Carrying, Attempted
<1>6. OfferInv'
  <2>1. exposed' = exposed /\ log' = log /\ outbox'["lifecycle"].msg = outbox["lifecycle"].msg
    BY DEF Quiet, Calm, Lanes
  <2>2. \A m \in Blocking \cap exposed : Shown(m)' => Shown(m)
    BY DEF Quiet, NoneAppears, OfferInv, Shown, Prompts, Blocking
  <2> QED
    BY <1>0, <2>1, <2>2 DEF OfferInv, Quiet
<1> QED
  BY <1>1, <1>2, <1>3, <1>4, <1>5, <1>6

\* Prompts that stay as they are.
LEMMA QuietPrompts ==
    ASSUME Holds, TypeOK', Quiet, UNCHANGED <<prompt, marker>>
    PROVE  PromptInv'
<1> USE DEF Holds, DeliveryInv
<1>0. \A p \in Procs : proc'[p].pc \in Writing => proc'[p] = proc[p]
  BY DEF Quiet, Aside
<1>1. ASSUME NEW l \in Lanes, Unsettled(outbox'[l]),
             outbox'[l].msg \in Prompts \ Approvals, prompt[outbox'[l].msg] = "answered"
      PROVE  outbox'[l].outcome = "accepted"
  <2>1. Unsettled(outbox[l]) /\ outbox'[l].outcome = outbox[l].outcome
    BY <1>1, QuietLane
  <2>2. outbox'[l].msg = outbox[l].msg
    BY DEF Quiet, Calm
  <2> QED
    BY <1>1, <2>1, <2>2 DEF PromptInv
<1> QED
  BY <1>0, <1>1 DEF PromptInv, Quiet, Shown, Unsettled

\* A Turn whose status stays.
LEMMA QuietStatus ==
    ASSUME Holds, Quiet, status' = status
    PROVE  ReleasedInv'
<1>1. \A l \in Lanes : Unsettled(outbox'[l]) => Unsettled(outbox[l]) /\ outbox'[l].outcome = outbox[l].outcome
  BY QuietLane
<1>2. "lifecycle" \in Lanes /\ "notification" \in Lanes
  BY DEF Lanes
<1> QED
  BY <1>1, <1>2 DEF Holds, DeliveryInv, ReleasedInv, Quiet, Calm, Unsettled

(* --------------------------- preparations ---------------------------- *)

\* What a process finds out before it prepares message m.
Prepares(p, m) ==
    /\ Starts(p, m)
    /\ m \notin exposed \cap Once
    /\ m \in Prompts => Shown(m)
    /\ LaneOf(m) = "lifecycle" /\ m \notin Completions
          => \A b \in Blocking \cap exposed : ~Shown(b)
    /\ UNCHANGED <<prompt, nextId, received, exposed>>
    /\ \A k \in Kinds : marker'[k] = marker[k] \/ (marker'[k] = m /\ KindOf(m) = k)

\* A stall that is only announced.
Announces(p) ==
    /\ p \in FreeProcs /\ Unlocked
    /\ proc' = [proc EXCEPT ![p].pc = "announce"]
    /\ UNCHANGED <<outbox, log, prompt, nextId, received, exposed, marker>>
    /\ status \notin Released /\ status' \notin Released

LEMMA PreparesOnce ==
    ASSUME Holds, NEW p \in Procs, Prepare(p)
    PROVE  Announces(p) \/ \E m \in Messages : Prepares(p, m)
<1> USE DEF Holds, DeliveryInv
<1>0. /\ TypeOK /\ exposed \subseteq log /\ LaneInv
      /\ Blocking \subseteq Prompts /\ Prompts \subseteq Messages
      /\ \A m \in Blocking : m \in Once /\ LaneOf(m) = "lifecycle" /\ m \notin Completions
      /\ \A b, c \in Blocking : Shown(b) /\ Shown(c) => b = c
      /\ Calls \cup Completions \cup Stalls \subseteq Messages
  BY ConstantsAssumption
  DEF IInv, StableInv, OfferInv, PromptInv, Blocking, Prompts, Messages, Once, LaneOf, Calls
<1> DEFINE New(m) == outbox[LaneOf(m)].msg # m
<1>a. /\ \A m \in Messages \ log : New(m)
      /\ status \notin Released => \A c \in Completions : New(c)
  BY <1>0, Lane, ConstantsAssumption DEF LaneInv, Ends
<1>1. ASSUME NEW q \in Calls, AcceptCallback(p, q) PROVE Prepares(p, q)
  <2>1. Starts(p, q)
    <3>1. q \in Messages /\ New(q) /\ q \notin Completions
      BY <1>0, <1>a, <1>1, ConstantsAssumption DEF AcceptCallback, Calls
    <3> QED
      BY <1>1, <3>1 DEF Starts, AcceptCallback, turn
  <2>2. q \notin exposed /\ q \notin Prompts /\ \A b \in Blocking : ~Shown(b)
    BY <1>0, <1>1, ConstantsAssumption DEF AcceptCallback
  <2> QED
    BY <1>1, <2>1, <2>2 DEF Prepares, AcceptCallback, turn, host
<1>2. ASSUME NEW m \in Prompts, RecordPrompt(p, m) PROVE Prepares(p, m)
  <2>1. Starts(p, m)
    <3>1. m \in Messages /\ New(m) /\ m \notin Completions
      BY <1>0, <1>a, <1>2, ConstantsAssumption DEF RecordPrompt
    <3> QED
      BY <1>2, <3>1 DEF Starts, RecordPrompt, Released
  <2>2. m \notin log /\ Shown(m)
    BY <1>2 DEF RecordPrompt
  <2>3. m \notin exposed /\ (LaneOf(m) = "lifecycle" => m \in Blocking)
    BY <1>0, <2>2 DEF LaneOf, Prompts, Blocking
  <2>4. LaneOf(m) = "lifecycle" => \A b \in Blocking \cap exposed : ~Shown(b)
    BY <1>0, <2>2, <2>3
  <2>5. \A k \in Kinds : marker'[k] = marker[k] \/ (marker'[k] = m /\ KindOf(m) = k)
    BY <1>0, <1>2 DEF RecordPrompt, TypeOK
  <2> QED
    BY <1>2, <2>1, <2>2, <2>3, <2>4, <2>5 DEF Prepares, RecordPrompt, host
<1>3. ASSUME NEW k \in Kinds, RecoverPrompt(p, k) PROVE \E m \in Messages : Prepares(p, m)
  <2>0. PICK m : m = marker[k]
    OBVIOUS
  <2>1. /\ m \in Prompts /\ Shown(m) /\ outbox[LaneOf(m)].msg # m /\ status \notin Released
    BY <1>0, <1>3, <2>0 DEF RecoverPrompt, TypeOK, Released
  <2>2. Starts(p, m)
    BY <1>0, <1>3, <2>0, <2>1, ConstantsAssumption
    DEF Starts, RecoverPrompt, turn, host, bounds, Messages
  <2>3. m \in Once => m \in Blocking
    BY <2>1 DEF Once, Prompts, Blocking
  <2>4. m \notin exposed \cap Once
    BY <1>0, <2>1, <2>3 DEF OfferInv
  <2>5. LaneOf(m) = "lifecycle" => m \in Blocking
    BY <2>1 DEF LaneOf, Prompts, Blocking
  <2>6. LaneOf(m) = "lifecycle" => \A b \in Blocking \cap exposed : ~Shown(b)
    BY <1>0, <2>1, <2>4, <2>5
  <2>7. Prepares(p, m)
    BY <1>3, <2>0, <2>1, <2>2, <2>4, <2>6 DEF Prepares, RecoverPrompt, turn, host
  <2> QED
    BY <1>0, <2>1, <2>7
<1>4. ASSUME NEW c \in Completions, ClaimCompletion(p, c) PROVE Prepares(p, c)
  <2>1. Starts(p, c)
    <3>1. c \in Messages /\ New(c)
      BY <1>0, <1>a, <1>4 DEF ClaimCompletion
    <3> QED
      BY <1>4, <3>1 DEF Starts, ClaimCompletion
  <2>2. c \notin exposed /\ c \notin Prompts
    BY <1>4, ConstantsAssumption DEF ClaimCompletion, OfferInv
  <2> QED
    BY <1>4, <2>1, <2>2 DEF Prepares, ClaimCompletion, host
<1>5. ASSUME NEW s \in Stalls, NotifyStall(p, s) PROVE Prepares(p, s)
  <2>1. Starts(p, s)
    <3>1. s \in Messages /\ New(s) /\ s \notin Completions
      BY <1>0, <1>a, <1>5, ConstantsAssumption DEF NotifyStall
    <3> QED
      BY <1>5, <3>1 DEF Starts, NotifyStall, turn, Released
  <2>2. s \notin exposed /\ s \notin Prompts /\ LaneOf(s) = "notification"
    BY <1>0, <1>5, ConstantsAssumption DEF NotifyStall, LaneOf
  <2> QED
    BY <1>5, <2>1, <2>2 DEF Prepares, NotifyStall, turn, host
<1>6. ASSUME StallQuietly(p) \/ \E s \in Stalls : StallDuplicate(p, s) PROVE Announces(p)
  BY <1>6 DEF Announces, StallQuietly, StallDuplicate, Goto, turn, host, Released
<1> QED
  BY <1>0, <1>1, <1>2, <1>3, <1>4, <1>5, <1>6 DEF Prepare, Messages

LEMMA PreparesStable ==
    ASSUME Holds, TypeOK', NEW p \in Procs, NEW m \in Messages, Prepares(p, m)
    PROVE  DeliveryInv'
<1> USE DEF Holds, DeliveryInv
<1>1. /\ p \in FreeProcs /\ StartPreparing(p, m) /\ Unlocked /\ TypeOK
      /\ UNCHANGED <<status, outbox, log, prompt, nextId, received, exposed>>
      /\ status \notin Released
      /\ m \notin exposed \cap Once
      /\ m \in Prompts => Shown(m)
      /\ LaneOf(m) = "lifecycle" /\ m \notin Completions
            => \A b \in Blocking \cap exposed : ~Shown(b)
      /\ \A k \in Kinds : marker'[k] = marker[k] \/ (marker'[k] = m /\ KindOf(m) = k)
  BY DEF Prepares, Starts, IInv
<1>2. /\ proc'[p].pc \in Writing /\ proc'[p].lane = LaneOf(m) /\ proc'[p].msg = m
      /\ proc'[p].id = 0 /\ proc'[p].outcome = "none"
      /\ \A q \in Procs \ {p} :
            proc'[q] = proc[q] \/ (proc'[q].pc = "sleep" /\ proc'[q].id = 0)
  <2>1. \A l \in Lanes : Monitor(l).pc = "sleep" /\ Monitor(l).id = 0
    BY DEF Idle, Monitor
  <2>2. LET r == [Idle EXCEPT !.pc = NextWrite(m), !.lane = LaneOf(m), !.msg = m]
        IN  /\ r.pc = NextWrite(m) /\ r.lane = LaneOf(m) /\ r.msg = m
            /\ r.id = 0 /\ r.outcome = "none"
    BY DEF Idle
  <2>3. NextWrite(m) \in Writing
    BY DEF NextWrite, Writing
  <2>4. /\ proc'[p] = [Idle EXCEPT !.pc = NextWrite(m), !.lane = LaneOf(m), !.msg = m]
        /\ \A q \in Procs \ {p} :
              proc'[q] = proc[q] \/ (proc[q] = Idle /\ \E l \in Lanes : proc'[q] = Monitor(l))
    BY <1>1, StartEffect
  <2> QED
    BY <2>1, <2>2, <2>3, <2>4
<1>3. /\ \A q \in Procs : proc'[q].pc \in Writing => q = p
      /\ \A q \in Procs : proc'[q].pc \in {"transport", "settle", "announce", "prepared"}
            => q # p /\ proc'[q] = proc[q]
  BY <1>1, <1>2, NobodyPrepares DEF Locked, Writing
<1>4. IdInv'
  <2>1. 0 < nextId
    BY <1>1, Typed
  <2>2. \A q \in Procs : proc'[q].id \in {0, proc[q].id}
    BY <1>2
  <2> QED
    BY <1>1, <1>2, <1>3, <2>1, <2>2 DEF IdInv
<1>5. ResultInv'
  BY <1>1, <1>2, <1>3 DEF ResultInv, Writing, HoldsClaim, Attempted
<1>6. EvidenceInv' /\ ReleasedInv'
  BY <1>1 DEF EvidenceInv, ReleasedInv, Unsettled
<1>7. ExposedInv'
  BY <1>1, <1>2, <1>3 DEF ExposedInv, HoldsClaim, Unsettled
<1>8. TransportInv'
  BY <1>1, <1>3 DEF TransportInv, Attempted
<1>9. OfferInv'
  BY <1>1, <1>2, <1>3 DEF OfferInv, Shown
<1>10. PromptInv'
  <2>1. \A k \in Kinds : marker'[k] # NoMsg => KindOf(marker'[k]) = k
    BY <1>1 DEF PromptInv
  <2>2. \A q \in Procs :
          proc'[q].pc \in Writing /\ proc'[q].msg \in Prompts => prompt'[proc'[q].msg] \in {"shown", "gone"}
    BY <1>1, <1>2, <1>3 DEF Shown
  <2> QED
    BY <1>1, <2>1, <2>2 DEF PromptInv, Shown, Unsettled
<1> QED
  BY <1>4, <1>5, <1>6, <1>7, <1>8, <1>9, <1>10

LEMMA AnnouncesStable ==
    ASSUME Holds, TypeOK', NEW p \in Procs, Announces(p)
    PROVE  DeliveryInv'
<1> USE DEF Holds, DeliveryInv
<1>1. /\ p \in FreeProcs /\ TypeOK
      /\ UNCHANGED <<outbox, log, prompt, nextId, received, exposed, marker>>
      /\ status \notin Released /\ status' \notin Released
  BY DEF Announces, IInv
<1>2. /\ proc'[p].pc = "announce" /\ proc'[p].id = 0 /\ proc'[p].outcome = "none"
      /\ \A q \in Procs \ {p} : proc'[q] = proc[q]
  BY <1>1, Typed DEF Announces, FreeProcs, Idle
<1>3. IdInv'
  <2>1. 0 < nextId
    BY <1>1, Typed
  <2> QED
    BY <1>1, <1>2, <2>1 DEF IdInv, Writing
<1>4. ResultInv'
  BY <1>1, <1>2 DEF ResultInv, Writing, HoldsClaim, Attempted
<1>5. EvidenceInv' /\ ReleasedInv'
  BY <1>1 DEF EvidenceInv, ReleasedInv, Unsettled, Released
<1>6. ExposedInv' /\ TransportInv'
  BY <1>1, <1>2 DEF ExposedInv, TransportInv, HoldsClaim, Unsettled, Attempted, Writing
<1>7. OfferInv' /\ PromptInv'
  <2>1. \A q \in Procs : proc'[q].pc \in Writing => proc'[q] = proc[q]
    BY <1>2 DEF Writing
  <2> QED
    BY <1>1, <2>1 DEF OfferInv, PromptInv, Shown, Unsettled
<1> QED
  BY <1>3, <1>4, <1>5, <1>6, <1>7

(* --------------------- steps that expose nothing --------------------- *)

\* What a step that exposes, logs and offers nothing leaves to be shown.
Still == UNCHANGED <<log, exposed, received>> /\ (status = "closed" => status' = "closed")

\* Processes that move without an attempt, and those that give theirs up.
LEMMA AsideStep ==
    ASSUME Holds, TypeOK', NEW p \in Procs,
           \/ LoseClaim(p) \/ SettleSkipped(p) \/ ObserveAccepted(p) \/ ObserveRetryable(p)
           \/ ObserveNothing(p) \/ RejectRetry(p) \/ Recheck(p) \/ Crash(p)
           \/ \E l \in Lanes : ManualRetry(p, l) \/ ReconcileRetryable(l)
    PROVE  Quiet /\ Still /\ UNCHANGED <<outbox, prompt, marker, status>>
<1> USE DEF Holds
<1>0. TypeOK
  BY DEF IInv
<1>1. UNCHANGED <<outbox, log, exposed, received, nextId, prompt, marker, status>>
  BY DEF LoseClaim, SettleSkipped, ObserveAccepted, ObserveRetryable, ObserveNothing,
         RejectRetry, Recheck, Crash, ManualRetry, ReconcileRetryable, turn, host
<1>2. Aside
  <2> DEFINE Moved(r, q) == r.pc \notin Writing \cup Carrying /\ r.id \in {0, proc[q].id}
  <2>1. Idle.pc = "free" /\ Idle.id = 0 /\ \A l \in Lanes : Monitor(l).pc = "sleep" /\ Monitor(l).id = 0
    BY DEF Idle, Monitor
  <2>2. ASSUME NEW q \in Procs, NEW r, proc' = [proc EXCEPT ![q] = r], Moved(r, q)
        PROVE  Aside
    BY <1>0, <2>2, Typed DEF Aside
  <2> HIDE DEF Aside
  <2>3. Moved(Idle, p) /\ \A l \in Lanes, q \in Procs : Moved(Monitor(l), q)
    BY <2>1 DEF Writing, Carrying
  <2>4. Moved([proc[p] EXCEPT !.pc = "recheck"], p)
    BY <1>0, Typed DEF Process, Writing, Carrying
  <2>5. proc[p].lane \in Lanes
    BY <1>0, Typed
  <2>6. CASE LoseClaim(p) \/ ObserveNothing(p) \/ Crash(p)
    BY <2>2, <2>3, <2>6 DEF LoseClaim, ObserveNothing, Crash, Exit
  <2>7. CASE SettleSkipped(p) \/ RejectRetry(p)
    BY <2>2, <2>3, <2>4, <2>7 DEF SettleSkipped, RejectRetry, AfterFailure
  <2>8. CASE ObserveAccepted(p)
    <3> DEFINE r == [proc[p] EXCEPT !.pc = "accept", !.msg = outbox[proc[p].lane].msg]
    <3>1. Moved(r, p)
      BY <1>0, Typed DEF Process, Writing, Carrying
    <3> QED
      <4>1. proc' = [proc EXCEPT ![p] = r]
        BY <2>8 DEF ObserveAccepted
      <4> HIDE DEF r, Moved
      <4> QED
        BY <2>2, <3>1, <4>1
  <2>9. CASE ObserveRetryable(p)
    <3> DEFINE d == outbox[proc[p].lane]
               r == [Monitor(proc[p].lane) EXCEPT !.pc = "retry", !.msg = d.msg, !.seen = d.attempts]
    <3>1. Moved(r, p)
      BY DEF Monitor, Idle, Writing, Carrying
    <3> QED
      BY <2>2, <2>9, <3>1 DEF ObserveRetryable
  <2>10. CASE Recheck(p)
    <3> DEFINE d == outbox[proc[p].lane]
               r == [Monitor(proc[p].lane) EXCEPT !.pc = "accept", !.msg = d.msg]
    <3>1. Moved(r, p)
      BY DEF Monitor, Idle, Writing, Carrying
    <3>2. \E x \in {r, Monitor(proc[p].lane), Idle} : proc' = [proc EXCEPT ![p] = x]
      BY <2>10 DEF Recheck
    <3> QED
      BY <2>2, <2>3, <2>5, <3>1, <3>2
  <2>11. ASSUME NEW l \in Lanes, ManualRetry(p, l)
         PROVE  Aside
    <3>1. PICK pc \in {"accept", "retry"} :
            proc' = [proc EXCEPT ![p] = [Idle EXCEPT !.pc = pc, !.lane = l, !.msg = outbox[l].msg]]
      BY <2>11 DEF ManualRetry
    <3> DEFINE r == [Idle EXCEPT !.pc = pc, !.lane = l, !.msg = outbox[l].msg]
    <3>2. Moved(r, p)
      BY DEF Idle, Writing, Carrying
    <3> QED
      BY <2>2, <3>1, <3>2
  <2>12. ASSUME NEW l \in Lanes, ReconcileRetryable(l)
         PROVE  Aside
    BY <2>2, <2>3, <2>12 DEF ReconcileRetryable, FreeProcs
  <2> QED
    BY <2>6, <2>7, <2>8, <2>9, <2>10, <2>11, <2>12
<1>3. \A l \in Lanes : Calm(l)
  BY <1>1 DEF Calm
<1> QED
  BY <1>1, <1>2, <1>3 DEF Quiet, Still, NoneAppears

\* The world and the user: each effect of a command on the lanes.
LEMMA CalmSuperseded ==
    ASSUME TypeOK, NEW l \in Lanes, outbox'[l] \in {outbox[l], Superseded(outbox[l])}
    PROVE  Calm(l)
<1>1. LET d == outbox[l]  e == Superseded(d)
      IN  /\ e.msg = d.msg /\ e.id = d.id /\ e.attempts = d.attempts /\ e.started = d.started
          /\ e.outcome = d.outcome /\ e.status \in {d.status, "superseded"}
  BY Typed DEF Superseded, Delivery
<1> QED
  BY <1>1 DEF Calm

\* A lane after Superseded is settled, or proven accepted.
LEMMA SupersededSettles ==
    ASSUME TypeOK, NEW l \in Lanes, outbox'[l] = Superseded(outbox[l])
    PROVE  Unsettled(outbox'[l]) => outbox'[l].outcome = "accepted"
  BY Typed DEF Superseded, Delivery, Unsettled

LEMMA EnvironmentQuiet ==
    ASSUME Holds, TypeOK', Environment
    PROVE  /\ Quiet /\ Still /\ proc' = proc
           /\ \A l \in Lanes : outbox'[l] \in {outbox[l], Superseded(outbox[l])}
<1> USE DEF Holds, DeliveryInv
<1>0. TypeOK /\ proc' = proc /\ UNCHANGED <<log, exposed, received, nextId>>
  BY DEF IInv, Environment, Show, Vanish, ResolveApproval, ResolveInteraction, Renew, Close, turn, host, bounds
<1>1. \A l \in Lanes : outbox'[l] \in {outbox[l], Superseded(outbox[l])}
  BY <1>0, Typed, Lane DEF Environment, Show, Vanish, ResolveApproval, ResolveInteraction, Renew, Close
<1>2. /\ status = "closed" => status' = "closed"
      /\ status \in Released => status' \in Released
  BY DEF Environment, Show, Vanish, ResolveApproval, ResolveInteraction, Renew, Close, turn, Released
<1>3. NoneAppears
  <2>1. ASSUME NEW m \in Prompts, Show(m)
        PROVE  NoneAppears
    BY <1>0, <2>1 DEF Show, NoneAppears, PromptInv, TypeOK
  <2>2. CASE \A m \in Prompts : prompt'[m] = "shown" => prompt[m] = "shown"
    BY <2>2 DEF NoneAppears
  <2>3. ASSUME NEW m \in Prompts, Vanish(m)
        PROVE  NoneAppears
    BY <1>0, <2>2, <2>3 DEF Vanish, TypeOK
  <2>4. CASE ResolveApproval \/ ResolveInteraction \/ Renew \/ Close
    BY <1>0, <2>2, <2>4 DEF ResolveApproval, ResolveInteraction, Renew, Close, TypeOK
  <2> QED
    BY <2>1, <2>3, <2>4 DEF Environment
<1> QED
  BY <1>0, <1>1, <1>2, <1>3, CalmSuperseded DEF Quiet, Still, Aside

LEMMA EnvironmentStable ==
    ASSUME Holds, TypeOK', Environment
    PROVE  DeliveryInv'
<1> USE DEF Holds, DeliveryInv
<1>0. /\ Quiet /\ TypeOK /\ StableInv /\ proc' = proc /\ log' = log
      /\ \A l \in Lanes : outbox'[l] \in {outbox[l], Superseded(outbox[l])}
  BY EnvironmentQuiet DEF IInv, Still
<1>1. IdInv' /\ ResultInv' /\ EvidenceInv' /\ ExposedInv' /\ TransportInv' /\ OfferInv'
  BY <1>0, QuietStable
<1>2. \A l \in Lanes : outbox'[l].msg = outbox[l].msg
  BY <1>0 DEF Quiet, Calm
\* A step that answers question n, if any, and shows no prompt but a new one.
<1> DEFINE Answers(n) ==
             \A m \in Prompts :
                /\ prompt'[m] # "new" \/ prompt[m] = "new"
                /\ prompt'[m] = "answered" => prompt[m] = "answered" \/ m = n
                /\ m # n /\ prompt[m] \in {"shown", "gone"} => prompt'[m] \in {"shown", "gone"}
<1>3. ASSUME NEW n, Answers(n), n # NoMsg => Unlocked,
             \A b, c \in Blocking : Shown(b)' /\ Shown(c)' => b = c,
             \A k \in Kinds : marker'[k] \in {marker[k], NoMsg},
             n \in Prompts \ Approvals /\ outbox[LaneOf(n)].msg = n
                => outbox'[LaneOf(n)] = Superseded(outbox[LaneOf(n)]),
             n \in Prompts \cup {NoMsg}
      PROVE  PromptInv'
  <2>1. \A m \in Prompts \cap log' : prompt'[m] # "new"
    BY <1>0, <1>3 DEF PromptInv
  <2>2. ASSUME NEW p \in Procs, proc'[p].pc \in Writing, proc'[p].msg \in Prompts
        PROVE  prompt'[proc'[p].msg] \in {"shown", "gone"}
    <3>1. n = NoMsg
      BY <1>0, <1>3, <2>2, NobodyPrepares DEF Writing, Locked, IInv
    <3>2. proc[p].msg # n
      BY <1>0, <2>2, <3>1, ConstantsAssumption DEF Messages
    <3> QED
      BY <1>0, <1>3, <2>2, <3>2 DEF PromptInv
  <2>3. \A k \in Kinds : marker'[k] # NoMsg => KindOf(marker'[k]) = k
    BY <1>3 DEF PromptInv
  <2>4. ASSUME NEW l \in Lanes, Unsettled(outbox'[l]),
               outbox'[l].msg \in Prompts \ Approvals, prompt'[outbox'[l].msg] = "answered"
        PROVE  outbox'[l].outcome = "accepted"
    <3>1. CASE outbox'[l].msg = n
      <4>1. LaneOf(n) = l /\ outbox[l].msg = n
        BY <1>0, <1>2, <2>4, <3>1, ConstantsAssumption DEF StableInv, LaneInv, Messages
      <4>2. outbox'[l] = Superseded(outbox[l])
        BY <1>3, <2>4, <3>1, <4>1
      <4> QED
        BY <1>0, <2>4, <4>2, SupersededSettles
    <3>2. CASE outbox'[l].msg # n
      <4>1. Unsettled(outbox[l]) /\ outbox'[l].outcome = outbox[l].outcome
        BY <1>0, <2>4, QuietLane
      <4>2. prompt[outbox[l].msg] = "answered"
        BY <1>2, <1>3, <2>4, <3>2
      <4> QED
        BY <1>2, <2>4, <4>1, <4>2 DEF PromptInv
    <3> QED
      BY <3>1, <3>2
  <2> QED
    BY <1>3, <2>1, <2>2, <2>3, <2>4 DEF PromptInv, Unsettled
<1> HIDE DEF Answers
<1>4. NoMsg \notin Prompts /\ \A b, c \in Blocking : Shown(b) /\ Shown(c) => b = c
  BY ConstantsAssumption DEF PromptInv, Messages
<1>5. PromptInv'
  <2>1. ASSUME NEW m \in Prompts, Show(m)
        PROVE  PromptInv'
    <3>1. marker' = marker /\ prompt' = [prompt EXCEPT ![m] = "shown"] /\ prompt[m] = "new"
      BY <2>1 DEF Show, turn
    <3>2. \A x \in Prompts \ {m} : prompt'[x] = prompt[x]
      BY <1>0, <3>1 DEF TypeOK
    <3>3. prompt'[m] = "shown"
      BY <1>0, <3>1 DEF TypeOK
    <3>4. Answers(NoMsg)
      BY <1>4, <3>1, <3>2, <3>3 DEF Answers
    <3>5. \A b, c \in Blocking : Shown(b)' /\ Shown(c)' => b = c
      BY <1>4, <2>1, <3>2 DEF Show, Shown, Blocking, Prompts
    <3> QED
      BY <1>3, <1>4, <3>1, <3>4, <3>5
  <2>2. ASSUME NEW m \in Prompts, Vanish(m)
        PROVE  PromptInv'
    <3>1. marker' = marker /\ prompt' = [prompt EXCEPT ![m] = "gone"] /\ prompt[m] = "shown"
      BY <2>2 DEF Vanish, Shown, turn
    <3>2. prompt'[m] = "gone" /\ \A x \in Prompts \ {m} : prompt'[x] = prompt[x]
      BY <1>0, <3>1 DEF TypeOK
    <3>4. Answers(NoMsg)
      BY <1>4, <3>1, <3>2 DEF Answers
    <3>5. \A b, c \in Blocking : Shown(b)' /\ Shown(c)' => b = c
      BY <1>4, <3>2 DEF Shown, Blocking, Prompts
    <3> QED
      BY <1>3, <1>4, <3>1, <3>4, <3>5
  <2>3. CASE ResolveApproval
    <3>0. PICK m : m = marker["approval"]
      OBVIOUS
    <3>1. /\ prompt' = [prompt EXCEPT ![m] = "answered"] /\ Unlocked /\ m # NoMsg
          /\ marker' = [marker EXCEPT !["approval"] = NoMsg]
      BY <2>3, <3>0 DEF ResolveApproval
    <3>2. m \in Prompts /\ m \in Approvals
      BY <1>0, <3>0, <3>1 DEF TypeOK, PromptInv, Kinds, KindOf
    <3>3. prompt'[m] = "answered" /\ \A x \in Prompts \ {m} : prompt'[x] = prompt[x]
      BY <1>0, <3>1, <3>2 DEF TypeOK
    <3>4. Answers(m)
      BY <3>3 DEF Answers
    <3>5. \A b, c \in Blocking : Shown(b)' /\ Shown(c)' => b = c
      BY <1>4, <3>3 DEF Shown, Blocking, Prompts
    <3>6. \A k \in Kinds : marker'[k] \in {marker[k], NoMsg}
      BY <1>0, <3>1 DEF TypeOK
    <3> QED
      BY <1>3, <3>1, <3>2, <3>4, <3>5, <3>6
  <2>4. CASE ResolveInteraction
    <3>0. PICK m : m = marker["interaction"]
      OBVIOUS
    <3>1. /\ prompt' = [prompt EXCEPT ![m] = "answered"] /\ Unlocked /\ m # NoMsg
          /\ marker' = [marker EXCEPT !["interaction"] = NoMsg]
      BY <2>4, <3>0 DEF ResolveInteraction
    <3>2. m \in Prompts
      BY <1>0, <3>0, <3>1 DEF TypeOK, Kinds
    <3>3. prompt'[m] = "answered" /\ \A x \in Prompts \ {m} : prompt'[x] = prompt[x]
      BY <1>0, <3>1, <3>2 DEF TypeOK
    <3>4. Answers(m)
      BY <3>3 DEF Answers
    <3>5. \A b, c \in Blocking : Shown(b)' /\ Shown(c)' => b = c
      BY <1>4, <3>3 DEF Shown, Blocking, Prompts
    <3>6. \A k \in Kinds : marker'[k] \in {marker[k], NoMsg}
      BY <1>0, <3>1 DEF TypeOK
    <3>7. outbox[LaneOf(m)].msg = m => outbox'[LaneOf(m)] = Superseded(outbox[LaneOf(m)])
      BY <1>0, <2>4, <3>0, Typed, Lane DEF ResolveInteraction
    <3> QED
      BY <1>3, <3>1, <3>2, <3>4, <3>5, <3>6, <3>7
  <2>5. CASE Renew \/ Close
    <3>1. UNCHANGED <<prompt, marker>>
      BY <2>5 DEF Renew, Close
    <3> QED
      BY <1>0, <3>1, QuietPrompts
  <2> QED
    BY <2>1, <2>2, <2>3, <2>4, <2>5 DEF Environment
<1>6. ReleasedInv'
  <2>1. CASE status' = status
    BY <1>0, <2>1, QuietStatus
  <2>2. CASE status' = "waiting_for_agent"
    BY <2>2 DEF ReleasedInv
  <2>3. CASE Close
    <3>1. status' = "closed" /\ \A l \in Lanes : outbox'[l] = Superseded(outbox[l])
      BY <2>3 DEF Close
    <3>2. \A l \in Lanes : Unsettled(outbox'[l]) => outbox'[l].outcome = "accepted"
      BY <1>0, <3>1, SupersededSettles
    <3> QED
      BY <3>1, <3>2 DEF ReleasedInv, Unsettled
  <2> QED
    BY <2>1, <2>2, <2>3
    DEF Environment, Show, Vanish, ResolveApproval, ResolveInteraction, Renew, turn
<1> QED
  BY <1>1, <1>5, <1>6

LEMMA LeaseQuiet ==
    ASSUME Holds, NEW l \in Lanes, LeaseExpires(l)
    PROVE  /\ Quiet /\ Still /\ UNCHANGED <<prompt, marker, status>>
           /\ \A k \in Lanes : outbox'[k].status = outbox[k].status /\ outbox'[k].msg = outbox[k].msg
<1>1. TypeOK /\ UNCHANGED <<log, exposed, received, nextId, prompt, marker, status, proc>>
  BY DEF LeaseExpires, turn, host, Holds, IInv
<1>2. LET d == outbox[l]  e == [d EXCEPT !.lease = FALSE]
      IN  /\ e.msg = d.msg /\ e.id = d.id /\ e.attempts = d.attempts /\ e.started = d.started
          /\ e.status = d.status /\ e.outcome = d.outcome
  BY <1>1, Typed DEF Delivery
<1>3. \A k \in Lanes : outbox'[k] = IF k = l THEN [outbox[k] EXCEPT !.lease = FALSE] ELSE outbox[k]
  BY <1>1, Typed DEF LeaseExpires
<1>4. \A k \in Lanes : /\ Calm(k)
                       /\ outbox'[k].status = outbox[k].status /\ outbox'[k].msg = outbox[k].msg
  BY <1>2, <1>3 DEF Calm
<1> QED
  BY <1>1, <1>4 DEF Quiet, Still, Aside, NoneAppears

(* --------------------------- a lane settles --------------------------- *)

\* A pending attempt the host took in is recorded as delivered.
Acknowledges(l) ==
    /\ outbox[l].status = "pending"
    /\ <<outbox[l].msg, outbox[l].id>> \in received
    /\ outbox' = [outbox EXCEPT ![l] = Delivered(@)]

LEMMA DeliveredQuiet ==
    ASSUME Holds,
           \/ \E p \in Procs : SettleDelivered(p) \/ SettleAccepted(p)
           \/ \E l \in Lanes : ReconcileAccepted(l)
    PROVE  /\ Quiet /\ Still /\ UNCHANGED <<prompt, marker, status>>
           /\ outbox' = outbox \/ \E l \in Lanes : Acknowledges(l)
<1> USE DEF Holds, DeliveryInv
<1>0. TypeOK /\ UNCHANGED <<log, exposed, received, nextId, prompt, marker, status>>
  BY DEF IInv, SettleDelivered, SettleAccepted, ReconcileAccepted, host
<1>1. Aside
  <2>1. proc' = proc \/ \E p \in Procs : proc' = [proc EXCEPT ![p] = Idle]
    BY DEF SettleDelivered, SettleAccepted, ReconcileAccepted, Exit
  <2>2. Idle.pc = "free" /\ Idle.id = 0
    BY DEF Idle
  <2> QED
    BY <1>0, <2>1, <2>2, Typed DEF Aside, Writing, Carrying
<1> DEFINE Settles(l) == outbox[l].started /\ Acknowledges(l)
<1>2. ASSUME NEW l \in Lanes, outbox[l].status = "pending", outbox[l].outcome = "accepted",
             outbox' = [outbox EXCEPT ![l] = Delivered(@)]
      PROVE  Settles(l)
  BY <1>2 DEF EvidenceInv, Acknowledges
<1>3. ASSUME NEW p \in Procs, SettleDelivered(p)
      PROVE  \E l \in Lanes : Settles(l)
  <2> DEFINE l == proc[p].lane
  <2>1. l \in Lanes /\ Attempted(p) \in received /\ outbox[l].started
    BY <1>0, <1>3, Typed DEF SettleDelivered, ResultInv
  <2>2. outbox[l].status = "pending" /\ outbox[l].msg = proc[p].msg /\ outbox[l].id = proc[p].id
    BY <1>3 DEF SettleDelivered, HoldsClaim
  <2>3. outbox' = [outbox EXCEPT ![l] = Delivered(@)]
    BY <1>3 DEF SettleDelivered
  <2> HIDE DEF l
  <2>4. Settles(l)
    BY <2>1, <2>2, <2>3 DEF Acknowledges, Attempted
  <2> QED
    BY <2>1, <2>4
<1>4. ASSUME NEW p \in Procs, SettleAccepted(p)
      PROVE  outbox' = outbox \/ \E l \in Lanes : Settles(l)
  <2> DEFINE l == proc[p].lane
  <2>1. l \in Lanes
    BY <1>0, Typed
  <2>2. \/ outbox' = outbox
        \/ /\ outbox[l].status = "pending" /\ outbox[l].outcome = "accepted"
           /\ outbox' = [outbox EXCEPT ![l] = Delivered(@)]
    BY <1>4 DEF SettleAccepted, AcceptWhileLocked
  <2> QED
    BY <1>2, <2>1, <2>2
<1>5. ASSUME NEW l \in Lanes, ReconcileAccepted(l)
      PROVE  Settles(l)
  BY <1>2, <1>5 DEF ReconcileAccepted, AcceptedEvidence, AcceptWhileLocked
<1> HIDE DEF Settles
<1>6. outbox' = outbox \/ \E l \in Lanes : Settles(l)
  BY <1>3, <1>4, <1>5
<1>7. ASSUME NEW l \in Lanes, Settles(l)
      PROVE  \A k \in Lanes : Calm(k)
  <2>1. LET d == outbox[l]  e == Delivered(d)
        IN  /\ e.msg = d.msg /\ e.id = d.id /\ e.attempts = d.attempts /\ e.started = d.started
            /\ e.status = "delivered" /\ e.outcome = "accepted"
    BY <1>0, Typed DEF Delivered, Delivery
  <2>2. \A k \in Lanes : outbox'[k] = IF k = l THEN Delivered(outbox[k]) ELSE outbox[k]
    BY <1>0, <1>7, Typed DEF Settles, Acknowledges
  <2> QED
    BY <1>7, <2>1, <2>2 DEF Calm, Settles, Acknowledges
<1>8. \A k \in Lanes : Calm(k)
  BY <1>6, <1>7 DEF Calm
<1> QED
  BY <1>0, <1>1, <1>6, <1>8 DEF Quiet, Still, NoneAppears, Settles

(* ------------------------- one process moves -------------------------- *)

LEMMA AnnouncedStable ==
    ASSUME Holds, NEW p \in Procs, AnnounceStall(p)
    PROVE  DeliveryInv'
<1> USE DEF Holds, DeliveryInv
<1>1. /\ TypeOK /\ proc[p].pc = "announce"
      /\ UNCHANGED <<status, marker, outbox, log, prompt, nextId, received, exposed>>
  BY DEF AnnounceStall, IInv, turn, host
<1>2. /\ proc'[p].pc \in {"free", "prepared"} /\ proc'[p].id \in {0, proc[p].id}
      /\ proc'[p].outcome = "none"
      /\ \A q \in Procs \ {p} : proc'[q] = proc[q]
  <2>1. /\ [proc[p] EXCEPT !.pc = "prepared"].pc = "prepared"
        /\ [proc[p] EXCEPT !.pc = "prepared"].id = proc[p].id
        /\ [proc[p] EXCEPT !.pc = "prepared"].outcome = proc[p].outcome
    BY <1>1, Typed DEF Process
  <2>2. Idle.pc = "free" /\ Idle.id = 0 /\ Idle.outcome = "none"
    BY DEF Idle
  <2>3. proc[p].outcome = "none"
    BY <1>1 DEF ResultInv
  <2>4. \/ proc' = [proc EXCEPT ![p] = Idle]
        \/ proc' = [proc EXCEPT ![p] = [proc[p] EXCEPT !.pc = "prepared"]]
    BY DEF AnnounceStall, Exit, Goto
  <2> QED
    BY <1>1, <2>1, <2>2, <2>3, <2>4, Typed
<1>3. \A q \in Procs : proc'[q].pc \in Writing \cup {"transport", "settle"} => q # p /\ proc'[q] = proc[q]
  BY <1>2 DEF Writing
<1>4. IdInv'
  <2>1. 0 < nextId /\ \A q \in Procs : proc'[q].id \in {0, proc[q].id}
    BY <1>1, <1>2, Typed
  <2> QED
    BY <1>1, <1>2, <1>3, <2>1 DEF IdInv
<1>5. ResultInv'
  <2>1. \A q \in Procs : proc'[q].pc \in {"announce", "prepared"} => proc'[q].outcome = "none"
    BY <1>2 DEF ResultInv
  <2> QED
    BY <1>1, <1>3, <2>1 DEF ResultInv, HoldsClaim, Attempted
<1>6. EvidenceInv' /\ ReleasedInv'
  BY <1>1 DEF EvidenceInv, ReleasedInv, Unsettled
<1>7. ExposedInv' /\ TransportInv'
  BY <1>1, <1>3 DEF ExposedInv, TransportInv, HoldsClaim, Unsettled, Attempted
<1>8. OfferInv' /\ PromptInv'
  BY <1>1, <1>3 DEF OfferInv, PromptInv, Shown, Unsettled
<1> QED
  BY <1>4, <1>5, <1>6, <1>7, <1>8

LEMMA AppendedStable ==
    ASSUME Holds, NEW p \in Procs, AppendMessage(p)
    PROVE  DeliveryInv'
<1> USE DEF Holds, DeliveryInv
<1>1. /\ TypeOK /\ proc[p].pc = "append" /\ log' = log \cup {proc[p].msg}
      /\ UNCHANGED <<status, marker, outbox, prompt, nextId, received, exposed>>
  BY DEF AppendMessage, IInv, turn, host
<1>2. /\ proc'[p].pc = "save" /\ proc'[p].id = proc[p].id /\ proc'[p].outcome = proc[p].outcome
      /\ proc'[p].msg = proc[p].msg /\ proc'[p].lane = proc[p].lane
      /\ \A q \in Procs \ {p} : proc'[q] = proc[q]
  BY <1>1, Typed DEF AppendMessage, Goto, Process
<1>3. /\ \A q \in Procs : proc'[q].pc \in Writing =>
            /\ proc[q].pc \in Writing /\ proc'[q].id = proc[q].id /\ proc'[q].outcome = proc[q].outcome
            /\ proc'[q].msg = proc[q].msg /\ proc'[q].lane = proc[q].lane
      /\ \A q \in Procs : proc'[q].pc \notin Writing => q # p /\ proc'[q] = proc[q]
  BY <1>1, <1>2 DEF Writing
<1>4. IdInv'
  <2>1. \A q \in Procs : proc'[q].id = proc[q].id
    BY <1>2
  <2> QED
    BY <1>1, <1>3, <2>1 DEF IdInv
<1>5. ResultInv'
  BY <1>1, <1>3 DEF ResultInv, HoldsClaim, Attempted, Writing
<1>6. EvidenceInv' /\ ReleasedInv'
  BY <1>1 DEF EvidenceInv, ReleasedInv, Unsettled
<1>7. ExposedInv' /\ TransportInv'
  BY <1>1, <1>3 DEF ExposedInv, TransportInv, HoldsClaim, Unsettled, Attempted, Writing
<1>8. OfferInv'
  BY <1>1, <1>3 DEF OfferInv, Shown
<1>9. PromptInv'
  <2>1. proc[p].msg \in Prompts => prompt[proc[p].msg] # "new"
    BY <1>1 DEF PromptInv, Writing
  <2>2. \A m \in Prompts \cap log' : prompt'[m] # "new"
    BY <1>1, <2>1 DEF PromptInv
  <2>3. \A q \in Procs : proc'[q].pc \in Writing /\ proc'[q].msg \in Prompts
                            => prompt'[proc'[q].msg] \in {"shown", "gone"}
    BY <1>1, <1>3 DEF PromptInv
  <2> QED
    BY <1>1, <2>2, <2>3 DEF PromptInv, Shown, Unsettled
<1> QED
  BY <1>4, <1>5, <1>6, <1>7, <1>8, <1>9

LEMMA CheckpointStable ==
    ASSUME Holds, NEW p \in Procs, Checkpoint(p)
    PROVE  /\ DeliveryInv'
           /\ \A l \in Lanes : outbox'[l].status = outbox[l].status /\ outbox'[l].msg = outbox[l].msg
<1> USE DEF Holds, DeliveryInv
<1> DEFINE l == proc[p].lane
<1>1. /\ TypeOK /\ MsgInv /\ proc[p].pc = "transport" /\ Attempted(p) \in received
      /\ l \in Lanes /\ proc[p].id # 0
      /\ UNCHANGED <<status, marker, log, prompt, nextId, received, exposed>>
  BY Typed DEF Checkpoint, IInv, StableInv, MsgInv, turn, host
<1>2. /\ proc'[p].pc = "transport" /\ proc'[p].id = proc[p].id /\ proc'[p].outcome = "accepted"
      /\ proc'[p].msg = proc[p].msg /\ proc'[p].lane = l
      /\ proc'[p].attempts = proc[p].attempts
      /\ \A q \in Procs \ {p} : proc'[q] = proc[q]
  <2>1. proc' = [proc EXCEPT ![p] = [proc[p] EXCEPT !.outcome = "accepted"]]
    BY DEF Checkpoint
  <2>2. LET r == [proc[p] EXCEPT !.outcome = "accepted"]
        IN  /\ r.pc = proc[p].pc /\ r.id = proc[p].id /\ r.outcome = "accepted"
            /\ r.msg = proc[p].msg /\ r.lane = l /\ r.attempts = proc[p].attempts
    BY <1>1, Typed DEF Process
  <2> QED
    BY <1>1, <2>1, <2>2, Typed
<1>3. /\ \A k \in Lanes : /\ outbox'[k].status = outbox[k].status /\ outbox'[k].msg = outbox[k].msg
                          /\ outbox'[k].id = outbox[k].id /\ outbox'[k].attempts = outbox[k].attempts
                          /\ outbox'[k].started = outbox[k].started
      /\ \A k \in Lanes : outbox'[k].outcome = outbox[k].outcome
                             \/ (k = l /\ HoldsClaim(p) /\ outbox'[k].outcome = "accepted")
  <2>1. CASE HoldsClaim(p)
    <3> DEFINE e == [outbox[l] EXCEPT !.outcome = "accepted", !.lease = TRUE]
    <3>1. /\ e.status = outbox[l].status /\ e.msg = outbox[l].msg /\ e.id = outbox[l].id
          /\ e.attempts = outbox[l].attempts /\ e.started = outbox[l].started /\ e.outcome = "accepted"
      BY <1>1, Typed DEF Delivery
    <3>2. outbox' = [outbox EXCEPT ![l] = e]
      BY <2>1 DEF Checkpoint
    <3> HIDE DEF e
    <3>3. \A k \in Lanes : outbox'[k] = IF k = l THEN e ELSE outbox[k]
      BY <1>1, <3>2, Typed
    <3> QED
      BY <1>1, <2>1, <3>1, <3>3
  <2>2. CASE ~HoldsClaim(p)
    <3>1. outbox' = outbox
      BY <2>2 DEF Checkpoint
    <3> QED
      BY <3>1
  <2> QED
    BY <2>1, <2>2
<1>4. \A q \in Procs : /\ proc'[q].pc = proc[q].pc /\ proc'[q].id = proc[q].id
                       /\ proc'[q].msg = proc[q].msg /\ proc'[q].lane = proc[q].lane
                       /\ proc'[q].attempts = proc[q].attempts
                       /\ q # p => proc'[q].outcome = proc[q].outcome
  BY <1>1, <1>2
<1>5. \A q \in Procs : HoldsClaim(q)' => HoldsClaim(q)
  BY <1>1, <1>3, <1>4, Typed DEF HoldsClaim
<1> HIDE DEF l
<1>6. IdInv'
  BY <1>1, <1>3, <1>4 DEF IdInv
<1>7. ResultInv'
  <2> SUFFICES ASSUME NEW q \in Procs
               PROVE  /\ proc'[q].pc \in Writing \cup {"announce", "prepared"} => proc'[q].outcome = "none"
                      /\ proc'[q].pc \in {"transport", "settle"} /\ proc'[q].outcome = "accepted"
                            => Attempted(q)' \in received'
                      /\ proc'[q].pc \in {"transport", "settle"} /\ HoldsClaim(q)' =>
                            /\ outbox'[proc'[q].lane].started
                            /\ outbox'[proc'[q].lane].outcome = "accepted" => proc'[q].outcome = "accepted"
                      /\ proc'[q].pc = "settle" => proc'[q].outcome # "none"
    BY DEF ResultInv
  <2>1. CASE q = p
    <3>1. Attempted(p)' \in received'
      BY <1>1, <1>2 DEF Attempted
    <3>2. HoldsClaim(p)' => outbox'[l].started
      BY <1>1, <1>3, <1>5 DEF ResultInv, l
    <3> QED
      BY <1>2, <2>1, <3>1, <3>2 DEF Writing
  <2>2. CASE q # p
    <3>1. ASSUME proc[q].pc \in {"transport", "settle"}, HoldsClaim(q)'
          PROVE  /\ outbox'[proc[q].lane].started
                 /\ outbox'[proc[q].lane].outcome = "accepted" => proc[q].outcome = "accepted"
      <4>1. HoldsClaim(q) /\ proc[q].lane \in Lanes
        BY <1>1, <1>5, <3>1, Typed
      <4>2. outbox'[proc[q].lane].outcome = outbox[proc[q].lane].outcome
        BY <1>1, <1>3, <2>2, <4>1, OneHolder DEF l
      <4> QED
        BY <1>3, <3>1, <4>1, <4>2 DEF ResultInv
    <3>2. proc'[q] = proc[q]
      BY <1>2, <2>2
    <3> QED
      BY <1>1, <3>1, <3>2 DEF ResultInv, Attempted
  <2> QED
    BY <2>1, <2>2
<1>8. EvidenceInv'
  <2> SUFFICES ASSUME NEW k \in Lanes
               PROVE  LET d == outbox'[k] IN
                      /\ d.status = "delivered" => d.outcome = "accepted"
                      /\ d.outcome = "accepted" => d.started /\ <<d.msg, d.id>> \in received'
                      /\ Unsettled(d) /\ ~d.started => d.outcome = "none"
    BY DEF EvidenceInv, Unsettled
  <2>1. CASE outbox'[k].outcome = outbox[k].outcome
    BY <1>1, <1>3, <2>1 DEF EvidenceInv, Unsettled
  <2>2. CASE k = l /\ HoldsClaim(p) /\ outbox'[k].outcome = "accepted"
    <3>1. outbox[k].started
      BY <1>1, <2>2 DEF ResultInv, l
    <3>2. outbox[k].msg = proc[p].msg /\ outbox[k].id = proc[p].id
      BY <2>2 DEF HoldsClaim, l
    <3> QED
      BY <1>1, <1>3, <2>2, <3>1, <3>2 DEF Attempted
  <2> QED
    BY <1>3, <2>1, <2>2
<1>9. ExposedInv'
  <2>1. ASSUME NEW k \in Lanes, Unsettled(outbox'[k]),
               ~outbox'[k].started \/ outbox'[k].outcome = "retryable_failure"
        PROVE  outbox'[k].msg \notin exposed' \cap Once
    <3>1. Unsettled(outbox[k])
      BY <1>3, <2>1 DEF Unsettled
    <3>2. ~outbox[k].started \/ outbox[k].outcome = "retryable_failure"
      BY <1>3, <2>1
    <3> QED
      BY <1>1, <1>3, <3>1, <3>2 DEF ExposedInv
  <2>2. ASSUME NEW q \in Procs, proc'[q].pc \in Writing
        PROVE  proc'[q].msg \notin exposed' \cap Once
    BY <1>1, <1>4, <2>2 DEF ExposedInv
  <2>3. ASSUME NEW q \in Procs, proc'[q].pc = "settle", proc'[q].outcome = "retryable_failure",
               HoldsClaim(q)'
        PROVE  proc'[q].msg \notin exposed' \cap Once
    <3>1. q # p
      BY <1>2, <2>3
    <3> QED
      BY <1>1, <1>4, <1>5, <2>3, <3>1 DEF ExposedInv
  <2> QED
    BY <2>1, <2>2, <2>3 DEF ExposedInv, Unsettled
<1>10. TransportInv'
  BY <1>1, <1>4 DEF TransportInv, Attempted
<1>11. OfferInv'
  <2>1. outbox'["lifecycle"].msg = outbox["lifecycle"].msg
    BY <1>3 DEF Lanes
  <2> QED
    BY <1>1, <1>4, <2>1 DEF OfferInv, Shown
<1>12. PromptInv'
  <2>1. ASSUME NEW k \in Lanes, Unsettled(outbox'[k]),
               outbox'[k].msg \in Prompts \ Approvals, prompt'[outbox'[k].msg] = "answered"
        PROVE  outbox'[k].outcome = "accepted"
    <3>1. outbox[k].outcome = "accepted"
      BY <1>1, <1>3, <2>1 DEF PromptInv, Unsettled
    <3> QED
      BY <1>3, <3>1
  <2>2. \A q \in Procs : proc'[q].pc \in Writing /\ proc'[q].msg \in Prompts
                            => prompt'[proc'[q].msg] \in {"shown", "gone"}
    BY <1>1, <1>4 DEF PromptInv
  <2> QED
    BY <1>1, <2>1, <2>2 DEF PromptInv, Shown, Unsettled
<1>13. ReleasedInv'
  <2>1. \A k \in Lanes : Unsettled(outbox'[k]) /\ outbox[k].outcome = "accepted" => outbox'[k].outcome = "accepted"
    BY <1>3
  <2>2. "lifecycle" \in Lanes /\ "notification" \in Lanes
    BY DEF Lanes
  <2> QED
    BY <1>1, <1>3, <2>1, <2>2 DEF ReleasedInv, Unsettled
<1> QED
  BY <1>3, <1>6, <1>7, <1>8, <1>9, <1>10, <1>11, <1>12, <1>13

\* A failed attempt: its lane stays open for a retry only with proof that the
\* host did not take the message.
LEMMA FailedStable ==
    ASSUME Holds, NEW p \in Procs, SettleFailed(p)
    PROVE  /\ DeliveryInv'
           /\ \A l \in Lanes : /\ outbox'[l].msg = outbox[l].msg
                               /\ outbox'[l].status = "delivered" <=> outbox[l].status = "delivered"
<1> USE DEF Holds, DeliveryInv
<1> DEFINE l == proc[p].lane
<1>1. /\ TypeOK /\ StableInv /\ proc[p].pc = "settle" /\ HoldsClaim(p)
      /\ proc[p].outcome \notin {"accepted", "none"} /\ l \in Lanes
      /\ outbox[l].started /\ outbox[l].outcome # "accepted"
      /\ UNCHANGED <<status, marker, log, prompt, nextId, received, exposed>>
  BY Typed DEF SettleFailed, IInv, ResultInv, turn, host
<1>2. Aside
  <2>1. /\ Idle.pc = "free" /\ Idle.id = 0
        /\ \A k \in Lanes : Monitor(k).pc = "sleep" /\ Monitor(k).id = 0
    BY DEF Idle, Monitor
  <2>2. CASE RetryAuthorized(p)
    <3>1. PICK w \in FreeProcs \cup {p} : proc' = [[proc EXCEPT ![p] = Idle] EXCEPT ![w] = Monitor(l)]
      BY <2>2 DEF SettleFailed
    <3>2. w \in Procs /\ \A q \in Procs : proc'[q] = proc[q] \/ proc'[q] \in {Idle, Monitor(l)}
      BY <1>1, <3>1, Typed DEF FreeProcs
    <3> QED
      BY <1>1, <2>1, <3>2 DEF Aside, Writing, Carrying
  <2>3. CASE ~RetryAuthorized(p)
    <3>1. proc' = [proc EXCEPT ![p] = AfterFailure(p)]
      BY <2>3 DEF SettleFailed
    <3>2. AfterFailure(p).pc \notin Writing \cup Carrying /\ AfterFailure(p).id \in {0, proc[p].id}
      BY <1>1, <2>1, Typed DEF AfterFailure, Process, Writing, Carrying
    <3> QED
      BY <1>1, <3>1, <3>2, Typed DEF Aside
  <2> QED
    BY <2>2, <2>3
<1>3. \A q \in Procs : /\ proc'[q].pc \in Writing \cup Carrying => proc'[q] = proc[q]
                       /\ proc'[q].id \in {0, proc[q].id}
  BY <1>2 DEF Aside
<1>4. /\ outbox'[l].status = "failed" /\ outbox'[l].outcome = proc[p].outcome
      /\ outbox'[l].msg = outbox[l].msg /\ outbox'[l].id = outbox[l].id
      /\ outbox'[l].started = outbox[l].started
      /\ \A k \in Lanes \ {l} : outbox'[k] = outbox[k]
  <2> DEFINE e == [outbox[l] EXCEPT !.status = "failed", !.outcome = proc[p].outcome,
                                    !.pid = NoProc, !.lease = FALSE]
  <2>1. /\ e.status = "failed" /\ e.outcome = proc[p].outcome
        /\ e.msg = outbox[l].msg /\ e.id = outbox[l].id /\ e.started = outbox[l].started
    <3>1. outbox[l] \in Delivery
      BY <1>1, Typed
    <3> QED
      BY <3>1 DEF Delivery
  <2>2. outbox' = [outbox EXCEPT ![l] = e]
    BY DEF SettleFailed
  <2> HIDE DEF e
  <2> QED
    BY <1>1, <2>1, <2>2, Typed
<1>5. Unsettled(outbox[l]) /\ outbox[l].status = "pending" /\ outbox[l].msg = proc[p].msg
  BY <1>1 DEF HoldsClaim, Unsettled
<1>6. \A q \in Procs : proc'[q] = proc[q] /\ HoldsClaim(q)' => proc[q].lane # l /\ HoldsClaim(q)
  BY <1>1, <1>4, Typed DEF HoldsClaim
<1>7. \A k \in Lanes : /\ outbox'[k].msg = outbox[k].msg /\ outbox'[k].id = outbox[k].id
                       /\ outbox'[k].status = "delivered" <=> outbox[k].status = "delivered"
  BY <1>4, <1>5
<1> HIDE DEF l
<1>8. IdInv'
  <2>1. 0 < nextId
    BY <1>1, Typed
  <2> QED
    BY <1>1, <1>3, <1>7, <2>1 DEF IdInv
<1>9. ResultInv'
  <2> SUFFICES ASSUME NEW q \in Procs, proc'[q].pc \in Writing \cup Carrying
               PROVE  /\ proc'[q].pc \in Writing \cup {"announce", "prepared"} => proc'[q].outcome = "none"
                      /\ proc'[q].pc \in {"transport", "settle"} /\ proc'[q].outcome = "accepted"
                            => Attempted(q)' \in received'
                      /\ proc'[q].pc \in {"transport", "settle"} /\ HoldsClaim(q)' =>
                            /\ outbox'[proc'[q].lane].started
                            /\ outbox'[proc'[q].lane].outcome = "accepted" => proc'[q].outcome = "accepted"
                      /\ proc'[q].pc = "settle" => proc'[q].outcome # "none"
    BY DEF ResultInv, Writing, Carrying
  <2>1. proc'[q] = proc[q] /\ proc[q].lane \in Lanes
    BY <1>1, <1>3, Typed
  <2>2. HoldsClaim(q)' => HoldsClaim(q) /\ outbox'[proc[q].lane] = outbox[proc[q].lane]
    BY <1>4, <1>6, <2>1
  <2> QED
    BY <1>1, <2>1, <2>2 DEF ResultInv, Attempted
<1>10. EvidenceInv'
  <2>1. ASSUME NEW k \in Lanes
        PROVE  LET d == outbox'[k] IN
               /\ d.status = "delivered" => d.outcome = "accepted"
               /\ d.outcome = "accepted" => d.started /\ <<d.msg, d.id>> \in received'
               /\ Unsettled(d) /\ ~d.started => d.outcome = "none"
    BY <1>1, <1>4 DEF EvidenceInv
  <2> QED
    BY <2>1 DEF EvidenceInv, Unsettled
<1>11. ExposedInv'
  <2>1. ASSUME NEW k \in Lanes, Unsettled(outbox'[k]),
               ~outbox'[k].started \/ outbox'[k].outcome = "retryable_failure"
        PROVE  outbox'[k].msg \notin exposed' \cap Once
    <3>1. CASE k = l
      BY <1>1, <1>4, <1>5, <2>1, <3>1 DEF ExposedInv
    <3>2. CASE k # l
      BY <1>1, <1>4, <2>1, <3>2 DEF ExposedInv
    <3> QED
      BY <3>1, <3>2
  <2>2. ASSUME NEW q \in Procs, proc'[q].pc \in Writing
        PROVE  proc'[q].msg \notin exposed' \cap Once
    BY <1>1, <1>3, <2>2 DEF ExposedInv
  <2>3. ASSUME NEW q \in Procs, proc'[q].pc = "settle", proc'[q].outcome = "retryable_failure",
               HoldsClaim(q)'
        PROVE  proc'[q].msg \notin exposed' \cap Once
    <3>1. proc'[q] = proc[q]
      BY <1>3, <2>3 DEF Carrying
    <3> QED
      BY <1>1, <1>6, <2>3, <3>1 DEF ExposedInv
  <2> QED
    BY <2>1, <2>2, <2>3 DEF ExposedInv, Unsettled
<1>12. TransportInv'
  BY <1>1, <1>3 DEF TransportInv, Carrying, Attempted
<1>13. OfferInv'
  <2>1. outbox'["lifecycle"].msg = outbox["lifecycle"].msg
    BY <1>7 DEF Lanes
  <2> QED
    BY <1>1, <1>3, <2>1 DEF OfferInv, Shown
<1>14. PromptInv'
  <2>1. ASSUME NEW k \in Lanes, Unsettled(outbox'[k]),
               outbox'[k].msg \in Prompts \ Approvals, prompt'[outbox'[k].msg] = "answered"
        PROVE  outbox'[k].outcome = "accepted"
    BY <1>1, <1>4, <1>5, <2>1 DEF PromptInv
  <2> QED
    BY <1>1, <1>3, <2>1 DEF PromptInv, Shown, Unsettled
<1>15. ReleasedInv'
  <2>1. "lifecycle" \in Lanes /\ "notification" \in Lanes
    BY DEF Lanes
  <2>2. \A k \in Lanes : k # l => outbox'[k] = outbox[k]
    BY <1>4
  <2>3. status # "closed"
    BY <1>1, <1>5 DEF ReleasedInv
  <2>4. status = "idle" => l # "notification"
    BY <1>1, <1>5 DEF ReleasedInv
  <2> QED
    BY <1>1, <1>7, <2>1, <2>2, <2>3, <2>4 DEF ReleasedInv, Unsettled
<1> QED
  BY <1>7, <1>8, <1>9, <1>10, <1>11, <1>12, <1>13, <1>14, <1>15

(* -------------------------- a fresh attempt --------------------------- *)

\* Process p freezes a fresh attempt of message m in lane l.
Freezes(p, l, m) ==
    /\ proc'[p].pc \in {"announce", "prepared"} /\ proc'[p].outcome = "none" /\ proc'[p].id = nextId
    /\ \A q \in Procs \ {p} : proc'[q] = proc[q]
    /\ LET e == outbox'[l] IN
         e.status = "pending" /\ e.msg = m /\ e.id = nextId /\ ~e.started /\ e.outcome = "none"
    /\ \A k \in Lanes \ {l} : outbox'[k] \in {outbox[k], Superseded(outbox[k])}
    /\ nextId' = nextId + 1
    /\ UNCHANGED <<log, prompt, received, exposed, marker>>
    /\ m \in Messages /\ LaneOf(m) = l /\ m \in log /\ m \notin exposed \cap Once

\* A lane that is at most superseded.
LEMMA SupersededKeeps ==
    ASSUME TypeOK, NEW k \in Lanes, outbox'[k] \in {outbox[k], Superseded(outbox[k])}
    PROVE  /\ Unsettled(outbox'[k]) => outbox'[k] = outbox[k]
           /\ outbox'[k].msg = outbox[k].msg /\ outbox'[k].id = outbox[k].id
           /\ outbox'[k].started = outbox[k].started /\ outbox'[k].outcome = outbox[k].outcome
           /\ outbox'[k].status = "delivered" <=> outbox[k].status = "delivered"
<1>1. LET d == outbox[k]  e == Superseded(d)
      IN  /\ e.msg = d.msg /\ e.id = d.id /\ e.started = d.started /\ e.outcome = d.outcome
          /\ e = d \/ (e.status = "superseded" /\ Unsettled(d))
  BY Typed DEF Superseded, Delivery
<1> QED
  BY <1>1 DEF Unsettled

LEMMA FreezesStable ==
    ASSUME Holds, NEW p \in Procs, NEW l \in Lanes, NEW m, Freezes(p, l, m),
           m \in Prompts \ Approvals => prompt[m] # "answered"
    PROVE  IdInv' /\ ResultInv' /\ EvidenceInv' /\ ExposedInv' /\ TransportInv' /\ PromptInv'
<1> USE DEF Holds, DeliveryInv
<1>1. /\ TypeOK /\ nextId \in Nat \ {0} /\ nextId' = nextId + 1
      /\ proc'[p].pc \in {"announce", "prepared"} /\ proc'[p].outcome = "none" /\ proc'[p].id = nextId
      /\ \A q \in Procs \ {p} : proc'[q] = proc[q]
      /\ UNCHANGED <<log, prompt, received, exposed, marker>>
      /\ \A q \in Procs : proc[q].id \in Nat
      /\ m \notin exposed \cap Once
  BY Typed DEF IInv, Freezes
<1>2. /\ outbox'[l].status = "pending" /\ outbox'[l].msg = m /\ outbox'[l].id = nextId
      /\ ~outbox'[l].started /\ outbox'[l].outcome = "none"
  BY DEF Freezes
<1>3. \A k \in Lanes \ {l} :
         /\ Unsettled(outbox'[k]) => outbox'[k] = outbox[k]
         /\ outbox'[k].msg = outbox[k].msg /\ outbox'[k].id = outbox[k].id
         /\ outbox'[k].started = outbox[k].started /\ outbox'[k].outcome = outbox[k].outcome
         /\ outbox'[k].status = "delivered" <=> outbox[k].status = "delivered"
  BY <1>1, SupersededKeeps DEF Freezes
<1>4. \A q \in Procs : proc'[q].pc \in Writing \cup {"transport", "settle"} => q # p /\ proc'[q] = proc[q]
  BY <1>1 DEF Writing
<1>5. \A q \in Procs \ {p} : HoldsClaim(q)' =>
         proc[q].lane # l /\ HoldsClaim(q) /\ outbox'[proc[q].lane] = outbox[proc[q].lane]
  <2> SUFFICES ASSUME NEW q \in Procs \ {p}, HoldsClaim(q)'
               PROVE  proc[q].lane # l /\ HoldsClaim(q) /\ outbox'[proc[q].lane] = outbox[proc[q].lane]
    OBVIOUS
  <2>1. proc'[q] = proc[q] /\ proc[q].lane \in Lanes /\ proc[q].id < nextId /\ proc[q].id \in Nat
    BY <1>1, Typed DEF IdInv
  <2>2. proc[q].lane # l
    BY <1>1, <1>2, <2>1 DEF HoldsClaim
  <2>3. outbox'[proc[q].lane] = outbox[proc[q].lane]
    BY <1>3, <2>1, <2>2 DEF HoldsClaim, Unsettled
  <2> QED
    BY <2>1, <2>2, <2>3 DEF HoldsClaim
<1>6. IdInv'
  <2>1. ASSUME NEW q \in Procs
        PROVE  proc'[q].id < nextId'
    BY <1>1 DEF IdInv
  <2>2. ASSUME NEW k \in Lanes
        PROVE  outbox'[k].id < nextId'
    BY <1>1, <1>2, <1>3, Typed DEF IdInv
  <2>3. ASSUME NEW q \in Procs, NEW r \in Procs, proc'[q].id # 0, proc'[q].id = proc'[r].id
        PROVE  q = r
    <3>1. \A x \in Procs : proc[x].id < nextId
      BY DEF IdInv
    <3>2. CASE q = p \/ r = p
      BY <1>1, <2>3, <3>1, <3>2
    <3>3. CASE q # p /\ r # p
      BY <1>1, <2>3, <3>3 DEF IdInv
    <3> QED
      BY <3>2, <3>3
  <2> QED
    BY <1>4, <2>1, <2>2, <2>3 DEF IdInv
<1>7. ResultInv'
  <2>1. \A q \in Procs : proc'[q].pc \in {"announce", "prepared"} => proc'[q].outcome = "none"
    BY <1>1 DEF ResultInv
  <2>2. ASSUME NEW q \in Procs, proc'[q].pc \in Writing \cup {"transport", "settle"}
        PROVE  /\ proc'[q].pc \in Writing => proc'[q].outcome = "none"
               /\ proc'[q].pc \in {"transport", "settle"} /\ proc'[q].outcome = "accepted"
                     => Attempted(q)' \in received'
               /\ proc'[q].pc \in {"transport", "settle"} /\ HoldsClaim(q)' =>
                     /\ outbox'[proc'[q].lane].started
                     /\ outbox'[proc'[q].lane].outcome = "accepted" => proc'[q].outcome = "accepted"
               /\ proc'[q].pc = "settle" => proc'[q].outcome # "none"
    <3>1. q # p /\ proc'[q] = proc[q]
      BY <1>4, <2>2
    <3>2. HoldsClaim(q)' => HoldsClaim(q) /\ outbox'[proc[q].lane] = outbox[proc[q].lane]
      BY <1>5, <3>1
    <3> QED
      BY <1>1, <3>1, <3>2 DEF ResultInv, Attempted
  <2> QED
    BY <2>1, <2>2 DEF ResultInv
<1>8. EvidenceInv'
  <2> SUFFICES ASSUME NEW k \in Lanes
               PROVE  LET d == outbox'[k] IN
                      /\ d.status = "delivered" => d.outcome = "accepted"
                      /\ d.outcome = "accepted" => d.started /\ <<d.msg, d.id>> \in received'
                      /\ Unsettled(d) /\ ~d.started => d.outcome = "none"
    BY DEF EvidenceInv, Unsettled
  <2>1. CASE k = l
    BY <1>2, <2>1
  <2>2. CASE k # l
    <3>1. /\ Unsettled(outbox'[k]) => outbox'[k] = outbox[k]
          /\ outbox'[k].msg = outbox[k].msg /\ outbox'[k].id = outbox[k].id
          /\ outbox'[k].started = outbox[k].started /\ outbox'[k].outcome = outbox[k].outcome
          /\ outbox'[k].status = "delivered" <=> outbox[k].status = "delivered"
      BY <1>3, <2>2
    <3> QED
      BY <1>1, <3>1 DEF EvidenceInv
  <2> QED
    BY <2>1, <2>2
<1>9. ExposedInv'
  <2>1. ASSUME NEW k \in Lanes, Unsettled(outbox'[k]),
               ~outbox'[k].started \/ outbox'[k].outcome = "retryable_failure"
        PROVE  outbox'[k].msg \notin exposed' \cap Once
    <3>1. CASE k = l
      BY <1>1, <1>2, <3>1
    <3>2. CASE k # l
      <4>1. outbox'[k] = outbox[k]
        BY <1>3, <2>1, <3>2
      <4> QED
        BY <1>1, <2>1, <4>1 DEF ExposedInv
    <3> QED
      BY <3>1, <3>2
  <2>2. ASSUME NEW q \in Procs, proc'[q].pc \in Writing
        PROVE  proc'[q].msg \notin exposed' \cap Once
    BY <1>1, <1>4, <2>2 DEF ExposedInv
  <2>3. ASSUME NEW q \in Procs, proc'[q].pc = "settle", proc'[q].outcome = "retryable_failure",
               HoldsClaim(q)'
        PROVE  proc'[q].msg \notin exposed' \cap Once
    <3>1. q # p /\ proc'[q] = proc[q]
      BY <1>4, <2>3
    <3>2. HoldsClaim(q)
      BY <1>5, <2>3, <3>1
    <3> QED
      BY <1>1, <2>3, <3>1, <3>2 DEF ExposedInv
  <2> QED
    BY <2>1, <2>2, <2>3 DEF ExposedInv, Unsettled
<1>10. TransportInv'
  BY <1>1, <1>4 DEF TransportInv, Attempted
<1>11. PromptInv'
  <2>1. ASSUME NEW k \in Lanes, Unsettled(outbox'[k]),
               outbox'[k].msg \in Prompts \ Approvals, prompt'[outbox'[k].msg] = "answered"
        PROVE  outbox'[k].outcome = "accepted"
    <3>1. k # l
      BY <1>1, <1>2, <2>1
    <3>2. outbox'[k] = outbox[k]
      BY <1>3, <2>1, <3>1
    <3> QED
      BY <1>1, <2>1, <3>2 DEF PromptInv
  <2> QED
    BY <1>1, <1>4, <2>1 DEF PromptInv, Shown, Unsettled
<1> QED
  BY <1>6, <1>7, <1>8, <1>9, <1>10, <1>11

\* What the first save of a message does, and the retry of one.
LEMMA SaveFreezes ==
    ASSUME Holds, NEW p \in Procs, SavePrepared(p)
    PROVE  /\ Freezes(p, proc[p].lane, proc[p].msg)
           /\ proc[p].msg \in Ends => outbox'["notification"] = Superseded(outbox["notification"])
<1> USE DEF Holds, DeliveryInv
<1> DEFINE l == proc[p].lane  m == proc[p].msg
           fresh == Attempt(m, p, Previous(l, m))
<1>1. /\ TypeOK /\ proc[p].pc = "save" /\ proc[p].outcome = "none"
      /\ m \in Messages /\ LaneOf(m) = l /\ m \in log /\ m \notin exposed \cap Once /\ l \in Lanes
      /\ nextId' = nextId + 1 /\ UNCHANGED <<log, prompt, received, exposed, marker>>
  BY Typed DEF IInv, StableInv, WriteInv, Writing, ResultInv, ExposedInv, SavePrepared, host
<1>2. /\ fresh.status = "pending" /\ fresh.msg = m /\ fresh.id = nextId
      /\ ~fresh.started /\ fresh.outcome = "none"
  BY DEF Attempt, EmptyDelivery
<1>3. /\ proc'[p].pc \in {"announce", "prepared"} /\ proc'[p].outcome = "none" /\ proc'[p].id = nextId
      /\ \A q \in Procs \ {p} : proc'[q] = proc[q]
  <2> DEFINE pc == IF m \in Stalls THEN "announce" ELSE "prepared"
             n  == fresh.attempts
  <2>1. proc' = [proc EXCEPT ![p] = [proc[p] EXCEPT !.pc = pc, !.attempts = n, !.id = nextId]]
    BY DEF SavePrepared
  <2>0. pc \in {"announce", "prepared"}
    OBVIOUS
  <2> HIDE DEF pc, n
  <2> DEFINE r == [proc[p] EXCEPT !.pc = pc, !.attempts = n, !.id = nextId]
  <2>2. r.pc = pc /\ r.outcome = "none" /\ r.id = nextId
    BY <1>1, Typed DEF Process
  <2>3. proc' = [proc EXCEPT ![p] = r]
    BY <2>1
  <2> HIDE DEF r
  <2> QED
    BY <1>1, <2>0, <2>2, <2>3, Typed
<1>4. m \in Ends => l = "lifecycle"
  BY <1>1, ConstantsAssumption DEF LaneOf, Prompts, Ends, Calls
<1> HIDE DEF fresh
<1>5. /\ outbox'[l] = fresh
      /\ m \in Ends => outbox'["notification"] = Superseded(outbox["notification"])
      /\ \A k \in Lanes \ {l} : outbox'[k] \in {outbox[k], Superseded(outbox[k])}
  <2>1. CASE m \in Ends
    <3>1. outbox' = [lifecycle |-> fresh, notification |-> Superseded(outbox["notification"])]
      BY <2>1 DEF SavePrepared, fresh
    <3> QED
      BY <1>4, <2>1, <3>1 DEF Lanes
  <2>2. CASE m \notin Ends
    <3>1. outbox' = [outbox EXCEPT ![l] = fresh]
      BY <2>2 DEF SavePrepared, fresh
    <3> QED
      BY <1>1, <2>2, <3>1, Typed
  <2> QED
    BY <2>1, <2>2
<1> QED
  BY <1>1, <1>2, <1>3, <1>5 DEF Freezes

LEMMA RetryFreezes ==
    ASSUME Holds, NEW p \in Procs, PrepareRetry(p)
    PROVE  /\ Freezes(p, proc[p].lane, proc[p].msg)
           /\ Unsettled(outbox[proc[p].lane]) /\ outbox[proc[p].lane].outcome # "accepted"
           /\ outbox[proc[p].lane].msg = proc[p].msg
           /\ \A k \in Lanes \ {proc[p].lane} : outbox'[k] = outbox[k]
           /\ status' = status /\ proc[p].lane \in Lanes
<1> USE DEF Holds, DeliveryInv
<1> DEFINE l == proc[p].lane  m == proc[p].msg  d == outbox[l]
           fresh == Attempt(m, p, d.attempts)
<1>1. /\ TypeOK /\ StableInv /\ l \in Lanes /\ d.msg = m
      /\ Unsettled(d) /\ d.outcome \in {"none", "retryable_failure"}
      /\ ~d.started \/ d.outcome = "retryable_failure"
      /\ nextId' = nextId + 1 /\ UNCHANGED <<status, log, prompt, received, exposed, marker>>
  BY Typed DEF PrepareRetry, Retryable, Undecided, StartedWithoutOutcome, IInv, turn, host
<1>2. m \in Messages /\ LaneOf(m) = l /\ m \in log
  BY <1>1, ConstantsAssumption DEF StableInv, MsgInv, LaneInv
<1>3. m \notin exposed \cap Once
  BY <1>1 DEF ExposedInv
<1>4. /\ proc'[p].pc = "prepared" /\ proc'[p].outcome = "none" /\ proc'[p].id = nextId
      /\ \A q \in Procs \ {p} : proc'[q] = proc[q]
  <2>1. PICK n, b :
          proc' = [proc EXCEPT ![p] = [proc[p] EXCEPT !.pc = "prepared", !.retry = b,
                                          !.outcome = "none", !.attempts = n, !.id = nextId]]
    BY DEF PrepareRetry
  <2> DEFINE r == [proc[p] EXCEPT !.pc = "prepared", !.retry = b, !.outcome = "none",
                                  !.attempts = n, !.id = nextId]
  <2>2. r.pc = "prepared" /\ r.outcome = "none" /\ r.id = nextId
    BY <1>1, Typed DEF Process
  <2>3. proc' = [proc EXCEPT ![p] = r]
    BY <2>1
  <2> HIDE DEF r
  <2> QED
    BY <1>1, <2>2, <2>3, Typed
<1>5. /\ fresh.status = "pending" /\ fresh.msg = m /\ fresh.id = nextId
      /\ ~fresh.started /\ fresh.outcome = "none"
  BY DEF Attempt, EmptyDelivery
<1>6. outbox' = [outbox EXCEPT ![l] = fresh]
  BY DEF PrepareRetry
<1> HIDE DEF fresh
<1>7. outbox'[l] = fresh /\ \A k \in Lanes \ {l} : outbox'[k] = outbox[k]
  BY <1>1, <1>6, Typed
<1> QED
  BY <1>1, <1>2, <1>3, <1>4, <1>5, <1>7 DEF Freezes

LEMMA SavedStable ==
    ASSUME Holds, NEW p \in Procs, SavePrepared(p)
    PROVE  DeliveryInv' /\ status \notin Released /\ UNCHANGED <<log, exposed>>
<1> USE DEF Holds, DeliveryInv
<1> DEFINE l == proc[p].lane  m == proc[p].msg
<1>1. /\ TypeOK /\ proc[p].pc = "save" /\ m \in Messages /\ LaneOf(m) = l /\ l \in Lanes
      /\ status \notin Released /\ status' \in StatusAfter(m)
  BY Typed DEF IInv, StableInv, WriteInv, Writing, SavePrepared
<1>2. /\ Freezes(p, l, m)
      /\ m \in Ends => outbox'["notification"] = Superseded(outbox["notification"])
  BY SaveFreezes
<1>3. m \in Prompts => prompt[m] # "answered"
  BY <1>1 DEF PromptInv, Writing
<1>4. IdInv' /\ ResultInv' /\ EvidenceInv' /\ ExposedInv' /\ TransportInv' /\ PromptInv'
  BY <1>1, <1>2, <1>3, FreezesStable
<1>5. /\ UNCHANGED <<log, exposed, prompt>> /\ outbox'[l].msg = m
      /\ \A k \in Lanes \ {l} : outbox'[k] \in {outbox[k], Superseded(outbox[k])}
      /\ \A q \in Procs : proc'[q].pc \in Writing => proc'[q] = proc[q]
  BY <1>2 DEF Freezes, Writing
<1>6. OfferInv'
  <2>1. Completions \cap exposed = {}
    BY <1>1 DEF OfferInv
  <2>2. ASSUME NEW b \in Blocking \cap exposed, Shown(b)
        PROVE  outbox'["lifecycle"].msg = b \/ status' \in Released
    <3>1. CASE m \in Completions
      BY <1>1, <3>1, ConstantsAssumption DEF StatusAfter, Released, Ends, Calls, Prompts
    <3>2. CASE l = "lifecycle" /\ m \notin Completions
      BY <1>1, <2>2, <3>2 DEF OfferInv, Writing
    <3>3. CASE l # "lifecycle"
      <4>1. outbox'["lifecycle"].msg = outbox["lifecycle"].msg
        BY <1>1, <1>5, <3>3, SupersededKeeps DEF Lanes
      <4> QED
        BY <1>1, <2>2, <4>1 DEF OfferInv
    <3> QED
      BY <3>1, <3>2, <3>3
  <2>3. exposed' \subseteq log' /\ \A b \in Blocking : Shown(b)' <=> Shown(b)
    BY <1>5 DEF OfferInv, Shown
  <2> QED
    BY <1>5, <2>1, <2>2, <2>3 DEF OfferInv
<1>7. ReleasedInv'
  <2>1. CASE m \in Ends
    <3>1. l = "lifecycle" /\ status' = "idle" /\ "notification" \in Lanes
      BY <1>1, <2>1, ConstantsAssumption DEF LaneOf, Prompts, StatusAfter, Lanes, Ends, Calls
    <3>2. Unsettled(outbox'["notification"]) => outbox'["notification"].outcome = "accepted"
      BY <1>1, <1>2, <2>1, <3>1, SupersededSettles
    <3> QED
      BY <1>5, <2>1, <3>1, <3>2 DEF ReleasedInv, Unsettled
  <2>2. CASE m \notin Ends
    BY <1>1, <2>2 DEF StatusAfter, Released, ReleasedInv
  <2> QED
    BY <2>1, <2>2
<1> QED
  BY <1>1, <1>4, <1>5, <1>6, <1>7

LEMMA RetriedStable ==
    ASSUME Holds, NEW p \in Procs, PrepareRetry(p)
    PROVE  DeliveryInv' /\ UNCHANGED <<status, log, exposed>>
<1> USE DEF Holds, DeliveryInv
<1> DEFINE l == proc[p].lane  m == proc[p].msg
<1>1. /\ Freezes(p, l, m) /\ Unsettled(outbox[l]) /\ outbox[l].outcome # "accepted"
      /\ outbox[l].msg = m /\ \A k \in Lanes \ {l} : outbox'[k] = outbox[k]
      /\ status' = status /\ l \in Lanes
  BY RetryFreezes
<1>2. m \in Prompts \ Approvals => prompt[m] # "answered"
  BY <1>1 DEF PromptInv
<1>3. IdInv' /\ ResultInv' /\ EvidenceInv' /\ ExposedInv' /\ TransportInv' /\ PromptInv'
  BY <1>1, <1>2, FreezesStable
<1>4. /\ UNCHANGED <<log, exposed, prompt>>
      /\ \A k \in Lanes : outbox'[k].msg = outbox[k].msg
      /\ \A q \in Procs : proc'[q].pc \in Writing => proc'[q] = proc[q]
  BY <1>1 DEF Freezes, Writing
<1>5. OfferInv'
  BY <1>1, <1>4 DEF OfferInv, Shown, Lanes
<1>6. ReleasedInv'
  <2>1. status # "closed" /\ (status = "idle" => l # "notification")
    BY <1>1 DEF ReleasedInv
  <2> QED
    BY <1>1, <1>4, <2>1 DEF ReleasedInv, Lanes, Unsettled
<1> QED
  BY <1>1, <1>3, <1>4, <1>5, <1>6

(* --------------------------- the transport ---------------------------- *)

LEMMA BegunStable ==
    ASSUME Holds, NEW p \in Procs, BeginTransport(p)
    PROVE  /\ DeliveryInv'
           /\ proc[p].msg \in log /\ proc[p].msg \in Messages /\ proc[p].msg \notin exposed \cap Once
           /\ exposed' = exposed \cup {proc[p].msg}
           /\ status # "closed" /\ (status = "idle" => proc[p].msg \in Ends)
           /\ UNCHANGED <<status, log, received>>
           /\ \A l \in Lanes : outbox'[l].status = outbox[l].status /\ outbox'[l].msg = outbox[l].msg
<1> USE DEF Holds, DeliveryInv
<1> DEFINE l == proc[p].lane  m == proc[p].msg
<1>1. /\ TypeOK /\ IInv /\ StableInv /\ proc[p].pc = "prepared" /\ Unlocked /\ HoldsClaim(p)
      /\ ~outbox[l].started /\ l \in Lanes /\ exposed' = exposed \cup {m}
      /\ proc[p].outcome = "none" /\ m \in Messages /\ proc[p].id # 0
      /\ UNCHANGED <<status, marker, log, prompt, nextId, received>>
  BY Typed DEF BeginTransport, IInv, StableInv, MsgInv, ResultInv, turn
<1>2. outbox[l].msg = m /\ LaneOf(m) = l /\ m \in log /\ Unsettled(outbox[l])
  BY <1>1, Claimed
<1>3. outbox[l].outcome = "none" /\ m \notin exposed \cap Once
  BY <1>1, <1>2 DEF EvidenceInv, ExposedInv
<1>4. /\ proc'[p].pc = "transport" /\ proc'[p].id = proc[p].id /\ proc'[p].outcome = "none"
      /\ proc'[p].msg = m /\ proc'[p].lane = l /\ proc'[p].attempts = proc[p].attempts
      /\ \A q \in Procs \ {p} : proc'[q] = proc[q]
  BY <1>1, Typed DEF BeginTransport, Goto, Process
<1>5. /\ \A k \in Lanes : /\ outbox'[k].status = outbox[k].status /\ outbox'[k].msg = outbox[k].msg
                          /\ outbox'[k].id = outbox[k].id /\ outbox'[k].attempts = outbox[k].attempts
                          /\ outbox'[k].outcome = outbox[k].outcome
                          /\ k # l => outbox'[k] = outbox[k]
      /\ outbox'[l].started
  <2> DEFINE e == [outbox[l] EXCEPT !.started = TRUE]
  <2>1. /\ e.status = outbox[l].status /\ e.msg = outbox[l].msg /\ e.id = outbox[l].id
        /\ e.attempts = outbox[l].attempts /\ e.outcome = outbox[l].outcome /\ e.started
    BY <1>1, Typed DEF Delivery
  <2>2. outbox' = [outbox EXCEPT ![l] = e]
    BY DEF BeginTransport
  <2> HIDE DEF e
  <2>3. \A k \in Lanes : outbox'[k] = IF k = l THEN e ELSE outbox[k]
    BY <1>1, <2>2, Typed
  <2> QED
    BY <1>1, <2>1, <2>3
<1> HIDE DEF l, m
<1>6. /\ \A q \in Procs : proc'[q].pc \in Writing => FALSE
      /\ \A q \in Procs : proc'[q].id = proc[q].id
  BY <1>1, <1>4, NobodyPrepares DEF Writing, Locked
<1>7. \A q \in Procs \ {p} : HoldsClaim(q)' =>
         HoldsClaim(q) /\ proc[q].lane # l /\ proc[q].lane \in Lanes
            /\ outbox'[proc[q].lane] = outbox[proc[q].lane]
  <2> SUFFICES ASSUME NEW q \in Procs \ {p}, HoldsClaim(q)'
               PROVE  HoldsClaim(q) /\ proc[q].lane # l /\ proc[q].lane \in Lanes
                         /\ outbox'[proc[q].lane] = outbox[proc[q].lane]
    OBVIOUS
  <2>1. proc'[q] = proc[q] /\ proc[q].lane \in Lanes
    BY <1>1, <1>4, Typed
  <2>2. HoldsClaim(q)
    BY <1>5, <2>1 DEF HoldsClaim
  <2>3. proc[q].lane # l
    BY <1>1, <2>2, OneHolder DEF l
  <2> QED
    BY <1>5, <2>1, <2>2, <2>3
<1>8. IdInv'
  BY <1>1, <1>5, <1>6 DEF IdInv
<1>9. ResultInv'
  <2> SUFFICES ASSUME NEW q \in Procs
               PROVE  /\ proc'[q].pc \in Writing \cup {"announce", "prepared"} => proc'[q].outcome = "none"
                      /\ proc'[q].pc \in {"transport", "settle"} /\ proc'[q].outcome = "accepted"
                            => Attempted(q)' \in received'
                      /\ proc'[q].pc \in {"transport", "settle"} /\ HoldsClaim(q)' =>
                            /\ outbox'[proc'[q].lane].started
                            /\ outbox'[proc'[q].lane].outcome = "accepted" => proc'[q].outcome = "accepted"
                      /\ proc'[q].pc = "settle" => proc'[q].outcome # "none"
    BY DEF ResultInv
  <2>1. CASE q = p
    <3>1. outbox'[l].outcome = "none" /\ outbox'[l].started
      BY <1>1, <1>3, <1>5
    <3> QED
      BY <1>4, <2>1, <3>1
  <2>2. CASE q # p
    <3>1. proc'[q] = proc[q]
      BY <1>4, <2>2
    <3>2. HoldsClaim(q)' => HoldsClaim(q) /\ outbox'[proc[q].lane] = outbox[proc[q].lane]
      BY <1>7, <2>2
    <3> QED
      BY <1>1, <3>1, <3>2 DEF ResultInv, Attempted
  <2> QED
    BY <2>1, <2>2
<1>10. EvidenceInv'
  <2>1. ASSUME NEW k \in Lanes
        PROVE  LET d == outbox'[k] IN
               /\ d.status = "delivered" => d.outcome = "accepted"
               /\ d.outcome = "accepted" => d.started /\ <<d.msg, d.id>> \in received'
               /\ Unsettled(d) /\ ~d.started => d.outcome = "none"
    <3>1. CASE k = l
      <4>1. outbox'[l].outcome = "none" /\ outbox'[l].started /\ outbox'[l].status # "delivered"
        BY <1>1, <1>2, <1>3, <1>5 DEF Unsettled
      <4> QED
        BY <3>1, <4>1
    <3>2. CASE k # l
      <4>1. outbox'[k] = outbox[k]
        BY <1>5, <3>2
      <4> QED
        BY <1>1, <4>1 DEF EvidenceInv
    <3> QED
      BY <3>1, <3>2
  <2> QED
    BY <2>1 DEF EvidenceInv, Unsettled
<1>11. ExposedInv'
  <2>1. ASSUME NEW k \in Lanes, Unsettled(outbox'[k]),
               ~outbox'[k].started \/ outbox'[k].outcome = "retryable_failure"
        PROVE  outbox'[k].msg \notin exposed' \cap Once
    <3>1. k # l
      BY <1>1, <1>3, <1>5, <2>1
    <3>2. outbox'[k] = outbox[k]
      BY <1>5, <3>1
    <3>3. outbox[k].msg \in Messages /\ outbox[k].msg # NoMsg
      BY <1>1, <2>1, <3>2, ConstantsAssumption DEF StableInv, MsgInv
    <3>4. LaneOf(outbox[k].msg) = k
      BY <1>1, <3>3 DEF StableInv, LaneInv
    <3>5. outbox[k].msg # m
      BY <1>2, <3>1, <3>4
    <3> QED
      BY <1>1, <2>1, <3>2, <3>5 DEF ExposedInv
  <2>2. ASSUME NEW q \in Procs, proc'[q].pc = "settle", proc'[q].outcome = "retryable_failure",
               HoldsClaim(q)'
        PROVE  proc'[q].msg \notin exposed' \cap Once
    <3>1. q # p /\ proc'[q] = proc[q]
      BY <1>4, <2>2
    <3>2. HoldsClaim(q) /\ proc[q].lane # l
      BY <1>7, <2>2, <3>1
    <3>3. proc[q].msg \in Messages
      BY <1>1, <2>2, <3>1 DEF StableInv, MsgInv
    <3>4. proc[q].msg # m
      BY <1>1, <1>2, <3>2, <3>3, Claimed
    <3> QED
      BY <1>1, <2>2, <3>1, <3>2, <3>4 DEF ExposedInv
  <2> QED
    BY <1>6, <2>1, <2>2 DEF ExposedInv, Unsettled
<1>12. TransportInv'
  <2>1. m \in Once => /\ \A x \in received : x[1] # m
                      /\ \A q \in Procs : proc[q].pc = "transport" => proc[q].msg # m
    BY <1>3 DEF TransportInv
  <2>2. ASSUME NEW q \in Procs, proc'[q].pc = "transport", proc'[q].msg \in Once
        PROVE  /\ proc'[q].msg \in exposed'
               /\ \A r \in Procs : proc'[r].pc = "transport" /\ proc'[r].msg = proc'[q].msg => q = r
               /\ \A x \in received' : x[1] = proc'[q].msg => x = Attempted(q)'
    <3>1. CASE q = p
      BY <1>1, <1>4, <2>1, <2>2, <3>1
    <3>2. CASE q # p
      <4>1. proc'[q] = proc[q] /\ Attempted(q)' = Attempted(q)
        BY <1>4, <3>2 DEF Attempted
      <4>2. \A r \in Procs : proc'[r].pc = "transport" /\ proc'[r].msg = proc'[q].msg => q = r
        BY <1>4, <2>1, <2>2, <4>1 DEF TransportInv
      <4>3. proc[q].msg \in exposed /\ \A x \in received : x[1] = proc[q].msg => x = Attempted(q)
        BY <2>2, <4>1 DEF TransportInv
      <4> QED
        BY <1>1, <4>1, <4>2, <4>3
    <3> QED
      BY <3>1, <3>2
  <2>3. \A x \in received' : x[1] \in Once =>
          x[1] \in exposed' /\ \A y \in received' : y[1] = x[1] => y = x
    BY <1>1 DEF TransportInv
  <2> QED
    BY <2>2, <2>3 DEF TransportInv
<1>13. OfferInv'
  <2>1. exposed' \subseteq log'
    BY <1>1, <1>2 DEF OfferInv
  <2>2. m \in Completions => status \in Released
    BY <1>1, <1>2, ConstantsAssumption DEF StableInv, LaneInv, Ends
  <2>3. m \in Blocking => l = "lifecycle"
    BY <1>2, ConstantsAssumption DEF Blocking, Prompts, LaneOf
  <2>4. \A b \in Blocking \cap exposed' : Shown(b)' => outbox'["lifecycle"].msg = b \/ status' \in Released
    BY <1>1, <1>2, <1>5, <2>3 DEF OfferInv, Shown, Lanes
  <2> QED
    BY <1>1, <1>6, <2>1, <2>2, <2>4 DEF OfferInv
<1>14. PromptInv'
  <2>1. ASSUME NEW k \in Lanes, Unsettled(outbox'[k]),
               outbox'[k].msg \in Prompts \ Approvals, prompt'[outbox'[k].msg] = "answered"
        PROVE  outbox'[k].outcome = "accepted"
    BY <1>1, <1>5, <2>1 DEF PromptInv, Unsettled
  <2> QED
    BY <1>1, <1>6, <2>1 DEF PromptInv, Shown, Unsettled
<1>15. ReleasedInv'
  BY <1>1, <1>5 DEF ReleasedInv, Unsettled, Lanes
<1>16. status # "closed" /\ (status = "idle" => m \in Ends)
  <2>1. status # "closed" /\ (status = "idle" => l # "notification")
    BY <1>1, <1>2, <1>3 DEF ReleasedInv
  <2> QED
    BY <1>1, <1>2, <2>1 DEF ReleasedInv, Lanes
<1> QED
  BY <1>1, <1>2, <1>3, <1>5, <1>8, <1>9, <1>10, <1>11, <1>12, <1>13, <1>14, <1>15, <1>16 DEF m

LEMMA ReachedStable ==
    ASSUME Holds, NEW p \in Procs, Reach(p)
    PROVE  DeliveryInv'
<1> USE DEF Holds, DeliveryInv
<1>1. /\ TypeOK /\ proc[p].pc = "transport" /\ received' = received \cup {Attempted(p)}
      /\ UNCHANGED <<status, marker, outbox, log, prompt, nextId, exposed, proc>>
  BY DEF Reach, IInv, turn
<1>2. IdInv' /\ ResultInv' /\ EvidenceInv'
  BY <1>1 DEF IdInv, ResultInv, EvidenceInv, HoldsClaim, Attempted, Unsettled
<1>3. ExposedInv' /\ OfferInv' /\ PromptInv' /\ ReleasedInv'
  BY <1>1 DEF ExposedInv, OfferInv, PromptInv, ReleasedInv, HoldsClaim, Unsettled, Shown
<1>4. TransportInv'
  <2> PICK a : a = Attempted(p)
    OBVIOUS
  <2>1. a[1] = proc[p].msg /\ received' = received \cup {a}
    BY <1>1 DEF Attempted
  <2>2. a[1] \in Once => a[1] \in exposed /\ \A x \in received : x[1] = a[1] => x = a
    BY <1>1, <2>1 DEF TransportInv
  <2>3. ASSUME NEW q \in Procs, proc[q].pc = "transport", proc[q].msg \in Once
        PROVE  /\ proc[q].msg \in exposed
               /\ \A r \in Procs : proc[r].pc = "transport" /\ proc[r].msg = proc[q].msg => q = r
               /\ \A x \in received' : x[1] = proc[q].msg => x = Attempted(q)
    <3>1. a[1] = proc[q].msg => q = p
      BY <1>1, <2>1, <2>3 DEF TransportInv
    <3> QED
      BY <2>1, <2>3, <3>1 DEF TransportInv
  <2>4. \A x \in received' : x[1] \in Once =>
          x[1] \in exposed' /\ \A y \in received' : y[1] = x[1] => y = x
    BY <1>1, <2>1, <2>2 DEF TransportInv
  <2> QED
    BY <1>1, <2>3, <2>4 DEF TransportInv, Attempted
<1> QED
  BY <1>2, <1>3, <1>4

LEMMA ReturnedStable ==
    ASSUME Holds, NEW p \in Procs, Return(p)
    PROVE  /\ DeliveryInv'
           /\ UNCHANGED <<status, log, received, outbox>>
           /\ exposed' = exposed \/ (exposed' = exposed \ {proc[p].msg} /\ Attempted(p) \notin received)
<1> USE DEF Holds, DeliveryInv
<1> DEFINE m == proc[p].msg
<1>1. /\ TypeOK /\ proc[p].pc = "transport" /\ proc[p].lane \in Lanes
      /\ UNCHANGED <<status, marker, outbox, log, prompt, nextId, received>>
  BY Typed DEF Return, IInv, turn
<1>2. PICK o \in Outcomes \ {"none"} :
        /\ o = "accepted" => Attempted(p) \in received
        /\ o \in {"retryable_failure", "permanent_failure"} => Attempted(p) \notin received
        /\ proc[p].outcome = "accepted" => o = "accepted"
        /\ proc' = [proc EXCEPT ![p].pc = "settle", ![p].outcome = o]
        /\ exposed' = IF o = "retryable_failure" THEN exposed \ {m} ELSE exposed
  BY DEF Return
<1>3. /\ proc'[p].pc = "settle" /\ proc'[p].id = proc[p].id /\ proc'[p].outcome = o
      /\ proc'[p].msg = m /\ proc'[p].lane = proc[p].lane /\ proc'[p].attempts = proc[p].attempts
      /\ \A q \in Procs \ {p} : proc'[q] = proc[q]
  <2> DEFINE r == [proc[p] EXCEPT !.pc = "settle", !.outcome = o]
  <2>1. /\ r.pc = "settle" /\ r.id = proc[p].id /\ r.outcome = o
        /\ r.msg = m /\ r.lane = proc[p].lane /\ r.attempts = proc[p].attempts
    BY <1>1, Typed DEF Process
  <2>2. proc' = [proc EXCEPT ![p] = r]
    BY <1>2
  <2> HIDE DEF r
  <2> QED
    BY <1>1, <2>1, <2>2, Typed
<1> HIDE DEF m
<1>4. /\ \A q \in Procs : proc'[q].pc \in Writing => q # p /\ proc'[q] = proc[q]
      /\ \A q \in Procs : proc'[q].id = proc[q].id
      /\ \A q \in Procs : HoldsClaim(q)' => HoldsClaim(q)
  <2>1. \A q \in Procs : q # p => proc'[q] = proc[q]
    BY <1>3
  <2>2. HoldsClaim(p)' => HoldsClaim(p)
    BY <1>1, <1>3 DEF HoldsClaim, m
  <2>3. \A q \in Procs : q # p /\ HoldsClaim(q)' => HoldsClaim(q)
    BY <1>1, <2>1 DEF HoldsClaim
  <2> QED
    BY <1>3, <2>1, <2>2, <2>3 DEF Writing
<1>5. IdInv'
  BY <1>1, <1>4 DEF IdInv
<1>6. ResultInv'
  <2> SUFFICES ASSUME NEW q \in Procs
               PROVE  /\ proc'[q].pc \in Writing \cup {"announce", "prepared"} => proc'[q].outcome = "none"
                      /\ proc'[q].pc \in {"transport", "settle"} /\ proc'[q].outcome = "accepted"
                            => Attempted(q)' \in received'
                      /\ proc'[q].pc \in {"transport", "settle"} /\ HoldsClaim(q)' =>
                            /\ outbox'[proc'[q].lane].started
                            /\ outbox'[proc'[q].lane].outcome = "accepted" => proc'[q].outcome = "accepted"
                      /\ proc'[q].pc = "settle" => proc'[q].outcome # "none"
    BY DEF ResultInv
  <2>1. CASE q = p
    <3>1. Attempted(p)' = Attempted(p)
      BY <1>3 DEF Attempted, m
    <3>2. HoldsClaim(p)' => /\ outbox[proc[p].lane].started
                            /\ outbox[proc[p].lane].outcome = "accepted" => o = "accepted"
      BY <1>1, <1>2, <1>4 DEF ResultInv
    <3> QED
      BY <1>1, <1>2, <1>3, <2>1, <3>1, <3>2 DEF Writing
  <2>2. CASE q # p
    BY <1>1, <1>3, <1>4, <2>2 DEF ResultInv, Attempted
  <2> QED
    BY <2>1, <2>2
<1>7. EvidenceInv' /\ ReleasedInv'
  BY <1>1 DEF EvidenceInv, ReleasedInv, Unsettled
<1>8. exposed' \subseteq exposed /\ (o = "retryable_failure" => m \notin exposed')
  BY <1>2
<1>9. ExposedInv'
  <2>1. ASSUME NEW q \in Procs, proc'[q].pc = "settle", proc'[q].outcome = "retryable_failure",
               HoldsClaim(q)'
        PROVE  proc'[q].msg \notin exposed' \cap Once
    <3>1. CASE q = p
      BY <1>3, <1>8, <2>1, <3>1
    <3>2. CASE q # p
      BY <1>3, <1>4, <1>8, <2>1, <3>2 DEF ExposedInv
    <3> QED
      BY <3>1, <3>2
  <2>2. \A q \in Procs : proc'[q].pc \in Writing => proc'[q].msg \notin exposed' \cap Once
    BY <1>4, <1>8 DEF ExposedInv
  <2>3. \A k \in Lanes : LET d == outbox'[k] IN
          Unsettled(d) /\ (~d.started \/ d.outcome = "retryable_failure")
              => d.msg \notin exposed' \cap Once
    BY <1>1, <1>8 DEF ExposedInv
  <2> QED
    BY <2>1, <2>2, <2>3 DEF ExposedInv, Unsettled
<1>10. TransportInv'
  <2>1. ASSUME NEW q \in Procs, proc'[q].pc = "transport", proc'[q].msg \in Once
        PROVE  /\ proc'[q].msg \in exposed'
               /\ \A r \in Procs : proc'[r].pc = "transport" /\ proc'[r].msg = proc'[q].msg => q = r
               /\ \A x \in received' : x[1] = proc'[q].msg => x = Attempted(q)'
    <3>1. q # p /\ proc'[q] = proc[q] /\ Attempted(q)' = Attempted(q)
      BY <1>3, <2>1 DEF Attempted
    <3>2. proc[q].msg # m /\ proc[q].msg \in exposed
      BY <1>1, <2>1, <3>1 DEF TransportInv, m
    <3>3. \A x \in received : x[1] = proc[q].msg => x = Attempted(q)
      BY <2>1, <3>1 DEF TransportInv
    <3>4. \A r \in Procs : proc'[r].pc = "transport" /\ proc'[r].msg = proc'[q].msg => q = r
      BY <1>3, <2>1, <3>1 DEF TransportInv
    <3>5. proc[q].msg \in exposed'
      BY <1>2, <3>2
    <3> QED
      BY <1>1, <3>1, <3>3, <3>4, <3>5
  <2>2. ASSUME NEW x \in received, x[1] \in Once
        PROVE  x[1] \in exposed' /\ \A y \in received : y[1] = x[1] => y = x
    <3>1. x[1] \in exposed /\ \A y \in received : y[1] = x[1] => y = x
      BY <2>2 DEF TransportInv
    <3>2. x[1] = m => o # "retryable_failure"
      BY <1>1, <1>2, <2>2 DEF TransportInv, m
    <3> QED
      BY <1>2, <3>1, <3>2
  <2> QED
    BY <1>1, <2>1, <2>2 DEF TransportInv
<1>11. OfferInv' /\ PromptInv'
  <2>1. OfferInv'
    BY <1>1, <1>4, <1>8 DEF OfferInv, Shown
  <2> QED
    BY <1>1, <1>4, <2>1 DEF PromptInv, Shown, Unsettled
<1> QED
  BY <1>1, <1>2, <1>5, <1>6, <1>7, <1>9, <1>10, <1>11 DEF m

(* --------------------- the steps of CallbackPromise ------------------- *)

\* What the closed or completed Turn keeps quiet, in one step.
Fenced ==
    /\ status = "closed" => status' = "closed" /\ log' = log /\ exposed' \subseteq exposed
    /\ status = "idle" => log' = log /\ exposed' \ exposed \subseteq Ends

Advances == DeliveryInv' /\ Fenced /\ (AsyncQuestions = {} => Promise!Next)

\* The same messages are recorded as delivered.
SameKnown ==
    \A l \in Lanes : /\ outbox'[l].status = "delivered" <=> outbox[l].status = "delivered"
                     /\ outbox[l].status = "delivered" => outbox'[l].msg = outbox[l].msg

LEMMA KnownFacts ==
    /\ \A c : c \in Known <=> \E l \in Lanes : outbox[l].status = "delivered" /\ outbox[l].msg = c
    /\ \A c : c \in Known' <=> \E l \in Lanes : outbox'[l].status = "delivered" /\ outbox'[l].msg = c
BY DEF Known

LEMMA KnownStays ==
    ASSUME SameKnown
    PROVE  Known' = Known
<1>1. ASSUME NEW c PROVE c \in Known' <=> c \in Known
  BY KnownFacts DEF SameKnown
<1> QED
  BY <1>1

\* A message is logged, or nothing the promise speaks of changes.
LEMMA Offers ==
    ASSUME TypeOK', log \subseteq log', UNCHANGED <<exposed, received>>, SameKnown
    PROVE  Promise!Next
<1>1. Known' = Known /\ Taken' = Taken
  BY KnownStays DEF Taken
<1>2. log' \in SUBSET Messages
  BY DEF TypeOK
<1> QED
  BY <1>1, <1>2 DEF Promise!Next, Promise!Offer

\* The host took a message once or not at all.
LEMMA TakenOnce ==
    ASSUME TransportInv, NEW m \in Messages, m \in Once
    PROVE  /\ \A x \in received : x[1] = m => Taken[m] = 1
           /\ (\A x \in received : x[1] # m) => Taken[m] = 0
<1>1. Taken[m] = Cardinality({x \in received : x[1] = m})
  BY DEF Taken
<1>2. ASSUME NEW x \in received, x[1] = m
      PROVE  Taken[m] = 1
  <2>1. {y \in received : y[1] = m} = {x}
    BY <1>2 DEF TransportInv
  <2> QED
    BY <1>1, <2>1, FS_Singleton
<1>3. ASSUME \A x \in received : x[1] # m
      PROVE  Taken[m] = 0
  <2>1. {y \in received : y[1] = m} = {}
    BY <1>3
  <2> QED
    BY <1>1, <2>1, FS_EmptySet
<1> QED
  BY <1>2, <1>3

\* A lane that recorded a delivery holds the message of it, no other lane does.
LEMMA DeliveredLane ==
    ASSUME Holds, NEW l \in Lanes, outbox[l].status = "delivered"
    PROVE  /\ outbox[l].msg \in Messages /\ LaneOf(outbox[l].msg) = l
           /\ <<outbox[l].msg, outbox[l].id>> \in received
<1>1. <<outbox[l].msg, outbox[l].id>> \in received
  BY DEF Holds, DeliveryInv, EvidenceInv
<1>2. outbox[l].msg \in Messages
  BY <1>1 DEF Holds, IInv, TypeOK
<1> QED
  BY <1>1, <1>2, ConstantsAssumption DEF Holds, IInv, StableInv, LaneInv

LEMMA AcknowledgedPromise ==
    ASSUME Holds, AsyncQuestions = {}, NEW l \in Lanes, Acknowledges(l),
           UNCHANGED <<log, exposed, received>>
    PROVE  Promise!Next
<1> USE DEF Holds, DeliveryInv
<1> DEFINE m == outbox[l].msg
<1>1. /\ TypeOK /\ TransportInv /\ outbox[l].status = "pending"
      /\ <<m, outbox[l].id>> \in received /\ outbox' = [outbox EXCEPT ![l] = Delivered(@)]
  BY DEF Acknowledges, IInv
<1>2. m \in Messages /\ m \in Once
  BY <1>1 DEF TypeOK, Once
<1>3. LaneOf(m) = l
  BY <1>2, ConstantsAssumption DEF IInv, StableInv, LaneInv
<1>4. Taken[m] = 1
  BY <1>1, <1>2, TakenOnce
<1>5. m \notin Known
  <2>1. ASSUME NEW k \in Lanes, outbox[k].status = "delivered", outbox[k].msg = m
        PROVE  FALSE
    BY <1>1, <1>3, <2>1, DeliveredLane
  <2> QED
    BY <2>1, KnownFacts
<1>6. Known' = Known \cup {m}
  <2>1. Delivered(outbox[l]).status = "delivered" /\ Delivered(outbox[l]).msg = m
    BY <1>1, Typed DEF Delivered, Delivery
  <2>2. /\ outbox'[l].status = "delivered" /\ outbox'[l].msg = m
        /\ \A k \in Lanes \ {l} : outbox'[k] = outbox[k]
    BY <1>1, <2>1, Typed
  <2>3. ASSUME NEW c PROVE c \in Known' <=> c \in Known \/ c = m
    BY <1>1, <2>2, KnownFacts
  <2> QED
    BY <2>3
<1>7. Taken' = Taken
  BY DEF Taken
<1>8. Promise!Acknowledge(m)
  BY <1>4, <1>5, <1>6, <1>7 DEF Promise!Acknowledge
<1> QED
  BY <1>2, <1>8 DEF Promise!Next

LEMMA FrozenPromise ==
    ASSUME Holds, TypeOK', NEW p \in Procs, NEW l \in Lanes, NEW m, Freezes(p, l, m)
    PROVE  Promise!Next
<1> USE DEF Holds
<1>1. /\ TypeOK /\ outbox'[l].status = "pending" /\ UNCHANGED <<log, exposed, received>>
      /\ \A k \in Lanes \ {l} : /\ outbox'[k].status = "delivered" <=> outbox[k].status = "delivered"
                                /\ outbox'[k].msg = outbox[k].msg
  BY SupersededKeeps DEF Freezes, IInv
<1>2. CASE outbox[l].status # "delivered"
  <2>1. SameKnown
    BY <1>1, <1>2 DEF SameKnown
  <2> QED
    BY <1>1, <2>1, Offers
<1>3. CASE outbox[l].status = "delivered"
  <2> DEFINE old == outbox[l].msg
  <2>1. old \in Messages /\ LaneOf(old) = l
    BY <1>3, DeliveredLane
  <2>2. old \in Known
    BY <1>3, KnownFacts
  <2>3. ASSUME NEW c PROVE c \in Known' <=> c \in Known /\ c # old
    <3>1. ASSUME NEW k \in Lanes \ {l}, outbox[k].status = "delivered"
          PROVE  outbox[k].msg # old
      BY <2>1, <3>1, DeliveredLane
    <3> QED
      BY <1>1, <1>3, <3>1, KnownFacts
  <2>4. Known' = Known \ {old}
    BY <2>3
  <2>5. Taken' = Taken
    BY <1>1 DEF Taken
  <2>6. Promise!Forget(old)
    BY <1>1, <2>2, <2>4, <2>5 DEF Promise!Forget
  <2> QED
    BY <2>1, <2>6 DEF Promise!Next
<1> QED
  BY <1>2, <1>3

LEMMA BegunPromise ==
    ASSUME Holds, AsyncQuestions = {}, NEW p \in Procs, BeginTransport(p)
    PROVE  Promise!Next
<1>1. /\ proc[p].msg \in log /\ proc[p].msg \in Messages /\ proc[p].msg \notin exposed \cap Once
      /\ exposed' = exposed \cup {proc[p].msg} /\ UNCHANGED <<log, received>>
      /\ SameKnown
  BY BegunStable DEF SameKnown
<1>2. Known' = Known /\ Taken' = Taken
  BY <1>1, KnownStays DEF Taken
<1>3. Promise!Expose(proc[p].msg)
  BY <1>1, <1>2 DEF Promise!Expose, Once
<1> QED
  BY <1>1, <1>3 DEF Promise!Next

LEMMA ReachedPromise ==
    ASSUME Holds, AsyncQuestions = {}, NEW p \in Procs, Reach(p)
    PROVE  Promise!Next
<1> USE DEF Holds, DeliveryInv
<1> DEFINE m == proc[p].msg
<1>1. /\ TypeOK /\ TransportInv /\ proc[p].pc = "transport" /\ Attempted(p) \notin received
      /\ received' = received \cup {Attempted(p)} /\ UNCHANGED <<log, exposed, outbox>>
  BY DEF Reach, IInv
<1>2. m \in Messages /\ m \in Once
  BY <1>1 DEF IInv, StableInv, MsgInv, Once
<1>3. m \in exposed /\ \A x \in received : x[1] # m
  BY <1>1, <1>2 DEF TransportInv
<1>4. Taken[m] = 0
  BY <1>1, <1>2, <1>3, TakenOnce
<1>5. Taken' = [Taken EXCEPT ![m] = 1]
  <2> PICK a : a = Attempted(p)
    OBVIOUS
  <2>0. a[1] = m /\ received' = received \cup {a}
    BY <1>1 DEF Attempted
  <2>1. ASSUME NEW n \in Messages
        PROVE  Taken'[n] = IF n = m THEN 1 ELSE Taken[n]
    <3>1. Taken'[n] = Cardinality({x \in received' : x[1] = n})
      BY DEF Taken
    <3>2. CASE n = m
      <4>1. {x \in received' : x[1] = n} = {a}
        BY <1>3, <2>0, <3>2
      <4> QED
        BY <3>1, <3>2, <4>1, FS_Singleton
    <3>3. CASE n # m
      <4>1. {x \in received' : x[1] = n} = {x \in received : x[1] = n}
        BY <2>0, <3>3
      <4> QED
        BY <3>1, <3>3, <4>1 DEF Taken
    <3> QED
      BY <3>2, <3>3
  <2>2. /\ Taken' = [n \in Messages |-> Taken'[n]]
        /\ [Taken EXCEPT ![m] = 1] = [n \in Messages |-> IF n = m THEN 1 ELSE Taken[n]]
    BY DEF Taken
  <2> HIDE DEF m
  <2> QED
    BY <2>1, <2>2
<1>6. Known' = Known
  BY <1>1 DEF Known
<1>7. Promise!Take(m)
  BY <1>1, <1>3, <1>4, <1>5, <1>6 DEF Promise!Take
<1> QED
  BY <1>2, <1>7 DEF Promise!Next

LEMMA ReturnedPromise ==
    ASSUME Holds, TypeOK', AsyncQuestions = {}, NEW p \in Procs, Return(p)
    PROVE  Promise!Next
<1> USE DEF Holds, DeliveryInv
<1> DEFINE m == proc[p].msg
<1>1. /\ UNCHANGED <<log, received, outbox>>
      /\ exposed' = exposed \/ (exposed' = exposed \ {m} /\ Attempted(p) \notin received)
  BY ReturnedStable
<1>2. CASE exposed' = exposed
  <2>1. SameKnown
    BY <1>1 DEF SameKnown
  <2> QED
    BY <1>1, <1>2, <2>1, Offers
<1>3. CASE exposed' = exposed \ {m} /\ Attempted(p) \notin received
  <2>1. TransportInv /\ proc[p].pc = "transport" /\ m \in Messages /\ m \in Once
    BY DEF Return, IInv, StableInv, MsgInv, Once
  <2>2. m \in exposed /\ \A x \in received : x[1] # m
    BY <1>3, <2>1 DEF TransportInv
  <2>3. Taken[m] = 0
    BY <2>1, <2>2, TakenOnce
  <2>4. Taken' = Taken /\ Known' = Known
    BY <1>1 DEF Taken, Known
  <2>5. Promise!Refuse(m)
    BY <1>1, <1>3, <2>2, <2>3, <2>4 DEF Promise!Refuse
  <2> QED
    BY <2>1, <2>5 DEF Promise!Next
<1> QED
  BY <1>1, <1>2, <1>3

(* ----------------------------- every step ----------------------------- *)

LEMMA StillFenced ==
    ASSUME Still
    PROVE  Fenced
  BY DEF Still, Fenced

\* A quiet step keeps the prompts, or comes from the world and the user.
LEMMA QuietAdvances ==
    ASSUME Holds, TypeOK', Quiet, Still, SameKnown, UNCHANGED <<prompt, marker, status>>
    PROVE  Advances
<1>1. DeliveryInv'
  BY QuietStable, QuietPrompts, QuietStatus DEF DeliveryInv
<1>2. Promise!Next
  BY Offers DEF Still
<1> QED
  BY <1>1, <1>2, StillFenced DEF Advances

LEMMA PrepareAdvances ==
    ASSUME Holds, TypeOK', NEW p \in Procs, Prepare(p)
    PROVE  Advances
<1>1. CASE Announces(p)
  <2>1. DeliveryInv'
    BY <1>1, AnnouncesStable
  <2>2. Promise!Next
    BY <1>1, Offers DEF Announces, SameKnown
  <2>3. Fenced
    BY <1>1 DEF Announces, Fenced, Released
  <2> QED
    BY <2>1, <2>2, <2>3 DEF Advances
<1>2. ASSUME NEW m \in Messages, Prepares(p, m)
      PROVE  Advances
  <2>1. DeliveryInv'
    BY <1>2, PreparesStable
  <2>2. /\ UNCHANGED <<outbox, log, exposed, received>>
        /\ status \notin Released
    BY <1>2 DEF Prepares, Starts
  <2>3. Promise!Next
    BY <2>2, Offers DEF SameKnown
  <2>4. Fenced
    BY <2>2 DEF Fenced, Released
  <2> QED
    BY <2>1, <2>3, <2>4 DEF Advances
<1> QED
  BY <1>1, <1>2, PreparesOnce

LEMMA StepAdvances ==
    ASSUME Holds, TypeOK', NEW p \in Procs, Step(p) \/ Reach(p) \/ Checkpoint(p) \/ Crash(p)
    PROVE  Advances
<1>1. CASE LoseClaim(p) \/ SettleSkipped(p) \/ ObserveAccepted(p) \/ ObserveRetryable(p)
             \/ ObserveNothing(p) \/ RejectRetry(p) \/ Recheck(p) \/ Crash(p)
  <2>1. Quiet /\ Still /\ UNCHANGED <<outbox, prompt, marker, status>>
    BY <1>1, AsideStep
  <2> QED
    BY <2>1, QuietAdvances DEF SameKnown
<1>2. CASE SettleDelivered(p) \/ SettleAccepted(p)
  <2>1. /\ Quiet /\ Still /\ UNCHANGED <<prompt, marker, status>>
        /\ outbox' = outbox \/ \E l \in Lanes : Acknowledges(l)
    BY <1>2, DeliveredQuiet
  <2>2. DeliveryInv' /\ Fenced
    BY <2>1, QuietStable, QuietPrompts, QuietStatus, StillFenced DEF DeliveryInv
  <2>3. AsyncQuestions = {} => Promise!Next
    <3>1. CASE outbox' = outbox
      BY <2>1, <3>1, Offers DEF SameKnown, Still
    <3>2. ASSUME NEW l \in Lanes, Acknowledges(l), AsyncQuestions = {}
          PROVE  Promise!Next
      BY <2>1, <3>2, AcknowledgedPromise DEF Still
    <3> QED
      BY <2>1, <3>1, <3>2
  <2> QED
    BY <2>2, <2>3 DEF Advances
<1>3. CASE AppendMessage(p)
  <2>1. DeliveryInv'
    BY <1>3, AppendedStable
  <2>2. status \notin Released
    BY <1>3 DEF AppendMessage, Holds, IInv, StableInv, WriteInv, Writing
  <2>3. Promise!Next
    BY <1>3, Offers DEF AppendMessage, SameKnown, host
  <2> QED
    BY <2>1, <2>2, <2>3 DEF Advances, Fenced, Released
<1>4. CASE SavePrepared(p)
  <2>1. DeliveryInv' /\ status \notin Released
    BY <1>4, SavedStable
  <2>2. Promise!Next
    BY <1>4, SaveFreezes, FrozenPromise, Typed DEF Holds, IInv
  <2> QED
    BY <2>1, <2>2 DEF Advances, Fenced, Released
<1>5. CASE AnnounceStall(p)
  <2>1. DeliveryInv'
    BY <1>5, AnnouncedStable
  <2>2. UNCHANGED <<status, log, exposed, received, outbox>>
    BY <1>5 DEF AnnounceStall, turn, host
  <2>3. Promise!Next
    BY <2>2, Offers DEF SameKnown
  <2> QED
    BY <2>1, <2>2, <2>3 DEF Advances, Fenced
<1>6. CASE BeginTransport(p)
  <2>1. /\ DeliveryInv' /\ UNCHANGED <<status, log>>
        /\ status # "closed" /\ exposed' = exposed \cup {proc[p].msg}
        /\ status = "idle" => proc[p].msg \in Ends
    BY <1>6, BegunStable
  <2>2. Fenced
    BY <2>1 DEF Fenced
  <2> QED
    BY <1>6, <2>1, <2>2, BegunPromise DEF Advances
<1>7. CASE Return(p)
  <2>1. DeliveryInv' /\ UNCHANGED <<status, log>> /\ exposed' \subseteq exposed
    BY <1>7, ReturnedStable
  <2> QED
    BY <1>7, <2>1, ReturnedPromise DEF Advances, Fenced
<1>8. CASE SettleFailed(p)
  <2>1. DeliveryInv' /\ SameKnown
    BY <1>8, FailedStable DEF SameKnown
  <2>2. UNCHANGED <<status, log, exposed, received>>
    BY <1>8 DEF SettleFailed, turn, host
  <2>3. Promise!Next
    BY <2>1, <2>2, Offers
  <2> QED
    BY <2>1, <2>2, <2>3 DEF Advances, Fenced
<1>9. CASE PrepareRetry(p)
  <2>1. DeliveryInv' /\ UNCHANGED <<status, log, exposed>>
    BY <1>9, RetriedStable
  <2>2. Promise!Next
    BY <1>9, RetryFreezes, FrozenPromise
  <2> QED
    BY <2>1, <2>2 DEF Advances, Fenced
<1>10. CASE Reach(p)
  <2>1. DeliveryInv' /\ UNCHANGED <<status, log, exposed>>
    BY <1>10, ReachedStable DEF Reach, turn
  <2> QED
    BY <1>10, <2>1, ReachedPromise DEF Advances, Fenced
<1>11. CASE Checkpoint(p)
  <2>1. DeliveryInv' /\ SameKnown
    BY <1>11, CheckpointStable DEF SameKnown
  <2>2. UNCHANGED <<status, log, exposed, received>>
    BY <1>11 DEF Checkpoint, turn, host
  <2>3. Promise!Next
    BY <2>1, <2>2, Offers
  <2> QED
    BY <2>1, <2>2, <2>3 DEF Advances, Fenced
<1> QED
  BY <1>1, <1>2, <1>3, <1>4, <1>5, <1>6, <1>7, <1>8, <1>9, <1>10, <1>11 DEF Step

LEMMA RestAdvances ==
    ASSUME Holds, TypeOK',
           \/ \E p \in Procs, l \in Lanes : ManualRetry(p, l)
           \/ \E l \in Lanes : ReconcileAccepted(l) \/ ReconcileRetryable(l) \/ LeaseExpires(l)
           \/ Environment
    PROVE  Advances
<1>1. ASSUME NEW p \in Procs, NEW l \in Lanes, ManualRetry(p, l)
      PROVE  Advances
  <2>1. Quiet /\ Still /\ UNCHANGED <<outbox, prompt, marker, status>>
    BY <1>1, AsideStep
  <2> QED
    BY <2>1, QuietAdvances DEF SameKnown
<1>2. ASSUME NEW l \in Lanes, ReconcileRetryable(l)
      PROVE  Advances
  <2>0. PICK p \in Procs : TRUE
    BY <1>2 DEF ReconcileRetryable, FreeProcs
  <2>1. Quiet /\ Still /\ UNCHANGED <<outbox, prompt, marker, status>>
    BY <1>2, <2>0, AsideStep
  <2> QED
    BY <2>1, QuietAdvances DEF SameKnown
<1>3. ASSUME NEW l \in Lanes, ReconcileAccepted(l)
      PROVE  Advances
  <2>1. /\ Quiet /\ Still /\ UNCHANGED <<prompt, marker, status>>
        /\ outbox' = outbox \/ \E k \in Lanes : Acknowledges(k)
    BY <1>3, DeliveredQuiet
  <2>2. DeliveryInv' /\ Fenced
    BY <2>1, QuietStable, QuietPrompts, QuietStatus, StillFenced DEF DeliveryInv
  <2>3. AsyncQuestions = {} => Promise!Next
    <3>1. CASE outbox' = outbox
      BY <2>1, <3>1, Offers DEF SameKnown, Still
    <3>2. ASSUME NEW k \in Lanes, Acknowledges(k), AsyncQuestions = {}
          PROVE  Promise!Next
      BY <2>1, <3>2, AcknowledgedPromise DEF Still
    <3> QED
      BY <2>1, <3>1, <3>2
  <2> QED
    BY <2>2, <2>3 DEF Advances
<1>4. ASSUME NEW l \in Lanes, LeaseExpires(l)
      PROVE  Advances
  <2>1. /\ Quiet /\ Still /\ UNCHANGED <<prompt, marker, status>>
        /\ \A k \in Lanes : outbox'[k].status = outbox[k].status /\ outbox'[k].msg = outbox[k].msg
    BY <1>4, LeaseQuiet
  <2>2. SameKnown
    BY <2>1 DEF SameKnown
  <2> QED
    BY <2>1, <2>2, QuietAdvances
<1>5. CASE Environment
  <2>1. /\ Still /\ \A l \in Lanes : outbox'[l] \in {outbox[l], Superseded(outbox[l])}
    BY <1>5, EnvironmentQuiet
  <2>2. SameKnown
    BY <2>1, SupersededKeeps DEF SameKnown, Holds, IInv
  <2>3. Promise!Next
    BY <2>1, <2>2, Offers DEF Still
  <2> QED
    BY <1>5, <2>1, <2>3, EnvironmentStable, StillFenced DEF Advances
<1> QED
  BY <1>1, <1>2, <1>3, <1>4, <1>5

LEMMA NextAdvances ==
    ASSUME Holds, TypeOK', Next
    PROVE  Advances
BY PrepareAdvances, StepAdvances, RestAdvances DEF Next

\* What is not to change when nothing does.
LEMMA IdleStep ==
    ASSUME Holds, UNCHANGED vars
    PROVE  DeliveryInv' /\ Fenced /\ UNCHANGED Promise!promise
<1>1. UNCHANGED <<status, marker, outbox, log, proc, prompt, nextId, received, exposed>>
  BY DEF vars, turn, host
<1>2. IdInv' /\ ResultInv' /\ EvidenceInv' /\ ExposedInv'
  BY <1>1 DEF Holds, DeliveryInv, IdInv, ResultInv, EvidenceInv, ExposedInv, HoldsClaim, Attempted, Unsettled
<1>3. TransportInv' /\ OfferInv' /\ PromptInv' /\ ReleasedInv'
  BY <1>1 DEF Holds, DeliveryInv, TransportInv, OfferInv, PromptInv, ReleasedInv, Attempted, Shown, Unsettled
<1>4. Taken' = Taken /\ Known' = Known
  BY <1>1 DEF Taken, Known
<1> QED
  BY <1>1, <1>2, <1>3, <1>4 DEF DeliveryInv, Fenced, Promise!promise

LEMMA DeliveryInitial == Init => DeliveryInv
<1> SUFFICES ASSUME Init PROVE DeliveryInv
  OBVIOUS
<1>1. /\ \A l \in Lanes : outbox[l] = EmptyDelivery
      /\ \A p \in Procs : proc[p] = Idle
      /\ received = {} /\ exposed = {} /\ log = {} /\ nextId = 1
      /\ status = "waiting_for_agent" /\ \A k \in Kinds : marker[k] = NoMsg
      /\ \A m \in Prompts : prompt[m] = "new"
  BY DEF Init
<1>2. /\ EmptyDelivery.status = "none" /\ EmptyDelivery.id = 0 /\ EmptyDelivery.outcome = "none"
      /\ Idle.pc = "free" /\ Idle.id = 0
  BY DEF EmptyDelivery, Idle
<1>3. IdInv /\ ResultInv
  BY <1>1, <1>2 DEF IdInv, ResultInv, Writing
<1>4. EvidenceInv /\ ExposedInv /\ TransportInv /\ OfferInv
  BY <1>1, <1>2 DEF EvidenceInv, ExposedInv, TransportInv, OfferInv, Unsettled, Writing
<1>5. PromptInv /\ ReleasedInv
  BY <1>1, <1>2 DEF PromptInv, ReleasedInv, Shown, Unsettled, Writing, Blocking, Prompts
<1> QED
  BY <1>3, <1>4, <1>5 DEF DeliveryInv

\* The lanes, the transports in progress, the offers, the prompts and the
\* released Turn agree with what the host took (the conjuncts of DeliveryInv).
THEOREM DeliveryHolds == Spec => []Holds
<1>1. Init => Holds
  BY Initial, DeliveryInitial DEF Holds
<1>2. Holds /\ [Next]_vars => Holds'
  <2> SUFFICES ASSUME Holds, [Next]_vars PROVE Holds'
    OBVIOUS
  <2>1. IInv' /\ TypeOK'
    BY Inductive DEF Holds, IInv
  <2>2. CASE Next
    BY <2>1, <2>2, NextAdvances DEF Advances, Holds
  <2>3. CASE UNCHANGED vars
    BY <2>1, <2>3, IdleStep DEF Holds
  <2> QED
    BY <2>2, <2>3
<1> QED
  BY <1>1, <1>2, PTL DEF Spec

\* A lane records as delivered only what the host took in, and keeps nothing
\* open for retry that some transport may have delivered.
THEOREM EvidenceHolds == Spec => []EvidenceIsTrue
<1>1. Holds => EvidenceIsTrue
  <2> SUFFICES ASSUME Holds, NEW l \in Lanes
               PROVE  LET d == outbox[l] IN
                      /\ d.status = "delivered" => <<d.msg, d.id>> \in received
                      /\ Retryable(d) => d.msg \notin exposed \ AsyncQuestions
    BY DEF EvidenceIsTrue
  <2>1. outbox[l].status = "delivered" => <<outbox[l].msg, outbox[l].id>> \in received
    BY DEF Holds, DeliveryInv, EvidenceInv
  <2>2. ASSUME Retryable(outbox[l])
        PROVE  outbox[l].msg \notin exposed \ AsyncQuestions
    <3>1. /\ Unsettled(outbox[l])
          /\ ~outbox[l].started \/ outbox[l].outcome = "retryable_failure"
      BY <2>2 DEF Retryable, Undecided, StartedWithoutOutcome
    <3>2. exposed \subseteq Messages
      BY DEF Holds, IInv, TypeOK
    <3> QED
      BY <3>1, <3>2 DEF Holds, DeliveryInv, ExposedInv, Once
  <2> QED
    BY <2>1, <2>2
<1> QED
  BY <1>1, DeliveryHolds, PTL

\* The host takes no message twice, whatever is retried, superseded, recovered
\* or reconciled, except an asynchronous question.
TakenAtMostOnce ==
    \A x, y \in received : x[1] = y[1] /\ x[1] \notin AsyncQuestions => x = y

THEOREM NothingTwice == Spec => []TakenAtMostOnce
<1>1. Holds => TakenAtMostOnce
  <2> SUFFICES ASSUME Holds, NEW x \in received, NEW y \in received,
                      x[1] = y[1], x[1] \notin AsyncQuestions
               PROVE  x = y
    BY DEF TakenAtMostOnce
  <2>1. x[1] \in Once
    BY DEF Holds, IInv, TypeOK, Once
  <2> QED
    BY <2>1 DEF Holds, DeliveryInv, TransportInv
<1> QED
  BY <1>1, DeliveryHolds, PTL

\* A closed Turn logs nothing and hands nothing more to a transport; after the
\* end of a Turn's task only what ended it is handed to one.
THEOREM ReleasedIsQuiet == Spec => ReleasedTurnIsQuiet
<1>1. Holds /\ Holds' /\ [Next]_vars =>
        [/\ status = "closed" => status' = "closed" /\ log' = log /\ exposed' \subseteq exposed
         /\ status = "idle" => log' = log /\ exposed' \ exposed \subseteq Ends]_vars
  <2>1. Holds /\ Holds' /\ Next => Fenced
    BY NextAdvances DEF Holds, IInv, Advances
  <2> QED
    BY <2>1 DEF Fenced
<1> QED
  BY <1>1, DeliveryHolds, PTL DEF Spec, ReleasedTurnIsQuiet

\* The callback of an answered questionnaire is not handed to a transport.
THEOREM AnsweredIsFenced == Spec => AnsweredInteractionIsFenced
<1>1. Holds /\ [Next]_vars =>
        [\A p \in Procs : BeginTransport(p) => LET m == proc[p].msg IN
           ~(m \in Prompts \ Approvals /\ prompt[m] = "answered")]_vars
  <2> SUFFICES ASSUME Holds, NEW p \in Procs, BeginTransport(p),
                      proc[p].msg \in Prompts \ Approvals, prompt[proc[p].msg] = "answered"
               PROVE  FALSE
    OBVIOUS
  <2> DEFINE l == proc[p].lane
  <2>1. /\ l \in Lanes /\ HoldsClaim(p) /\ ~outbox[l].started
        /\ outbox[l].msg = proc[p].msg /\ Unsettled(outbox[l])
    BY Typed DEF BeginTransport, HoldsClaim, Unsettled, Holds, IInv
  <2>2. outbox[l].outcome = "none"
    BY <2>1 DEF Holds, DeliveryInv, EvidenceInv
  <2>3. outbox[l].outcome = "accepted"
    BY <2>1 DEF Holds, DeliveryInv, PromptInv
  <2> QED
    BY <2>2, <2>3
<1> QED
  BY <1>1, DeliveryHolds, PTL DEF Spec, AnsweredInteractionIsFenced

\* The outbox implements CallbackPromise step by step, for Turns without
\* asynchronous questions: such a question is offered again after it lost its
\* lane, whatever became of its last transport.
THEOREM PromiseIsKept == AsyncQuestions = {} => (Spec => KeepsPromise)
<1> SUFFICES ASSUME AsyncQuestions = {} PROVE Spec => KeepsPromise
  OBVIOUS
<1>1. Init => Promise!Init
  <2> SUFFICES ASSUME Init PROVE Promise!Init
    OBVIOUS
  <2>1. log = {} /\ exposed = {} /\ received = {} /\ \A l \in Lanes : outbox[l].status = "none"
    BY DEF Init, EmptyDelivery
  <2>2. Known = {}
    BY <2>1 DEF Known
  <2>3. Taken = [m \in Messages |-> 0]
    <3>1. {x \in received : FALSE} = {}
      OBVIOUS
    <3>2. \A m \in Messages : {x \in received : x[1] = m} = {}
      BY <2>1
    <3> QED
      BY <3>2, FS_EmptySet DEF Taken
  <2> QED
    BY <2>1, <2>2, <2>3 DEF Promise!Init
<1>2. Holds /\ Holds' /\ [Next]_vars => [Promise!Next]_(Promise!promise)
  BY NextAdvances, IdleStep DEF Holds, IInv, Advances
<1> QED
  BY <1>1, <1>2, DeliveryHolds, PTL DEF Spec, KeepsPromise, Promise!Spec
=============================================================================

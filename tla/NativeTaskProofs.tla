--------------------------- MODULE NativeTaskProofs ---------------------------
(***************************************************************************)
(* Every step of NativeTask keeps the invariant of NativeTaskLemmas and is *)
(* a step of CallbackPromise: one lemma per action, and the theorems that  *)
(* follow, for any processes, messages, Watches, turns and questions and   *)
(* any number of troubles.                                                 *)
(***************************************************************************)
EXTENDS NativeTaskLemmas

-----------------------------------------------------------------------------
(* ---------------------------- the processes ---------------------------- *)

\* What an observation announces was asked, and what it drops was answered.
LEMMA CarriesAnnounced ==
  ASSUME NEW t, NEW x, NEW s, NEW y, Carries(t, x, s, y), Fits(x, s), Seen(t, s), Announced(x)
  PROVE  Announced(y)
<1> SUFFICES ASSUME NEW q \in Questions, Has(y, Asked(q))
             PROVE  /\ asking[q] # "unasked"
                    /\ q \notin y.pending => asking[q] = "done"
                    /\ asking[q] = "open" => y.turn # None /\ y.turn \in Running
  BY DEF Announced
<1>1. CASE Has(x, Asked(q))
  <2>1. /\ asking[q] # "unasked" /\ (q \notin x.pending => asking[q] = "done")
        /\ asking[q] = "open" => x.turn # None /\ x.turn \in Running
    BY <1>1 DEF Announced
  <2>2. y.pending = x.pending \/ (s # Unavailable /\ y.pending = s.pending)
    BY DEF Carries
  <2>3. x.turn # None => y.turn = x.turn
    BY DEF Carries
  <2>4. s # Unavailable /\ q \notin s.pending => asking[q] = "done"
    BY <1>1 DEF Fits
  <2> QED
    BY <2>1, <2>2, <2>3, <2>4
<1>2. CASE ~Has(x, Asked(q))
  <2>1. s # Unavailable /\ y.turn # None /\ y.pending = s.pending /\ q \in s.pending
    BY <1>2 DEF Carries
  <2>2. asking[q] # "unasked" /\ (asking[q] = "open" => s.bind \in Running)
    BY <2>1 DEF Seen
  <2>3. y.turn = s.bind
    BY <2>1 DEF Carries, Fits
  <2> QED
    BY <2>1, <2>2, <2>3
<1> QED
  BY <1>1, <1>2

\* A save that continues the stored record by what was observed of it.
LEMMA CarriesSave ==
  ASSUME IInv, NEW p \in Procs, NEW t \in Ids, NEW s, NEW y, NEW after,
         SaveBy(p, t, y, after), UNCHANGED native, UNCHANGED <<heard, exposed>>,
         Stored(t), Carries(t, task[t], s, y), Fits(task[t], s), Seen(t, s),
         y.renewals <= troubles', troubles' >= troubles, troubles' \in 0 .. MaxTroubles,
         after.pc \in Pcs \ (Sending \cup Calls \cup {"observed", "preflight"}),
         after.pc # "idle" => after.id = t
  PROVE  Advances
<1> DEFINE x == task[t]
<1>1. /\ TypeInv /\ TurnInv /\ SendInv /\ WatchInv /\ RenewInv /\ AskInv /\ OutboxInv
  BY DEF IInv
<1>2. /\ task'[t] = y /\ job'[p] = after /\ \A u \in Ids \ {t} : task'[u] = task[u]
  BY <1>1, SaveFacts
<1>3. WellFormed(t, y) /\ Passed(x.box, y.box) /\ y # Absent
  BY NotAbsent DEF Carries
<1>4. Keyed(x.box, y.box)
  BY <1>3, PassedKeys
<1>5. JobOK(p)'
  <2>1. job'[p].pc \in Pcs /\ job'[p].pc \notin Sending \cup Calls \cup {"observed", "preflight"}
    BY <1>2
  <2>2. job'[p].pc # "idle" => job'[p].id = t
    BY <1>2
  <2>3. task'[t] # Absent
    BY <1>2, <1>3
  <2>4. "result" \in Sending
    BY DEF Sending
  <2> QED
    BY <2>1, <2>2, <2>3, <2>4 DEF JobOK, Stored
<1>6. TypeInv'
  <2>1. heard' \in [Notices -> Nat] /\ exposed' \subseteq Notices
    BY <1>1 DEF TypeInv
  <2> QED
    BY <1>1, <1>3, <1>4, <1>5, <2>1, SaveType
<1>7. TurnInv'
  <2>1. y.turn # None => turn[y.turn] # "none" /\ (t \in Messages => starts[t] > 0)
    BY <1>1 DEF Carries, Seen, TurnInv
  <2> QED
    BY <1>1, <2>1, SaveTurn
<1>8. SendInv'
  <2>1. ASSUME NEW r \in Procs, x.intent = "not_sent", job[r].pc \in Sending
        PROVE  job[r].id # t
    BY <1>1, <2>1 DEF SendInv
  <2>2. t \in Messages /\ y.intent = "not_sent" =>
           ~Sent(t) /\ \A r \in Procs \ {p} : job[r].pc \in Sending => job[r].id # t
    BY <1>1, <2>1 DEF Carries, SendInv
  <2>3. Engaged(t)' => Engaged(t)
    <3>1. \A pc : pc \in {"start", "dispatch", "wait"} => pc \in Sending
      BY DEF Sending
    <3>2. \A r \in Procs \ {p} : Others(r, t)
      BY <1>1, SaveFacts
    <3>3. Sent(t)' <=> Sent(t)
      BY DEF Sent, native
    <3> QED
      BY <1>2, <3>1, <3>2, <3>3, NotIdle DEF Engaged, Others
  <2>4. t \in Messages /\ UnresolvedSend(y) /\ Engaged(t)' => UnresolvedSend(task[t]) /\ Engaged(t)
    <3>1. t \in Messages /\ x.intent = "not_sent" => ~Engaged(t)
      <4>1. \A pc : pc \in {"start", "dispatch", "wait"} => pc \in Sending
        BY DEF Sending
      <4> QED
        BY <1>1, <2>1, <4>1 DEF Engaged, SendInv
    <3>2. UnresolvedSend(y) => UnresolvedSend(x) \/ x.intent = "not_sent"
      BY DEF Carries
    <3> QED
      BY <2>3, <3>1, <3>2
  <2>5. after.pc \notin Sending
    OBVIOUS
  <2> QED
    BY <1>1, <1>3, <2>2, <2>4, <2>5, SaveSend
<1>9. WatchInv' /\ RenewInv'
  <2>1. troubles' \in Nat /\ after.pc # "observed"
    BY NativeAssumption
  <2> QED
    BY <1>1, <2>1, SaveWatch
<1>10. AskInv'
  <2>1. Announced(y)
    BY <1>1, CarriesAnnounced DEF AskInv
  <2> QED
    BY <1>1, <2>1, SaveAsk
<1>11. OutboxInv'
  BY <1>1, <1>3, SaveOutbox
<1>12. IInv'
  BY <1>6, <1>7, <1>8, <1>9, <1>10, <1>11 DEF IInv
<1>13. \A q \in Questions : Has(x, Asked(q)) /\ q \in y.pending => q \in x.pending
  BY DEF Carries, Fits
<1> QED
  BY <1>2, <1>3, <1>12, <1>13, PassedNoted, SaveAdvances

\* A step of process p that saves nothing.
LEMMA GotoStep ==
  ASSUME IInv, NEW p \in Procs, NEW after, Goto(p, after),
         UNCHANGED native, UNCHANGED <<heard, exposed>>,
         troubles' >= troubles, troubles' \in 0 .. MaxTroubles,
         JobOK(p)', after.pc \notin Calls,
         after.pc \in Sending =>
           job[p].pc = "start" /\ job[p].id = after.id /\ after.pc = "result",
         after.pc # "idle" =>
           \/ after.id \in Messages \/ Stored(after.id)
           \/ \A r \in Procs \ {p} : job[r].pc # "idle" => job[r].id # after.id,
         after.pc = "observed" =>
           /\ after.why = "watch" =>
                /\ after.id \in Watches /\ ~Stored(after.id) /\ after.fresh
                /\ after.snap # Unavailable /\ after.snap.bind # None
                /\ \A r \in Procs \ {p} : job[r].pc # "idle" => job[r].id # after.id
           /\ after.why = "renew" => task[after.id].renewals < troubles'
           /\ Seen(after.id, after.snap)
           /\ after.why # "watch" => Fits(task[after.id], after.snap)
  PROVE  Advances
<1>1. /\ TypeInv /\ TurnInv /\ SendInv /\ WatchInv /\ RenewInv /\ AskInv /\ OutboxInv
  BY DEF IInv
<1>2. /\ task' = task /\ DOMAIN job' = Procs /\ job'[p] = after
      /\ \A r \in Procs \ {p} : job'[r] = job[r]
  BY <1>1, GotoFacts
<1>3. /\ turn' = turn /\ latest' = latest /\ home' = home /\ shown' = shown /\ wire' = wire
      /\ starts' = starts /\ asking' = asking
  BY DEF native
<1>4. ASSUME NEW r \in Procs
      PROVE  JobOK(r)'
  <2>1. CASE r = p
    BY <2>1
  <2>2. CASE r # p
    BY <1>1, <1>2, <2>2, JobStays DEF TypeInv
  <2> QED
    BY <2>1, <2>2
<1>5. TypeInv'
  BY <1>1, <1>2, <1>3, <1>4 DEF TypeInv, Stored
<1>6. TurnInv'
  BY <1>1, <1>2, <1>3 DEF TurnInv, Stored, Running, Pending
<1>7. SendInv'
  <2>1. \A m : Sent(m)' <=> Sent(m)
    BY <1>3 DEF Sent
  <2>2. "start" \in Sending
    BY DEF Sending
  <2>3. \A r \in Procs : job'[r].pc \in Sending =>
          /\ job[r].pc \in Sending /\ job'[r].id = job[r].id
          /\ job'[r] = job[r] \/ (job[r].pc = "start" /\ job'[r].pc = "result")
    BY <1>2, <2>2
  <2>4. \A r \in Procs : job'[r].pc \in {"start", "dispatch", "wait"} => job'[r] = job[r]
    <3>1. \A pc : pc \in {"start", "dispatch", "wait"} => pc \in Sending /\ pc # "result"
      BY DEF Sending
    <3> QED
      BY <2>3, <3>1
  <2>5. \A m \in Messages : Engaged(m)' => Engaged(m)
    BY <2>1, <2>4 DEF Engaged
  <2>6. ASSUME NEW r \in Procs, job'[r].pc \in Sending
        PROVE  /\ task'[job'[r].id].intent # "not_sent"
               /\ job'[r].pc \in {"start", "dispatch"} => ~Sent(job[r].id)'
               /\ job'[r].pc = "result" /\ job'[r].outcome = "not_sent" => ~Sent(job[r].id)'
    <3> DEFINE m == job[r].id
    <3>1. /\ job[r].pc \in Sending /\ job'[r].id = m
          /\ job'[r] = job[r] \/ (job[r].pc = "start" /\ job'[r].pc = "result")
      BY <2>3, <2>6
    <3>2. /\ task[m].intent # "not_sent"
          /\ job[r].pc \in {"start", "dispatch"} => ~Sent(m)
          /\ job[r].pc = "result" /\ job[r].outcome = "not_sent" => ~Sent(m)
      BY <1>1, <3>1 DEF SendInv
    <3> HIDE DEF m
    <3>3. Sent(job[r].id)' <=> Sent(m)
      BY <1>3, <3>1 DEF Sent
    <3>4. /\ job'[r].pc \in {"start", "dispatch"} => ~Sent(m)
          /\ job'[r].pc = "result" /\ job'[r].outcome = "not_sent" => ~Sent(m)
      BY <3>1, <3>2
    <3> QED
      BY <1>2, <3>1, <3>2, <3>3, <3>4
  <2>7. \A r, q \in Procs :
          job'[r].pc \in Sending /\ job'[q].pc \in Sending /\ job'[r].id = job'[q].id => r = q
    BY <1>1, <2>3 DEF SendInv
  <2>8. \A m \in Messages :
          /\ starts'[m] + (IF m \in wire' THEN 1 ELSE 0) <= 1
          /\ Sent(m)' => Stored(m)'
          /\ Stored(m)' /\ task'[m].intent = "not_sent" => ~Sent(m)'
    BY <1>1, <1>2, <1>3, <2>1 DEF SendInv, Stored
  <2>9. \A m, n \in Messages :
          /\ Engaged(m)' /\ Stored(m)' /\ UnresolvedSend(task'[m])
          /\ Engaged(n)' /\ Stored(n)' /\ UnresolvedSend(task'[n])
          => m = n
    BY <1>1, <1>2, <2>5 DEF SendInv, Stored
  <2> QED
    BY <2>6, <2>7, <2>8, <2>9 DEF SendInv
<1>8. WatchInv'
  <2> SUFFICES ASSUME NEW r \in Procs, job'[r].pc = "observed", job'[r].why = "watch"
               PROVE  /\ job'[r].id \in Watches /\ task'[job'[r].id] = Absent /\ job'[r].fresh
                      /\ job'[r].snap # Unavailable /\ job'[r].snap.bind # None
                      /\ \A q \in Procs \ {r} : job'[q].pc # "idle" => job'[q].id # job'[r].id
    BY DEF WatchInv, Stored, Unavailable
  <2>1. CASE r = p
    BY <1>2, <2>1 DEF Stored
  <2>2. CASE r # p
    <3>1. job'[r] = job[r]
      BY <1>2, <2>2
    <3>2. /\ job[r].id \in Watches /\ task[job[r].id] = Absent /\ job[r].fresh
          /\ job[r].snap # Unavailable /\ job[r].snap.bind # None
          /\ \A q \in Procs \ {r} : job[q].pc # "idle" => job[q].id # job[r].id
      BY <1>1, <3>1 DEF WatchInv, Stored
    <3>3. after.pc # "idle" => after.id # job[r].id
      BY <2>2, <3>1, <3>2, NativeAssumption DEF Stored
    <3> QED
      BY <1>2, <2>2, <3>1, <3>2, <3>3
  <2> QED
    BY <2>1, <2>2
<1>9. RenewInv'
  <2>1. \A u \in Ids : Stored(u) => task[u].renewals \in Nat
    BY <1>1 DEF TypeInv, WellFormed, RecordType
  <2>2. troubles \in Nat /\ troubles' \in Nat
    BY <1>1, NativeAssumption DEF TypeInv
  <2>3. \A u \in Ids : Stored(u)' => task'[u].renewals <= troubles'
    BY <1>1, <1>2, <2>1, <2>2 DEF RenewInv, Stored
  <2>4. ASSUME NEW r \in Procs, job'[r].pc = "observed", job'[r].why = "renew", job'[r].fresh
        PROVE  task'[job'[r].id].renewals < troubles'
    <3>1. CASE r = p
      BY <1>2, <2>4, <3>1
    <3>2. CASE r # p
      <4>1. job'[r] = job[r] /\ task[job[r].id].renewals < troubles
        BY <1>1, <1>2, <2>4, <3>2 DEF RenewInv
      <4>2. job[r].id \in Ids /\ Stored(job[r].id)
        BY <1>1, <2>4, <4>1 DEF TypeInv, JobOK
      <4>3. task[job[r].id].renewals \in Nat
        BY <2>1, <4>2
      <4> QED
        BY <1>2, <2>2, <4>1, <4>3
    <3> QED
      BY <3>1, <3>2
  <2> QED
    BY <2>3, <2>4 DEF RenewInv
<1>10. AskInv'
  <2>1. ASSUME NEW u \in Ids, Stored(u)'
        PROVE  Announced(task[u])'
    BY <1>1, <1>2, <1>3, <2>1 DEF AskInv, Stored, Announced, Has, Running, Asked
  <2>2. ASSUME NEW r \in Procs, job'[r].pc = "observed"
        PROVE  /\ Seen(job[r].id, job[r].snap)'
               /\ job'[r].fresh /\ job'[r].why # "watch" => Fits(task[job[r].id], job[r].snap)'
    <3> DEFINE k == job'[r].id
               s == job'[r].snap
    <3>1. Seen(k, s) /\ (job'[r].fresh /\ job'[r].why # "watch" => Fits(task[k], s))
      <4>1. CASE r = p
        BY <1>2, <2>2, <4>1
      <4>2. CASE r # p
        <5>1. job'[r] = job[r]
          BY <1>2, <4>2
        <5> QED
          BY <1>1, <2>2, <5>1 DEF AskInv
      <4> QED
        BY <4>1, <4>2
    <3>2. Seen(job[r].id, job[r].snap)'
      BY <1>3, <3>1 DEF Seen, Running, Unavailable
    <3>3. ASSUME Fits(task[k], s)
          PROVE  Fits(task[job[r].id], job[r].snap)'
      BY <1>2, <1>3, <3>3 DEF Fits, Unavailable, Has, Asked
    <3> QED
      BY <3>1, <3>2, <3>3
  <2> QED
    BY <2>1, <2>2 DEF AskInv
<1>11. OutboxInv'
  <2>1. \A r \in Procs : job'[r].pc \in Calls => job'[r] = job[r]
    BY <1>2
  <2>2. ASSUME NEW r \in Procs, job'[r].pc \in Calls
        PROVE  CallOK(r)'
    <3>1. job'[r] = job[r] /\ CallOK(r)
      BY <1>1, <2>1, <2>2 DEF OutboxInv
    <3> QED
      BY <1>2, <3>1 DEF CallOK, Notice, InFlight
  <2>3. \A u \in Ids : Stored(u)' => BoxOK(u, task[u].box)'
    BY <1>1, <1>2 DEF OutboxInv, BoxOK, Stored
  <2>4. \A r, q \in Procs :
         job'[r].pc \in Calls /\ job'[q].pc \in Calls
           /\ job'[r].id = job'[q].id /\ job'[r].note = job'[q].note => r = q
    BY <1>1, <2>1 DEF OutboxInv
  <2>5. \A c \in exposed' : Stored(c[1])' /\ Has(task'[c[1]], c[2])
    BY <1>1, <1>2 DEF OutboxInv, Stored, Has
  <2> QED
    BY <1>1, <2>2, <2>3, <2>4, <2>5 DEF OutboxInv
<1>12. IInv'
  BY <1>5, <1>6, <1>7, <1>8, <1>9, <1>10, <1>11 DEF IInv
<1> QED
  BY <1>2, <1>12, SilentAdvances

-----------------------------------------------------------------------------
(* ------------------------- what is observed -------------------------- *)

\* The troubles only grow, and stay within their bound.
LEMMA TroubleFacts ==
  ASSUME TypeInv
  PROVE  /\ Trouble => troubles' = troubles + 1 /\ troubles' >= troubles
                         /\ troubles' \in 0 .. MaxTroubles
         /\ \A c : Usual(c) => troubles' >= troubles /\ troubles' \in 0 .. MaxTroubles
         /\ troubles' = troubles => troubles' >= troubles /\ troubles' \in 0 .. MaxTroubles
  BY NativeAssumption DEF TypeInv, Trouble, Usual

\* A snapshot sees what is there, and fits the record as it is.
LEMMA SnapshotFacts ==
  ASSUME IInv, NEW t \in Ids, Stored(t)
  PROVE  LET s == Snapshot(t, task[t].turn)
         IN s \in Snaps /\ Seen(t, s) /\ Fits(task[t], s)
<1> DEFINE x == task[t]
           own == IF x.turn = None /\ t \in Messages THEN Submission(t) ELSE x.turn
           s == Snapshot(t, x.turn)
<1>1. TypeInv /\ TurnInv /\ AskInv
  BY DEF IInv
<1>2. x \in RecordType /\ x.turn \in Turns \cup {None}
  BY <1>1 DEF TypeInv, WellFormed, RecordType
<1>3. /\ s.bind = own /\ s.state = (IF own = None THEN "absent" ELSE turn[own])
      /\ s.pending = (IF own \in Running THEN Pending ELSE {})
      /\ s = [bind |-> s.bind, state |-> s.state, pending |-> s.pending]
  BY DEF Snapshot
<1>4. own # None => own \in Turns /\ turn[own] # "none" /\ (t \in Messages => starts[t] > 0)
  BY <1>1, <1>2 DEF Submission, TypeInv, TurnInv
<1>5. own \in Turns \cup {None} /\ (x.turn # None => own = x.turn)
  BY <1>2, <1>4
<1> HIDE DEF own, s
<1>6. s \in Snaps
  <2>1. s.state \in {"absent", "running", "ended"}
    BY <1>1, <1>3, <1>4 DEF TypeInv
  <2>2. s.pending \in SUBSET Questions
    BY <1>3 DEF Pending
  <2> QED
    BY <1>3, <1>5, <2>1, <2>2 DEF Snaps
<1>7. \A q \in s.pending : q \in Questions /\ asking[q] = "open" /\ own \in Running
  BY <1>3 DEF Pending
<1>8. Seen(t, s)
  BY <1>3, <1>4, <1>7 DEF Seen
<1>9. Fits(x, s)
  <2>1. ASSUME NEW q \in Questions, Has(x, Asked(q))
        PROVE  IF q \in s.pending THEN q \in x.pending ELSE asking[q] = "done"
    <3>1. /\ asking[q] # "unasked" /\ (q \notin x.pending => asking[q] = "done")
          /\ asking[q] = "open" => x.turn # None /\ x.turn \in Running
      BY <1>1, <2>1 DEF AskInv, Announced
    <3>2. asking[q] \in {"unasked", "open", "done"}
      BY <1>1 DEF TypeInv
    <3>3. CASE q \in s.pending
      BY <1>7, <3>1, <3>3
    <3>4. CASE q \notin s.pending
      <4>1. asking[q] = "open" => q \in s.pending
        BY <1>3, <1>5, <3>1 DEF Pending
      <4> QED
        BY <3>1, <3>2, <3>4, <4>1
    <3> QED
      BY <3>3, <3>4
  <2> QED
    BY <1>3, <1>5, <2>1 DEF Fits
<1> QED
  BY <1>6, <1>8, <1>9 DEF s

\* A Watch is created for the turn that runs.
LEMMA WatchSnapshotFacts ==
  ASSUME IInv, NEW w \in Watches, latest \in Running
  PROVE  LET s == Snapshot(w, latest)
         IN s \in Snaps /\ Seen(w, s) /\ s # Unavailable /\ s.bind # None
<1> DEFINE s == Snapshot(w, latest)
<1>1. w \notin Messages /\ latest \in Turns /\ latest # None /\ turn[latest] = "running"
  BY NativeAssumption DEF Running
<1>2. s = [bind |-> latest, state |-> "running", pending |-> Pending]
  BY <1>1 DEF Snapshot
<1>3. s.bind = latest /\ s.state = "running" /\ s.pending = Pending
  BY <1>2
<1>4. s \in Snaps
  BY <1>1, <1>2 DEF Snaps, Pending
<1>5. s # Unavailable
  BY <1>3 DEF Unavailable
<1> HIDE DEF s
<1>6. Seen(w, s)
  BY <1>1, <1>3 DEF Seen, Pending
<1> QED
  BY <1>1, <1>3, <1>4, <1>5, <1>6 DEF s

\* Nothing is seen of a thread that cannot be read.
LEMMA UnavailableFacts ==
  ASSUME NEW t, NEW x
  PROVE  Unavailable \in Snaps /\ Seen(t, Unavailable) /\ Fits(x, Unavailable)
  BY DEF Snaps, Seen, Fits

\* A process starts to wait for what it observes of a stored task.
LEMMA ObserveStep ==
  ASSUME IInv, NEW p \in Procs, NEW t \in Ids, Stored(t), NEW s \in Snaps,
         Seen(t, s), Fits(task[t], s), NEW why \in Orders \ {"watch"},
         NEW only \in Keys \cup {None},
         why = "retry" => only \in Keys /\ only.kind = "interaction" /\ Refused(task[t], only),
         why = "renew" => task[t].renewals < troubles',
         Goto(p, [Observed(t, why, s) EXCEPT !.only = only]),
         UNCHANGED native, UNCHANGED <<heard, exposed>>,
         troubles' >= troubles, troubles' \in 0 .. MaxTroubles
  PROVE  Advances
<1> DEFINE flag == TRUE
           pc == "observed"
           o == [pc |-> pc, id |-> t, why |-> why, snap |-> s, fresh |-> flag, only |-> only]
           n == [pc |-> pc, id |-> t, why |-> why, snap |-> s, fresh |-> flag, only |-> None]
<1>1. Observed(t, why, s) = n
  BY DEF Observed
<1>2. flag \in BOOLEAN /\ pc \in {"observed"}
  OBVIOUS
<1> HIDE DEF flag, pc
<1>3. [Observed(t, why, s) EXCEPT !.only = only] = o
  BY <1>1
<1>4. /\ o \in ObservedType /\ o.pc = "observed" /\ o.id = t /\ o.why = why /\ o.snap = s
      /\ o.only = only
  BY <1>2 DEF ObservedType
<1> HIDE DEF o
<1>5. Goto(p, o)
  BY <1>3
<1>6. TypeInv
  BY DEF IInv
<1>7. task' = task /\ job'[p] = o
  BY <1>5, <1>6, GotoFacts
<1>8. JobOK(p)'
  <2>1. why = "retry" => Refused(task'[t], only)
    BY <1>7
  <2>2. task'[t] # Absent
    BY <1>7 DEF Stored
  <2> QED
    BY <1>4, <1>7, <2>1, <2>2, NotIdle DEF JobOK, Stored
<1>9. o.pc \notin Calls /\ o.pc \notin Sending
  BY <1>4, NotIdle
<1>10. o.pc = "observed" =>
           /\ o.why = "watch" =>
                /\ o.id \in Watches /\ ~Stored(o.id) /\ o.fresh
                /\ o.snap # Unavailable /\ o.snap.bind # None
                /\ \A r \in Procs \ {p} : job[r].pc # "idle" => job[r].id # o.id
           /\ o.why = "renew" => task[o.id].renewals < troubles'
           /\ Seen(o.id, o.snap)
           /\ o.why # "watch" => Fits(task[o.id], o.snap)
  BY <1>4
<1>11. o.pc # "idle" => o.id \in Messages \/ Stored(o.id)
                          \/ \A r \in Procs \ {p} : job[r].pc # "idle" => job[r].id # o.id
  BY <1>4
<1> QED
  BY <1>5, <1>8, <1>9, <1>10, <1>11, GotoStep

\* A process is done, or turns to a stored task without observing it.
LEMMA PlainStep ==
  ASSUME IInv, NEW p \in Procs, NEW after, Goto(p, after),
         after.pc \in {"idle", "deliver"}, after.pc = "deliver" => after.id \in Ids /\ Stored(after.id),
         UNCHANGED native, UNCHANGED <<heard, exposed>>,
         troubles' >= troubles, troubles' \in 0 .. MaxTroubles
  PROVE  Advances
<1>1. TypeInv
  BY DEF IInv
<1>2. task' = task /\ job'[p] = after
  BY <1>1, GotoFacts
<1>3. after.pc \in Pcs /\ after.pc \notin Calls /\ after.pc \notin Sending /\ after.pc # "observed"
      /\ after.pc # "preflight" /\ after.pc # "result"
  BY NotIdle DEF Sending
<1>4. JobOK(p)'
  <2>1. after.pc # "idle" => after.id \in Ids /\ task'[after.id] # Absent
    BY <1>2 DEF Stored
  <2> QED
    BY <1>2, <1>3, <2>1 DEF JobOK, Stored
<1>5. after.pc # "idle" => after.id \in Messages \/ Stored(after.id)
        \/ \A r \in Procs \ {p} : job[r].pc # "idle" => job[r].id # after.id
  OBVIOUS
<1> QED
  BY <1>3, <1>4, <1>5, GotoStep

-----------------------------------------------------------------------------
(* ----------------------- steps that save nothing --------------------- *)

\* An observation that is not for a retry names no notification.
LEMMA ObservedFacts ==
  ASSUME NEW t, NEW why, NEW s
  PROVE  Observed(t, why, s) = [Observed(t, why, s) EXCEPT !.only = None]
<1> DEFINE flag == TRUE
           n == [pc |-> "observed", id |-> t, why |-> why, snap |-> s, fresh |-> flag,
                 only |-> None]
<1>1. Observed(t, why, s) = n
  BY DEF Observed
<1> HIDE DEF flag
<1> QED
  BY <1>1

\* A process waits for a reply of the app-server.
LEMMA LookStep ==
  ASSUME IInv, NEW p \in Procs, NEW t \in Ids, Stored(t), NEW why \in {"reconcile", "acceptance"},
         Look(p, t, why), UNCHANGED native, UNCHANGED <<heard, exposed>>
  PROVE  Advances
<1>1. PICK s \in {Snapshot(t, task[t].turn), Unavailable} :
        Goto(p, Observed(t, why, s)) /\ Usual(s # Unavailable)
  BY DEF Look
<1>2. s \in Snaps /\ Seen(t, s) /\ Fits(task[t], s)
  BY <1>1, SnapshotFacts, UnavailableFacts
<1>3. Goto(p, [Observed(t, why, s) EXCEPT !.only = None])
  BY <1>1, ObservedFacts
<1>4. troubles' >= troubles /\ troubles' \in 0 .. MaxTroubles
  BY <1>1, TroubleFacts DEF IInv
<1>5. why \in Orders \ {"watch"} /\ why \notin {"retry", "renew"}
  BY DEF Orders
<1> QED
  BY <1>2, <1>3, <1>4, <1>5, ObserveStep

\* A process observes a task, or turns to its notifications.
LEMMA BeginStep ==
  ASSUME IInv, NEW p \in Procs, NEW t \in Ids, Stored(t), Begin(p, t),
         UNCHANGED native, UNCHANGED <<heard, exposed>>
  PROVE  Advances
<1>1. CASE Look(p, t, "reconcile")
  BY <1>1, LookStep
<1>2. CASE Goto(p, Deliver(t, None)) /\ Usual(TRUE)
  <2>1. Deliver(t, None).pc = "deliver" /\ Deliver(t, None).id = t
    BY DEF Deliver
  <2>2. troubles' >= troubles /\ troubles' \in 0 .. MaxTroubles
    BY <1>2, TroubleFacts DEF IInv
  <2> QED
    BY <1>2, <2>1, <2>2, PlainStep
<1> QED
  BY <1>1, <1>2 DEF Begin

\* A process that is neither idle nor at its preflight works on a stored task.
LEMMA JobFacts ==
  ASSUME TypeInv, NEW p \in Procs, job[p].pc # "idle"
  PROVE  /\ job[p].id \in Ids
         /\ job[p].pc # "preflight" /\ ~(job[p].pc = "observed" /\ job[p].why = "watch") =>
              Stored(job[p].id) /\ WellFormed(job[p].id, task[job[p].id])
  BY DEF TypeInv, JobOK

\* A send settles, or reconciles.
LEMMA SettleStep ==
  ASSUME IInv, NEW p \in Procs, Settle(p) \/ Reconcile(p)
  PROVE  Advances
<1> DEFINE t == job[p].id
<1>1. job[p].pc \in {"settle", "reconcile"} /\ UNCHANGED native /\ UNCHANGED <<heard, exposed>>
  BY DEF Settle, Reconcile, At
<1>2. t \in Ids /\ Stored(t)
  BY <1>1, JobFacts DEF IInv
<1>3. Look(p, t, "acceptance") \/ Begin(p, t)
  BY DEF Settle, Reconcile
<1> HIDE DEF t
<1> QED
  BY <1>1, <1>2, <1>3, LookStep, BeginStep

\* A monitor polls.
LEMMA MonitorStep ==
  ASSUME IInv, NEW p \in Procs, NEW t \in Ids, Monitor(p, t)
  PROVE  Advances
  BY BeginStep DEF Monitor

\* A send starts: it may come twice for the same message.
LEMMA SendStep ==
  ASSUME IInv, NEW p \in Procs, NEW m \in Messages, Send(p, m)
  PROVE  Advances
<1>1. PICK idle \in {CanSend, FALSE} :
        /\ Goto(p, [pc |-> "preflight", id |-> m, idle |-> idle])
        /\ Usual(idle = CanSend /\ First(m))
  BY DEF Send
<1>2. idle \in BOOLEAN
  <2>1. CanSend \in BOOLEAN
    BY Zenon DEF CanSend
  <2> QED
    BY <1>1, <2>1, Zenon
<1> DEFINE after == [pc |-> "preflight", id |-> m, idle |-> idle]
<1>3. after.pc = "preflight" /\ after.id = m /\ after.idle = idle
  OBVIOUS
<1>4. Goto(p, after)
  BY <1>1
<1> HIDE DEF after
<1>5. job'[p] = after
  BY <1>4, GotoFacts DEF IInv
<1>6. JobOK(p)'
  BY <1>2, <1>3, <1>5, NotIdle DEF JobOK, Ids, Sending
<1>7. troubles' >= troubles /\ troubles' \in 0 .. MaxTroubles
  BY <1>1, TroubleFacts DEF IInv
<1>8. UNCHANGED native /\ UNCHANGED <<heard, exposed>>
  BY DEF Send
<1>9. after.pc \notin Calls /\ after.pc \notin Sending /\ after.pc # "observed"
  BY <1>3, NotIdle
<1> QED
  BY <1>3, <1>4, <1>6, <1>7, <1>8, <1>9, GotoStep

\* A Watch is ordered.
LEMMA WatchStep ==
  ASSUME IInv, NEW p \in Procs, NEW w \in Watches, Watch(p, w)
  PROVE  Advances
<1> DEFINE s == Snapshot(w, latest)
           flag == TRUE
           o == [pc |-> "observed", id |-> w, why |-> "watch", snap |-> s, fresh |-> flag,
                 only |-> None]
<1>1. /\ At(p, "idle") /\ ~Stored(w) /\ latest \in Running
      /\ \A r \in Procs : ~At(r, "idle") => job[r].id # w
      /\ Trouble /\ UNCHANGED native /\ UNCHANGED <<heard, exposed>>
      /\ Goto(p, Observed(w, "watch", s))
  BY DEF Watch
<1>2. Observed(w, "watch", s) = o
  BY DEF Observed
<1>3. flag \in BOOLEAN /\ flag
  OBVIOUS
<1>4. s \in Snaps /\ Seen(w, s) /\ s # Unavailable /\ s.bind # None
  BY <1>1, WatchSnapshotFacts
<1> HIDE DEF flag, s
<1>5. /\ o \in ObservedType /\ o.pc = "observed" /\ o.id = w /\ o.why = "watch" /\ o.snap = s
      /\ o.fresh
  BY <1>3, <1>4 DEF ObservedType, Orders, Ids
<1>6. Goto(p, o)
  BY <1>1, <1>2
<1> HIDE DEF o
<1>7. job'[p] = o
  BY <1>6, GotoFacts DEF IInv
<1>8. JobOK(p)'
  BY <1>5, <1>7, NotIdle DEF JobOK, Ids
<1>9. troubles' >= troubles /\ troubles' \in 0 .. MaxTroubles
  BY <1>1, TroubleFacts DEF IInv
<1>10. o.pc \notin Calls /\ o.pc \notin Sending
  BY <1>5, NotIdle
<1>11. \A r \in Procs \ {p} : job[r].pc # "idle" => job[r].id # w
  BY <1>1 DEF At
<1> QED
  BY <1>1, <1>4, <1>5, <1>6, <1>8, <1>9, <1>10, <1>11, GotoStep

\* Recover or Renew is ordered.
LEMMA OrderStep ==
  ASSUME IInv, NEW p \in Procs, NEW t \in Ids, NEW why, Order(p, t, why)
  PROVE  Advances
<1> DEFINE s == Snapshot(t, task[t].turn)
<1>1. /\ Stored(t) /\ why \in {"recover", "renew"} /\ Goto(p, Observed(t, why, s))
      /\ Trouble /\ UNCHANGED native /\ UNCHANGED <<heard, exposed>>
  BY DEF Order
<1>2. s \in Snaps /\ Seen(t, s) /\ Fits(task[t], s)
  BY <1>1, SnapshotFacts
<1>3. Goto(p, [Observed(t, why, s) EXCEPT !.only = None])
  BY <1>1, ObservedFacts
<1> HIDE DEF s
<1>4. troubles' = troubles + 1 /\ troubles' >= troubles /\ troubles' \in 0 .. MaxTroubles
  BY <1>1, TroubleFacts DEF IInv
<1>5. task[t].renewals < troubles'
  <2>1. task[t].renewals \in Nat /\ task[t].renewals <= troubles /\ troubles \in Nat
    BY <1>1 DEF IInv, TypeInv, WellFormed, RecordType, RenewInv
  <2> QED
    BY <1>4, <2>1
<1>6. why \in Orders \ {"watch"} /\ why # "retry"
  BY <1>1 DEF Orders
<1> QED
  BY <1>1, <1>2, <1>3, <1>4, <1>5, <1>6, ObserveStep

\* A process gives up or is done.
LEMMA IdleStep ==
  ASSUME IInv, NEW p \in Procs, Goto(p, Idle), UNCHANGED native, UNCHANGED <<heard, exposed>>,
         troubles' >= troubles, troubles' \in 0 .. MaxTroubles
  PROVE  Advances
  BY PlainStep DEF Idle

\* An order is refused, or a process dies.
LEMMA RefuseStep ==
  ASSUME IInv, NEW p \in Procs, (\E why : Refuse(p, why)) \/ Crash(p)
  PROVE  Advances
  BY IdleStep, TroubleFacts DEF Refuse, Crash, IInv

\* The thread has become busy: the message is not dispatched.
LEMMA CommitDispatchRefused ==
  ASSUME IInv, NEW p \in Procs, job[p].pc = "start", Goto(p, Result(job[p].id, "not_sent")),
         UNCHANGED native, UNCHANGED <<heard, exposed>>,
         troubles' >= troubles, troubles' \in 0 .. MaxTroubles
  PROVE  Advances
<1> DEFINE after == Result(job[p].id, "not_sent")
<1>1. after.pc = "result" /\ after.id = job[p].id /\ after.outcome = "not_sent"
  BY DEF Result
<1> HIDE DEF after
<1>2. job'[p] = after /\ task' = task
  BY GotoFacts DEF IInv, after
<1>3. "start" \in Sending /\ "result" \in Sending
  BY DEF Sending
<1>4. job[p].id \in Messages /\ job[p].id \in Ids /\ Stored(job[p].id)
  BY <1>3, JobFacts DEF IInv, TypeInv, JobOK
<1>5. JobOK(p)'
  <2>1. task'[job[p].id] # Absent
    BY <1>2, <1>4 DEF Stored
  <2> QED
    BY <1>1, <1>2, <1>3, <1>4, <2>1, NotIdle DEF JobOK, Stored
<1>6. after.pc \notin Calls
  BY <1>1, <1>3, NotIdle
<1> QED
  BY <1>1, <1>4, <1>5, <1>6, GotoStep DEF after

-----------------------------------------------------------------------------
(* ---------------- saves that continue a stored record ---------------- *)

\* What a process does after such a save.
After(t) == {Idle, [pc |-> "reconcile", id |-> t]} \cup {Deliver(t, k) : k \in Keys \cup {None}}

\* Where a process may be after a save that continues a record.
LEMMA AfterFacts ==
  ASSUME NEW t, NEW after \in After(t)
  PROVE  /\ after.pc \in Pcs \ (Sending \cup Calls \cup {"observed", "preflight"})
         /\ after.pc # "idle" => after.id = t
  BY NotIdle DEF After, Idle, Deliver, Sending, Calls, Pcs

\* What is known of a stored record.
LEMMA RenewalFacts ==
  ASSUME IInv, NEW t \in Ids, Stored(t)
  PROVE  /\ WellFormed(t, task[t]) /\ task[t] \in RecordType
         /\ task[t].renewals \in Nat /\ task[t].renewals <= troubles /\ troubles \in Nat
  BY DEF IInv, TypeInv, WellFormed, RecordType, RenewInv

\* A save of a record that was not renewed.
LEMMA ContinueStep ==
  ASSUME IInv, NEW p \in Procs, NEW t \in Ids, NEW s, NEW y, NEW after \in After(t),
         SaveBy(p, t, y, after), UNCHANGED native, UNCHANGED <<heard, exposed>>,
         Stored(t), Carries(t, task[t], s, y), Fits(task[t], s), Seen(t, s),
         y.renewals = task[t].renewals, troubles' >= troubles, troubles' \in 0 .. MaxTroubles
  PROVE  Advances
<1>1. y.renewals <= troubles'
  <2>1. task[t].renewals \in Nat /\ task[t].renewals <= troubles /\ troubles \in Nat
    BY RenewalFacts
  <2> QED
    BY <2>1
<1>2. /\ after.pc \in Pcs \ (Sending \cup Calls \cup {"observed", "preflight"})
      /\ after.pc # "idle" => after.id = t
  BY AfterFacts
<1> QED
  BY <1>1, <1>2, CarriesSave

\* What a process knows of the record when it applies its observation.
LEMMA ObservedRecord ==
  ASSUME IInv, NEW p \in Procs, job[p].pc = "observed", job[p].why # "watch"
  PROVE  /\ job[p].id \in Ids /\ Stored(job[p].id)
         /\ WellFormed(job[p].id, task[job[p].id])
         /\ job[p].snap \in Snaps /\ Seen(job[p].id, job[p].snap)
         /\ job[p].fresh => Fits(task[job[p].id], job[p].snap)
<1>1. job[p].id \in Ids /\ Stored(job[p].id) /\ WellFormed(job[p].id, task[job[p].id])
  BY JobFacts, NotIdle DEF IInv
<1>2. job[p] \in ObservedType
  BY DEF IInv, TypeInv, JobOK
<1>3. job[p].snap \in Snaps
  BY <1>2 DEF ObservedType
<1> QED
  BY <1>1, <1>3 DEF IInv, AskInv

\* A reconciliation is applied, if nobody has saved since.
LEMMA ApplyReconcileStep ==
  ASSUME IInv, NEW p \in Procs, ApplyReconcile(p)
  PROVE  Advances
<1> DEFINE t == job[p].id
           s == job[p].snap
           y == IF job[p].fresh THEN Reconciled(task[t], s) ELSE task[t]
           after == Deliver(t, None)
<1>1. /\ job[p].pc = "observed" /\ job[p].why = "reconcile" /\ SaveBy(p, t, y, after)
      /\ UNCHANGED native /\ UNCHANGED <<heard, exposed>> /\ troubles' = troubles
  BY DEF ApplyReconcile, At
<1>2. /\ t \in Ids /\ Stored(t) /\ WellFormed(t, task[t]) /\ s \in Snaps /\ Seen(t, s)
      /\ job[p].fresh => Fits(task[t], s)
  BY <1>1, ObservedRecord
<1>3. after \in After(t)
  BY DEF After
<1>4. troubles' >= troubles /\ troubles' \in 0 .. MaxTroubles
  BY <1>1, TroubleFacts DEF IInv
<1> HIDE DEF t, s, after
<1>5. CASE job[p].fresh
  <2>1. Carries(t, task[t], s, y) /\ y.renewals = task[t].renewals
    BY <1>2, <1>5, ReconciledFacts
  <2> HIDE DEF y
  <2> QED
    BY <1>1, <1>2, <1>3, <1>4, <1>5, <2>1, ContinueStep
<1>6. CASE ~job[p].fresh
  <2>1. Carries(t, task[t], Unavailable, y) /\ y = task[t]
    BY <1>2, <1>6, CarriesSelf
  <2> HIDE DEF y
  <2>2. Seen(t, Unavailable) /\ Fits(task[t], Unavailable)
    BY UnavailableFacts
  <2> QED
    BY <1>1, <1>2, <1>3, <1>4, <2>1, <2>2, ContinueStep
<1> QED
  BY <1>5, <1>6

\* So is the first look for the turn of a send.
LEMMA ApplyAcceptanceStep ==
  ASSUME IInv, NEW p \in Procs, ApplyAcceptance(p)
  PROVE  Advances
<1> DEFINE t == job[p].id
           s == job[p].snap
           refresh == FALSE
           y == IF job[p].fresh THEN Apply(task[t], s, refresh) ELSE task[t]
           after == [pc |-> "reconcile", id |-> t]
<1>1. /\ job[p].pc = "observed" /\ job[p].why = "acceptance" /\ SaveBy(p, t, y, after)
      /\ UNCHANGED native /\ UNCHANGED <<heard, exposed>> /\ troubles' = troubles
  BY DEF ApplyAcceptance, At
<1>2. /\ t \in Ids /\ Stored(t) /\ WellFormed(t, task[t]) /\ s \in Snaps /\ Seen(t, s)
      /\ job[p].fresh => Fits(task[t], s)
  BY <1>1, ObservedRecord
<1>3. after \in After(t)
  BY DEF After
<1>4. troubles' >= troubles /\ troubles' \in 0 .. MaxTroubles
  BY <1>1, TroubleFacts DEF IInv
<1> HIDE DEF t, s, after, refresh
<1>5. CASE job[p].fresh
  <2>1. Carries(t, task[t], s, y) /\ y.renewals = task[t].renewals
    BY <1>2, <1>5, ApplyFacts
  <2> HIDE DEF y
  <2> QED
    BY <1>1, <1>2, <1>3, <1>4, <1>5, <2>1, ContinueStep
<1>6. CASE ~job[p].fresh
  <2>1. Carries(t, task[t], Unavailable, y) /\ y = task[t]
    BY <1>2, <1>6, CarriesSelf
  <2> HIDE DEF y
  <2>2. Seen(t, Unavailable) /\ Fits(task[t], Unavailable)
    BY UnavailableFacts
  <2> QED
    BY <1>1, <1>2, <1>3, <1>4, <2>1, <2>2, ContinueStep
<1> QED
  BY <1>5, <1>6

\* Recover is applied.
LEMMA ApplyRecoverStep ==
  ASSUME IInv, NEW p \in Procs, ApplyRecover(p)
  PROVE  Advances
<1> DEFINE t == job[p].id
           s == job[p].snap
           x == Expire(KeepTimeout(Apply(task[t], s, TRUE), task[t]))
           y == IF Settled(x) THEN SuppressTimeouts(x) ELSE x
           after == Unless(y, t)
<1>1. /\ job[p].pc = "observed" /\ job[p].why = "recover" /\ job[p].fresh
      /\ SaveBy(p, t, y, after)
      /\ UNCHANGED native /\ UNCHANGED <<heard, exposed>> /\ troubles' = troubles
  BY DEF ApplyRecover, At, Changed
<1>2. /\ t \in Ids /\ Stored(t) /\ WellFormed(t, task[t]) /\ s \in Snaps /\ Seen(t, s)
      /\ Fits(task[t], s)
  BY <1>1, ObservedRecord
<1>3. after \in After(t)
  BY DEF After, Unless
<1>4. troubles' >= troubles /\ troubles' \in 0 .. MaxTroubles
  BY <1>1, TroubleFacts DEF IInv
<1>5. Carries(t, task[t], s, y) /\ y.renewals = task[t].renewals
  <2> HIDE DEF t, s, after
  <2> QED
    BY <1>2, RecoverFacts
<1> HIDE DEF t, s, y, after
<1> QED
  BY <1>1, <1>2, <1>3, <1>4, <1>5, ContinueStep

\* A task is unwatched, or its send closed.
LEMMA StopStep ==
  ASSUME IInv, NEW p \in Procs, NEW t \in Ids, Unwatch(p, t) \/ Close(p, t)
  PROVE  Advances
<1>1. /\ Stored(t) /\ UNCHANGED native /\ UNCHANGED <<heard, exposed>> /\ Trouble
  BY DEF Unwatch, Close
<1>2. /\ Fits(task[t], Unavailable) /\ Seen(t, Unavailable) /\ Idle \in After(t)
      /\ WellFormed(t, task[t])
  BY <1>1, UnavailableFacts, RenewalFacts DEF After
<1>3. troubles' >= troubles /\ troubles' \in 0 .. MaxTroubles
  BY <1>1, TroubleFacts DEF IInv
<1>4. CASE Unwatch(p, t)
  <2> DEFINE y == Suppress([task[t] EXCEPT !.unwatched = TRUE])
  <2>1. SaveBy(p, t, y, Idle)
    BY <1>4 DEF Unwatch
  <2>2. Carries(t, task[t], Unavailable, y) /\ y.renewals = task[t].renewals
    BY <1>2, StopFacts
  <2> HIDE DEF y
  <2> QED
    BY <1>1, <1>2, <1>3, <2>1, <2>2, ContinueStep
<1>5. CASE Close(p, t)
  <2> DEFINE y == Suppress([task[t] EXCEPT !.closed = TRUE])
  <2>1. SaveBy(p, t, y, Idle) /\ t \in Messages
    BY <1>5 DEF Close
  <2>2. Carries(t, task[t], Unavailable, y) /\ y.renewals = task[t].renewals
    BY <1>2, <2>1, StopFacts
  <2> HIDE DEF y
  <2> QED
    BY <1>1, <1>2, <1>3, <2>1, <2>2, ContinueStep
<1> QED
  BY <1>4, <1>5

\* Renew is applied: it counts as one of the troubles.
LEMMA ApplyRenewStep ==
  ASSUME IInv, NEW p \in Procs, ApplyRenew(p)
  PROVE  Advances
<1> DEFINE t == job[p].id
           s == job[p].snap
           x == Apply(task[t], s, TRUE)
<1>1. /\ job[p].pc = "observed" /\ job[p].why = "renew" /\ job[p].fresh
      /\ UNCHANGED native /\ UNCHANGED <<heard, exposed>> /\ troubles' = troubles
      /\ \/ /\ Settled(x)
            /\ SaveBy(p, t, SuppressTimeouts(x), Unless(SuppressTimeouts(x), t))
         \/ /\ ~Settled(x) /\ x.turn = None
            /\ SaveBy(p, t, [x EXCEPT !.status = task[t].status], Idle)
         \/ /\ ~Settled(x) /\ x.turn # None
            /\ SaveBy(p, t, Apply(Resumed(x), s, FALSE), Deliver(t, None))
  BY DEF ApplyRenew, At, Changed
<1>2. /\ t \in Ids /\ Stored(t) /\ WellFormed(t, task[t]) /\ s \in Snaps /\ Seen(t, s)
      /\ Fits(task[t], s)
  BY <1>1, ObservedRecord
<1>3. troubles' >= troubles /\ troubles' \in 0 .. MaxTroubles
  BY <1>1, TroubleFacts DEF IInv
<1>4. Idle \in After(t) /\ Deliver(t, None) \in After(t)
      /\ Unless(SuppressTimeouts(x), t) \in After(t)
  BY DEF After, Unless
<1>5. Carries(t, task[t], s, x) /\ x.renewals = task[t].renewals
  <2> HIDE DEF t, s
  <2> QED
    BY <1>2, ApplyFacts
<1>6. task[t].renewals < troubles
  BY <1>1 DEF IInv, RenewInv
<1>7. task[t].renewals \in Nat /\ troubles \in 0 .. MaxTroubles /\ troubles \in Nat
  BY <1>2, RenewalFacts DEF IInv, TypeInv
<1> HIDE DEF t, s, x
<1>8. WellFormed(t, x)
  BY <1>5 DEF Carries
<1>9. CASE Settled(x) /\ SaveBy(p, t, SuppressTimeouts(x), Unless(SuppressTimeouts(x), t))
  <2> DEFINE y == SuppressTimeouts(x)
             after == Unless(y, t)
  <2>1. Carries(t, task[t], s, y) /\ y.renewals = task[t].renewals
    BY <1>5, SuppressedFacts
  <2>2. SaveBy(p, t, y, after) /\ after \in After(t)
    BY <1>4, <1>9
  <2> HIDE DEF y, after
  <2> QED
    BY <1>1, <1>2, <1>3, <2>1, <2>2, ContinueStep
<1>10. CASE x.turn = None /\ SaveBy(p, t, [x EXCEPT !.status = task[t].status], Idle)
  <2> DEFINE status == task[t].status
             y == [x EXCEPT !.status = status]
  <2>1. status \in Statuses /\ (status \in {"watching", "completed"} => task[t].turn # None)
    BY <1>2 DEF WellFormed, RecordType
  <2>2. x.turn # None \/ status \notin {"watching", "completed"}
    BY <1>5, <2>1 DEF Carries
  <2>3. SaveBy(p, t, y, Idle)
    BY <1>10
  <2> HIDE DEF status
  <2>4. Carries(t, x, s, y) /\ y.renewals = x.renewals
    BY <1>8, <2>1, <2>2, StatusFacts
  <2> HIDE DEF y
  <2>5. Carries(t, task[t], s, y) /\ y.renewals = task[t].renewals
    BY <1>5, <2>4, CarriesTwice
  <2> QED
    BY <1>1, <1>2, <1>3, <1>4, <2>3, <2>5, ContinueStep
<1>11. CASE x.turn # None /\ SaveBy(p, t, Apply(Resumed(x), s, FALSE), Deliver(t, None))
  <2> DEFINE r == Resumed(x)
             refresh == FALSE
             y == Apply(r, s, refresh)
             after == Deliver(t, None)
  <2>1. SaveBy(p, t, y, after)
    BY <1>11
  <2>2. x.renewals < MaxTroubles
    BY <1>5, <1>6, <1>7, NativeAssumption
  <2>3. Carries(t, x, s, r) /\ r.renewals = x.renewals + 1
    BY <1>8, <1>11, <2>2, ResumedFacts
  <2> HIDE DEF r, refresh
  <2>4. WellFormed(t, r)
    BY <2>3 DEF Carries
  <2>5. Carries(t, r, s, y) /\ y.renewals = r.renewals
    BY <1>2, <2>4, ApplyFacts
  <2> HIDE DEF y
  <2>6. Carries(t, task[t], s, y)
    BY <1>5, <2>3, <2>5, CarriesTwice
  <2>7. y.renewals <= troubles'
    BY <1>1, <1>5, <1>6, <1>7, <2>3, <2>5
  <2>8. /\ after.pc \in Pcs \ (Sending \cup Calls \cup {"observed", "preflight"})
        /\ after.pc # "idle" => after.id = t
    BY <1>4, AfterFacts
  <2> HIDE DEF after
  <2> QED
    BY <1>1, <1>2, <1>3, <2>1, <2>6, <2>7, <2>8, CarriesSave
<1> QED
  BY <1>1, <1>9, <1>10, <1>11

\* One notification is exchanged in a record that continues another.
LEMMA ExchangedFacts ==
  ASSUME NEW t, NEW x, NEW s, NEW y, WellFormed(t, x), Carries(t, x, s, y),
         NEW i \in DOMAIN x.box, NEW n \in Notes, n.attempts <= Budget(n), Passive(x.box[i], n)
  PROVE  LET z == [y EXCEPT !.box[i] = n]
         IN Carries(t, x, s, z) /\ z.renewals = y.renewals
<1> DEFINE z == [y EXCEPT !.box[i] = n]
<1>1. WellFormed(t, y) /\ Passed(x.box, y.box)
  BY DEF Carries
<1>2. i \in DOMAIN y.box /\ Passive(x.box[i], y.box[i])
  BY <1>1 DEF Passed
<1>3. n.key = y.box[i].key
  BY <1>2 DEF Passive
<1>4. /\ WellFormed(t, z) /\ OnlyBox(y, z) /\ DOMAIN z.box = DOMAIN y.box
      /\ z.box[i] = n /\ \A k \in DOMAIN y.box \ {i} : z.box[k] = y.box[k]
  BY <1>1, <1>2, <1>3, CellFacts
<1> HIDE DEF z
<1>5. Passed(x.box, z.box)
  BY <1>1, <1>4 DEF Passed
<1>6. \A q \in Questions : Has(z, Asked(q)) => Has(y, Asked(q))
  BY <1>3, <1>4 DEF Has
<1>7. z.pending = y.pending /\ z.turn = y.turn /\ z.intent = y.intent /\ z.closed = y.closed
      /\ z.renewals = y.renewals
  BY <1>4 DEF OnlyBox
<1>8. Carries(t, x, s, z)
  BY <1>4, <1>5, <1>6, <1>7 DEF Carries, UnresolvedSend
<1> QED
  BY <1>7, <1>8 DEF z

\* What a retry makes of a notification that the transport refused.
LEMMA RetriedFacts ==
  ASSUME NEW n \in Notes, Retryable(n), NEW o \in Notes, Passive(n, o), o.attempts <= Budget(o)
  PROVE  /\ Authorize(o) \in Notes /\ Passive(n, Authorize(o))
         /\ Authorize(o).attempts <= Budget(Authorize(o))
         /\ Withdraw(o) \in Notes /\ Passive(n, Withdraw(o))
         /\ Withdraw(o).attempts <= Budget(Withdraw(o))
<1> DEFINE granted == IF o.granted > o.attempts THEN o.granted ELSE o.attempts + 1
           a == [o EXCEPT !.granted = granted, !.status = "ready"]
           w == Withdraw(o)
<1>1. granted \in Nat /\ granted > o.attempts
  BY DEF Notes
<1>2. Authorize(o) = a
  BY DEF Authorize, Notes
<1> HIDE DEF granted
<1>3. /\ a \in Notes /\ a.key = o.key /\ a.attempts = o.attempts /\ a.granted = granted
      /\ a.status = "ready"
  BY <1>1 DEF Notes
<1>4. /\ w \in Notes /\ w.key = o.key /\ w.attempts = o.attempts /\ w.granted = o.granted
      /\ w.status = "failed" /\ w.outcome = "permanent"
  BY DEF Withdraw, Notes
<1> HIDE DEF a, w
<1>5. a.attempts <= Budget(a)
  BY <1>1, <1>3, NativeAssumption DEF Budget, Notes
<1>6. w.attempts <= Budget(w)
  BY <1>4 DEF Budget
<1>7. /\ n.status \in {"failed", "retry_wait"} /\ n.outcome = "retryable"
      /\ Unexposed(n) /\ ~InFlight(n) /\ n.status # "accepted"
  BY DEF Retryable, Unexposed, InFlight
<1>8. Passive(n, a) /\ Passive(n, w)
  BY <1>3, <1>4, <1>7 DEF Passive
<1> QED
  BY <1>2, <1>3, <1>4, <1>5, <1>6, <1>8 DEF w

\* A callback is retried, at once or when its question was looked at again.
LEMMA RetryCallbackStep ==
  ASSUME IInv, NEW p \in Procs, NEW t \in Ids, NEW i, RetryCallback(p, t, i)
  PROVE  Advances
<1> DEFINE n == task[t].box[i]
           s == Snapshot(t, task[t].turn)
<1>1. /\ Stored(t) /\ i \in DOMAIN task[t].box /\ Retryable(n)
      /\ UNCHANGED native /\ UNCHANGED <<heard, exposed>> /\ troubles' = troubles
      /\ \/ /\ n.key.kind = "interaction"
            /\ Goto(p, [Observed(t, "retry", s) EXCEPT !.only = n.key])
         \/ SaveBy(p, t, [task[t] EXCEPT !.box[i] = Authorize(n)], Deliver(t, n.key))
  BY DEF RetryCallback
<1>2. WellFormed(t, task[t])
  BY <1>1, RenewalFacts
<1>3. n \in Notes /\ n.key \in Keys /\ n.attempts <= Budget(n)
  <2>1. n \in Notes /\ n.attempts <= Budget(n)
    BY <1>1, <1>2 DEF WellFormed, RecordType, Orderly
  <2> QED
    BY <2>1 DEF Notes
<1>4. troubles' >= troubles /\ troubles' \in 0 .. MaxTroubles
  BY <1>1, TroubleFacts DEF IInv
<1>5. CASE n.key.kind = "interaction" /\ Goto(p, [Observed(t, "retry", s) EXCEPT !.only = n.key])
  <2> DEFINE key == n.key
  <2>1. Refused(task[t], key)
    BY <1>1 DEF Refused
  <2>2. s \in Snaps /\ Seen(t, s) /\ Fits(task[t], s)
    BY <1>1, SnapshotFacts
  <2>3. "retry" \in Orders \ {"watch"} /\ "retry" # "renew"
    BY DEF Orders
  <2>4. key \in Keys /\ key.kind = "interaction"
        /\ Goto(p, [Observed(t, "retry", s) EXCEPT !.only = key])
    BY <1>3, <1>5
  <2> HIDE DEF s, key
  <2> QED
    BY <1>1, <1>4, <2>1, <2>2, <2>3, <2>4, ObserveStep
<1>6. CASE SaveBy(p, t, [task[t] EXCEPT !.box[i] = Authorize(n)], Deliver(t, n.key))
  <2> DEFINE a == Authorize(n)
             y == [task[t] EXCEPT !.box[i] = a]
             after == Deliver(t, n.key)
  <2>1. a \in Notes /\ Passive(n, a) /\ a.key = n.key /\ a.attempts <= Budget(a)
    BY <1>1, <1>3, AuthorizeFacts
  <2>2. SaveBy(p, t, y, after)
    BY <1>6
  <2>3. after \in After(t)
    BY <1>3 DEF After
  <2> HIDE DEF a, after
  <2>4. Carries(t, task[t], Unavailable, y) /\ y.renewals = task[t].renewals
    BY <1>1, <1>2, <2>1, CellFacts DEF OnlyBox
  <2> HIDE DEF y
  <2>5. Seen(t, Unavailable) /\ Fits(task[t], Unavailable)
    BY UnavailableFacts
  <2> QED
    BY <1>1, <1>4, <2>2, <2>3, <2>4, <2>5, ContinueStep
<1> QED
  BY <1>1, <1>5, <1>6

\* A callback is retried because its question is still asked, or withdrawn.
LEMMA ApplyRetryStep ==
  ASSUME IInv, NEW p \in Procs, ApplyRetry(p)
  PROVE  Advances
<1> DEFINE t == job[p].id
           key == job[p].only
           s == job[p].snap
           x == KeepTimeout(Apply(task[t], s, TRUE), task[t])
           i == CHOOSE k \in DOMAIN x.box : x.box[k].key = key
<1>1. /\ job[p].pc = "observed" /\ job[p].why = "retry"
      /\ UNCHANGED native /\ UNCHANGED <<heard, exposed>> /\ troubles' = troubles
      /\ \/ Goto(p, Idle)
         \/ /\ job[p].fresh
            /\ \/ SaveBy(p, t, [x EXCEPT !.box[i] = Withdraw(@)], Idle)
               \/ SaveBy(p, t, [x EXCEPT !.box[i] = Authorize(@)], Deliver(t, key))
  BY DEF ApplyRetry, At, Changed
<1>2. troubles' >= troubles /\ troubles' \in 0 .. MaxTroubles
  BY <1>1, TroubleFacts DEF IInv
<1>3. CASE Goto(p, Idle)
  BY <1>1, <1>2, <1>3, IdleStep
<1>4. ASSUME job[p].fresh,
             \/ SaveBy(p, t, [x EXCEPT !.box[i] = Withdraw(@)], Idle)
             \/ SaveBy(p, t, [x EXCEPT !.box[i] = Authorize(@)], Deliver(t, key))
      PROVE  Advances
  <2>1. /\ t \in Ids /\ Stored(t) /\ WellFormed(t, task[t]) /\ s \in Snaps /\ Seen(t, s)
        /\ Fits(task[t], s)
    BY <1>1, <1>4, ObservedRecord
  <2>2. key \in Keys /\ Refused(task[t], key)
    BY <1>1, <1>4 DEF IInv, TypeInv, JobOK
  <2>3. Carries(t, task[t], s, x) /\ x.renewals = task[t].renewals
    <3> HIDE DEF t, s
    <3> QED
      BY <2>1, ObservedAgainFacts
  <2> HIDE DEF x, t, s, key
  <2>4. PICK k \in DOMAIN task[t].box :
          task[t].box[k].key = key /\ Retryable(task[t].box[k])
    BY <2>2 DEF Refused
  <2>5. /\ k \in DOMAIN x.box /\ Passive(task[t].box[k], x.box[k]) /\ x.box[k].key = key
        /\ WellFormed(t, x)
    BY <2>3, <2>4 DEF Carries, Passed, Passive
  <2>6. i = k
    BY <2>5 DEF WellFormed, Orderly
  <2> HIDE DEF i
  <2>7. x.box[k] \in Notes /\ task[t].box[k] \in Notes /\ x.box[k].attempts <= Budget(x.box[k])
    BY <2>1, <2>4, <2>5 DEF WellFormed, RecordType, Orderly
  <2> DEFINE a == Authorize(x.box[k])
             w == Withdraw(x.box[k])
             y == [x EXCEPT !.box[k] = a]
             z == [x EXCEPT !.box[k] = w]
             after == Deliver(t, key)
  <2>8. /\ a \in Notes /\ Passive(task[t].box[k], a) /\ a.attempts <= Budget(a)
        /\ w \in Notes /\ Passive(task[t].box[k], w) /\ w.attempts <= Budget(w)
    BY <2>4, <2>5, <2>7, RetriedFacts
  <2>9. SaveBy(p, t, z, Idle) \/ SaveBy(p, t, y, after)
    BY <1>4, <2>6
  <2>10. Idle \in After(t) /\ after \in After(t)
    BY <2>2 DEF After
  <2> HIDE DEF a, w, after
  <2>11. /\ Carries(t, task[t], s, y) /\ y.renewals = x.renewals
         /\ Carries(t, task[t], s, z) /\ z.renewals = x.renewals
    BY <2>1, <2>3, <2>4, <2>8, ExchangedFacts
  <2> HIDE DEF y, z
  <2> QED
    BY <1>1, <1>2, <2>1, <2>3, <2>9, <2>10, <2>11, ContinueStep
<1> QED
  BY <1>1, <1>3, <1>4

-----------------------------------------------------------------------------
(* ------------------------------ delivery ----------------------------- *)

\* A save that changes nothing but the notifications, and these in place.
LEMMA SaveInPlace ==
  ASSUME IInv, NEW p \in Procs, NEW t \in Ids, NEW y, NEW after, SaveBy(p, t, y, after),
         UNCHANGED native, Stored(t), WellFormed(t, y), OnlyBox(task[t], y),
         DOMAIN y.box = DOMAIN task[t].box,
         \A k \in DOMAIN y.box : y.box[k].key = task[t].box[k].key,
         JobOK(p)', after.pc \notin Sending \cup {"observed"},
         after.pc # "idle" => after.id = t,
         heard' = heard, exposed' \subseteq exposed, troubles' >= troubles,
         troubles' \in 0 .. MaxTroubles
  PROVE  TypeInv' /\ TurnInv' /\ SendInv' /\ WatchInv' /\ RenewInv' /\ AskInv'
<1> DEFINE x == task[t]
<1>1. /\ TypeInv /\ TurnInv /\ SendInv /\ WatchInv /\ RenewInv /\ AskInv
  BY DEF IInv
<1>2. task'[t] = y /\ job'[p] = after /\ \A r \in Procs \ {p} : Others(r, t)
  BY <1>1, SaveFacts
<1>3. Keyed(x.box, y.box)
  BY DEF Keyed
<1>4. TypeInv'
  <2>1. heard' \in [Notices -> Nat] /\ exposed' \subseteq Notices
    BY <1>1 DEF TypeInv
  <2> QED
    BY <1>1, <1>3, <2>1, SaveType
<1>5. TurnInv'
  <2>1. y.turn # None => turn[y.turn] # "none" /\ (t \in Messages => starts[t] > 0)
    BY <1>1 DEF TurnInv, OnlyBox
  <2> QED
    BY <1>1, <2>1, SaveTurn
<1>6. SendInv'
  <2>1. t \in Messages /\ y.intent = "not_sent" =>
          ~Sent(t) /\ \A r \in Procs \ {p} : job[r].pc \in Sending => job[r].id # t
    BY <1>1 DEF SendInv, OnlyBox
  <2>2. Engaged(t)' => Engaged(t)
    <3>1. \A pc : pc \in {"start", "dispatch", "wait"} => pc \in Sending
      BY DEF Sending
    <3>2. Sent(t)' <=> Sent(t)
      BY DEF Sent, native
    <3> QED
      BY <1>2, <3>1, <3>2, NotIdle DEF Engaged, Others
  <2>3. t \in Messages /\ UnresolvedSend(y) /\ Engaged(t)' => UnresolvedSend(task[t]) /\ Engaged(t)
    BY <2>2 DEF UnresolvedSend, OnlyBox
  <2>4. y # Absent /\ after.pc \notin Sending
    BY NotAbsent
  <2> QED
    BY <1>1, <2>1, <2>3, <2>4, SaveSend
<1>7. WatchInv' /\ RenewInv'
  <2>1. y.renewals <= troubles'
    <3>1. x.renewals \in Nat /\ x.renewals <= troubles /\ troubles \in Nat
      BY RenewalFacts
    <3> QED
      BY <3>1 DEF OnlyBox
  <2>2. troubles' \in Nat /\ after.pc # "observed"
    BY NativeAssumption
  <2> QED
    BY <1>1, <2>1, <2>2, SaveWatch
<1>8. AskInv'
  <2>1. Announced(y)
    <3>1. \A q \in Questions : Has(y, Asked(q)) => Has(x, Asked(q))
      BY DEF Has
    <3>2. Announced(x) /\ y.pending = x.pending /\ y.turn = x.turn
      BY <1>1 DEF AskInv, OnlyBox
    <3> QED
      BY <3>1, <3>2 DEF Announced
  <2>2. after.pc # "observed"
    OBVIOUS
  <2> QED
    BY <1>1, <2>1, <2>2, SaveAsk
<1> QED
  BY <1>4, <1>5, <1>6, <1>7, <1>8

\* The notification that a process delivers.
LEMMA CallFacts ==
  ASSUME IInv, NEW p \in Procs, job[p].pc \in Calls
  PROVE  LET j == job[p]
             x == task[j.id]
             n == x.box[j.note]
         IN /\ j \in CallType /\ j.id \in Ids /\ Stored(j.id) /\ WellFormed(j.id, x)
            /\ j.note \in DOMAIN x.box /\ n \in Notes /\ n.attempts <= Budget(n)
            /\ Notice(p) = <<j.id, n.key>> /\ Notice(p) \in Notices
            /\ CallOK(p)
            /\ \A r \in Procs \ {p} : job[r].pc \in Calls =>
                 Notice(r) # Notice(p) /\ ~(job[r].id = j.id /\ job[r].note = j.note)
<1> DEFINE j == job[p]
           x == task[j.id]
           n == x.box[j.note]
<1>1. TypeInv /\ OutboxInv
  BY DEF IInv
<1>2. ASSUME NEW r \in Procs, job[r].pc \in Calls
      PROVE  /\ job[r] \in CallType /\ job[r].id \in Ids /\ Stored(job[r].id)
             /\ job[r].note \in DOMAIN task[job[r].id].box
  BY <1>1, <1>2, NotIdle DEF TypeInv, JobOK
<1>3. WellFormed(j.id, x)
  BY <1>1, <1>2 DEF TypeInv
<1>4. n \in Notes /\ n.attempts <= Budget(n)
  BY <1>2, <1>3 DEF WellFormed, RecordType, Orderly
<1>5. Notice(p) = <<j.id, n.key>> /\ n.key \in Keys
  BY <1>4 DEF Notice, Notes
<1>6. ASSUME NEW r \in Procs \ {p}, job[r].pc \in Calls
      PROVE  Notice(r) # Notice(p) /\ ~(job[r].id = j.id /\ job[r].note = j.note)
  <2>1. ~(job[r].id = j.id /\ job[r].note = j.note)
    BY <1>1, <1>6 DEF OutboxInv
  <2> QED
    BY <1>1, <1>2, <1>6, <2>1, NoticesDiffer DEF Notice
<1>7. Notice(p) \in Notices
  BY <1>2, <1>5 DEF Notices
<1>8. CallOK(p)
  BY <1>1 DEF OutboxInv
<1>9. j \in CallType /\ j.id \in Ids /\ Stored(j.id) /\ j.note \in DOMAIN x.box
  BY <1>2
<1> QED
  BY <1>3, <1>4, <1>5, <1>6, <1>7, <1>8, <1>9

\* What a save does to the outboxes that changes one notification at will.
LEMMA SaveDelivery ==
  ASSUME IInv, NEW p \in Procs, NEW t \in Ids, NEW y, NEW after, SaveBy(p, t, y, after),
         Stored(t), WellFormed(t, y),
         DOMAIN y.box = DOMAIN task[t].box, NEW i \in DOMAIN task[t].box,
         y.box[i].key = task[t].box[i].key,
         \A k \in DOMAIN task[t].box \ {i} : Passive(task[t].box[k], y.box[k]),
         \A r \in Procs \ {p} : job[r].pc \in Calls /\ job[r].id = t => job[r].note # i,
         NEW c, c = <<t, task[t].box[i].key>>,
         heard' = heard, exposed' \in {exposed, exposed \ {c}},
         exposed' # exposed => heard[c] = 0,
         Unexposed(y.box[i]) => c \notin exposed',
         y.box[i].status = "accepted" => heard[c] = 1,
         after.pc \in Calls => after.id = t /\ after.note = i /\ CallOK(p)'
  PROVE  OutboxInv'
<1> DEFINE x == task[t]
<1>1. TypeInv /\ OutboxInv
  BY DEF IInv
<1>2. /\ task'[t] = y /\ \A u \in Ids \ {t} : task'[u] = task[u]
      /\ job'[p] = after /\ \A r \in Procs \ {p} : Others(r, t)
  BY <1>1, SaveFacts
<1>3. y # Absent
  BY NotAbsent
<1>4. \A k \in DOMAIN x.box : y.box[k].key = x.box[k].key
  BY DEF Passive
<1>5. \A d \in Notices : heard'[d] <= 1 /\ (heard'[d] = 1 => d \in exposed')
  BY <1>1 DEF OutboxInv
<1>6. ASSUME NEW d \in exposed'
      PROVE  Stored(d[1])' /\ Has(task'[d[1]], d[2])
  <2>1. d[1] \in Ids /\ Stored(d[1]) /\ Has(task[d[1]], d[2])
    BY <1>1, <1>6 DEF OutboxInv, TypeInv, Notices
  <2> QED
    BY <1>2, <1>3, <1>4, <2>1 DEF Stored, Has
<1>7. ASSUME NEW k \in DOMAIN y.box
      PROVE  /\ Unexposed(y.box[k]) => <<t, y.box[k].key>> \notin exposed'
             /\ y.box[k].status = "accepted" => heard'[<<t, y.box[k].key>>] = 1
  <2>1. CASE k = i
    BY <2>1
  <2>2. CASE k # i
    <3>1. Passive(x.box[k], y.box[k]) /\ BoxOK(t, x.box)
      BY <1>1, <2>2 DEF OutboxInv
    <3>2. /\ Unexposed(x.box[k]) => <<t, x.box[k].key>> \notin exposed
          /\ x.box[k].status = "accepted" => heard[<<t, x.box[k].key>>] = 1
      BY <3>1 DEF BoxOK
    <3> QED
      BY <3>1, <3>2 DEF Passive
  <2> QED
    BY <2>1, <2>2
<1>8. ASSUME NEW u \in Ids, Stored(u)'
      PROVE  BoxOK(u, task[u].box)'
  <2>1. CASE u = t
    BY <1>2, <1>7, <2>1 DEF BoxOK
  <2>2. CASE u # t
    <3> DEFINE box == task[u].box
    <3>1. task'[u].box = box /\ BoxOK(u, box)
      BY <1>1, <1>2, <1>8, <2>2 DEF OutboxInv, Stored
    <3> HIDE DEF box
    <3> QED
      BY <3>1 DEF BoxOK
  <2> QED
    BY <2>1, <2>2
<1>9. \A r \in Procs \ {p} : job'[r].pc \in Calls => job'[r] = job[r]
  BY <1>2, NotIdle DEF Others
<1>10. ASSUME NEW r \in Procs, job'[r].pc \in Calls
       PROVE  CallOK(r)'
  <2>1. CASE r = p
    BY <1>2, <1>10, <2>1
  <2>2. CASE r # p
    <3> DEFINE j == job[r]
               n == task[j.id].box[j.note]
               o == task'[j.id].box[j.note]
    <3>1. job'[r] = j /\ j.pc \in Calls
      BY <1>9, <1>10, <2>2
    <3>2. /\ CallOK(r) /\ j.id \in Ids /\ Stored(j.id) /\ j.note \in DOMAIN task[j.id].box
          /\ Notice(r) = <<j.id, n.key>>
      BY <3>1, CallFacts
    <3>3. ~(j.id = t /\ j.note = i)
      BY <2>2, <3>1
    <3>4. Passive(n, o)
      <4>1. CASE j.id = t
        BY <1>2, <3>2, <3>3, <4>1
      <4>2. CASE j.id # t
        BY <1>2, <3>2, <4>2 DEF Passive
      <4> QED
        BY <4>1, <4>2
    <3>5. Notice(r) # c
      BY <1>1, <3>2, <3>3, NoticesDiffer
    <3>6. Notice(r)' = <<j.id, o.key>>
      BY <3>1 DEF Notice
    <3>7. /\ n.attempts = j.attempt
          /\ IF j.pc = "reported" THEN n.status = "accepted" ELSE InFlight(n)
          /\ j.pc = "claimed" => Notice(r) \notin exposed
          /\ j.pc = "calling" => Notice(r) \in exposed /\ heard[Notice(r)] = 0
          /\ j.pc \in {"reached", "reported"} => heard[Notice(r)] = 1
      BY <3>2 DEF CallOK
    <3>8. Notice(r)' = Notice(r) /\ o.attempts = n.attempts
          /\ (o.status = "accepted" <=> n.status = "accepted") /\ (InFlight(n) => InFlight(o))
      BY <3>2, <3>4, <3>6 DEF Passive
    <3>9. /\ o.attempts = j.attempt
          /\ IF j.pc = "reported" THEN o.status = "accepted" ELSE InFlight(o)
          /\ j.pc = "claimed" => Notice(r)' \notin exposed'
          /\ j.pc = "calling" => Notice(r)' \in exposed' /\ heard'[Notice(r)'] = 0
          /\ j.pc \in {"reached", "reported"} => heard'[Notice(r)'] = 1
      BY <3>5, <3>7, <3>8
    <3>10. task'[job'[r].id].box[job'[r].note] = o
      BY <3>1
    <3> HIDE DEF o, n, j
    <3> QED
      BY <3>1, <3>9, <3>10 DEF CallOK, InFlight
  <2> QED
    BY <2>1, <2>2
<1>11. ASSUME NEW r \in Procs, NEW q \in Procs, job'[r].pc \in Calls, job'[q].pc \in Calls,
              job'[r].id = job'[q].id, job'[r].note = job'[q].note
       PROVE  r = q
  BY <1>1, <1>2, <1>9, <1>11 DEF OutboxInv
<1> QED
  BY <1>5, <1>6, <1>8, <1>10, <1>11 DEF OutboxInv

Outcomes == {"accepted", "retryable", "permanent", "uncertain", "proven"}

\* The notification f that is left when an attempt to deliver n has ended.
Ended(n, outcome, f) ==
  /\ f \in Notes /\ f.key = n.key /\ f.attempts = n.attempts /\ f.attempts <= Budget(f)
  /\ outcome = "accepted" /\ (InFlight(n) \/ n.status = "accepted") => f.status = "accepted"
  /\ outcome # "accepted" /\ InFlight(n) => f.status # "accepted"
  /\ outcome \in {"permanent", "uncertain"} /\ InFlight(n) => ~Unexposed(f)

\* What the end of an attempt makes of the notification.
LEMMA FinishFacts ==
  ASSUME NEW x, NEW n \in Notes, n.attempts <= Budget(n), NEW attempt, n.attempts = attempt,
         NEW outcome \in Outcomes
  PROVE  Ended(n, outcome, Finish(x, n, attempt, outcome))
<1> DEFINE f == Finish(x, n, attempt, outcome)
           late == n.status # "leased"
                     /\ ~(n.status = "uncertain" /\ n.outcome = "expired" /\ Definitive(outcome))
           Good(o) == o \in Notes /\ o.key = n.key /\ o.attempts = n.attempts /\ o.granted = n.granted
           Set(status, out) == [n EXCEPT !.status = status, !.outcome = out]
<1>1. ASSUME NEW status \in {"ready", "leased", "retry_wait", "accepted", "failed", "uncertain"},
             NEW out \in {"none", "accepted", "retryable", "permanent", "uncertain", "expired"}
      PROVE  /\ Good(Set(status, out)) /\ Set(status, out).status = status
             /\ Set(status, out).outcome = out
  BY DEF Notes
<1>2. \A o : Good(o) => o.attempts <= Budget(o)
  BY DEF Budget
<1>3. CASE late
  <2>1. f = n
    BY <1>3 DEF Finish
  <2> QED
    BY <1>3, <2>1 DEF Definitive, InFlight, Unexposed, Outcomes, Ended
<1>4. CASE ~late /\ outcome = "accepted"
  <2> DEFINE status == "accepted"
             o == Set(status, status)
  <2>1. f = o
    BY <1>4 DEF Finish
  <2>2. Good(o) /\ o.status = status
    BY <1>1
  <2> HIDE DEF o
  <2> QED
    BY <1>2, <1>4, <2>1, <2>2 DEF Ended
<1>5. CASE ~late /\ outcome \in {"permanent", "uncertain"}
  <2> DEFINE status == IF outcome = "permanent" THEN "failed" ELSE outcome
             o == Set(status, outcome)
  <2>1. f = o
    BY <1>5 DEF Finish
  <2>2. status \in {"failed", "uncertain"}
    BY <1>5
  <2>3. /\ status \in {"ready", "leased", "retry_wait", "accepted", "failed", "uncertain"}
        /\ outcome \in {"none", "accepted", "retryable", "permanent", "uncertain", "expired"}
    BY <1>5, <2>2
  <2> HIDE DEF status, Set
  <2>4. Good(o) /\ o.status = status /\ o.outcome = outcome
    BY <1>1, <2>3
  <2> HIDE DEF o
  <2> QED
    BY <1>2, <1>5, <2>1, <2>2, <2>4 DEF Unexposed, Ended
<1>6. CASE ~late /\ outcome \in {"retryable", "proven"}
  <2> DEFINE status == IF ~Stopped(x) /\ n.attempts < Budget(n) THEN "retry_wait" ELSE "failed"
             out == IF Stale(x, n) THEN "permanent" ELSE "retryable"
             final == IF Stale(x, n) THEN "failed" ELSE status
             o == Set(final, out)
  <2>1. f = o
    <3>1. CASE Stale(x, n)
      BY <1>6, <3>1 DEF Finish, Withdraw
    <3>2. CASE ~Stale(x, n)
      <4>1. f = [n EXCEPT !.outcome = "retryable", !.status = status]
        BY <1>6, <3>2 DEF Finish
      <4> HIDE DEF status
      <4>2. f = [n EXCEPT !.status = status, !.outcome = "retryable"]
        BY <4>1 DEF Notes
      <4> QED
        BY <3>2, <4>2
    <3> QED
      BY <3>1, <3>2
  <2>2. final \in {"failed", "retry_wait"} /\ out \in {"permanent", "retryable"}
    OBVIOUS
  <2> HIDE DEF final, out, Set
  <2>3. /\ final \in {"ready", "leased", "retry_wait", "accepted", "failed", "uncertain"}
        /\ out \in {"none", "accepted", "retryable", "permanent", "uncertain", "expired"}
    BY <2>2
  <2>4. Good(o) /\ o.status = final
    BY <1>1, <2>3
  <2> HIDE DEF o
  <2> QED
    BY <1>2, <1>6, <2>1, <2>2, <2>4 DEF Ended
<1> QED
  BY <1>3, <1>4, <1>5, <1>6 DEF Outcomes

\* Record y is record x of task t with the notification at i ended.
EndsAt(t, x, i, outcome, y) ==
  /\ WellFormed(t, y) /\ OnlyBox(x, y) /\ DOMAIN y.box = DOMAIN x.box
  /\ Ended(x.box[i], outcome, y.box[i])
  /\ \A k \in DOMAIN x.box \ {i} : y.box[k] = x.box[k]

\* The process that delivers a notification saves the outcome.
LEMMA FinishedFacts ==
  ASSUME IInv, NEW p \in Procs, job[p].pc \in Calls, NEW outcome \in Outcomes
  PROVE  EndsAt(job[p].id, task[job[p].id], job[p].note, outcome, Finished(p, outcome))
<1> DEFINE t == job[p].id
           x == task[t]
           i == job[p].note
           n == x.box[i]
           attempt == job[p].attempt
           f == Finish(x, n, attempt, outcome)
           y == [x EXCEPT !.box[i] = f]
<1>1. Finished(p, outcome) = y
  BY DEF Finished
<1>2. /\ WellFormed(t, x) /\ i \in DOMAIN x.box /\ n \in Notes
      /\ n.attempts <= Budget(n) /\ n.attempts = attempt
  BY CallFacts DEF CallOK
<1>3. x.box[i] = n
  OBVIOUS
<1> HIDE DEF n, attempt, x, i, t
<1>4. Ended(n, outcome, f)
  BY <1>2, FinishFacts
<1> HIDE DEF f
<1>5. f \in Notes /\ f.key = x.box[i].key /\ f.attempts <= Budget(f)
  BY <1>3, <1>4 DEF Ended
<1>6. /\ WellFormed(t, y) /\ OnlyBox(x, y) /\ DOMAIN y.box = DOMAIN x.box
      /\ y.box[i] = f /\ \A k \in DOMAIN x.box \ {i} : y.box[k] = x.box[k]
  BY <1>2, <1>5, CellFacts
<1> HIDE DEF y
<1>7. EndsAt(t, x, i, outcome, y)
  BY <1>3, <1>4, <1>6 DEF EndsAt
<1> QED
  BY <1>1, <1>7 DEF x, i, t

\* A save of the outcome keeps the invariant, if the outcome is what happened.
LEMMA OutcomeStep ==
  ASSUME IInv, NEW p \in Procs, job[p].pc \in Calls, NEW outcome \in Outcomes, NEW after,
         SaveBy(p, job[p].id, Finished(p, outcome), after), UNCHANGED native, heard' = heard,
         exposed' \in {exposed, exposed \ {Notice(p)}},
         exposed' # exposed => heard[Notice(p)] = 0,
         outcome = "accepted" => job[p].pc \in {"reached", "reported"},
         outcome # "accepted" => job[p].pc # "reported",
         outcome \in {"retryable", "proven"} => exposed' = exposed \ {Notice(p)},
         troubles' >= troubles, troubles' \in 0 .. MaxTroubles,
         after = Idle \/ (outcome = "accepted" /\ after = [job[p] EXCEPT !.pc = "reported"])
  PROVE  Advances
<1> DEFINE t == job[p].id
           i == job[p].note
           x == task[t]
           y == Finished(p, outcome)
           n == x.box[i]
           c == Notice(p)
<1>1. /\ job[p] \in CallType /\ t \in Ids /\ Stored(t) /\ i \in DOMAIN x.box
      /\ c = <<t, n.key>> /\ c \in Notices /\ n \in Notes
      /\ \A r \in Procs \ {p} : job[r].pc \in Calls =>
           Notice(r) # c /\ ~(job[r].id = t /\ job[r].note = i)
  BY CallFacts
<1>2. /\ n.attempts = job[p].attempt
      /\ IF job[p].pc = "reported" THEN n.status = "accepted" ELSE InFlight(n)
      /\ job[p].pc \in {"reached", "reported"} => heard[c] = 1
  BY CallFacts DEF CallOK
<1>3. SaveBy(p, t, y, after) /\ EndsAt(t, x, i, outcome, y)
  BY FinishedFacts
<1> HIDE DEF y
<1>4. /\ WellFormed(t, y) /\ OnlyBox(x, y) /\ DOMAIN y.box = DOMAIN x.box
      /\ y.box[i].key = n.key /\ y.box[i].attempts = n.attempts
      /\ \A k \in DOMAIN x.box \ {i} : y.box[k] = x.box[k]
      /\ outcome = "accepted" => y.box[i].status = "accepted"
      /\ outcome # "accepted" => y.box[i].status # "accepted"
      /\ outcome \in {"permanent", "uncertain"} => ~Unexposed(y.box[i])
  BY <1>2, <1>3 DEF EndsAt, Ended
<1>5. task'[t] = y /\ job'[p] = after
  <2>1. TypeInv /\ t \in Ids
    BY <1>1 DEF IInv
  <2> HIDE DEF t
  <2> QED
    BY <1>3, <2>1, SaveFacts
<1>6. /\ JobOK(p)' /\ after.pc \notin Sending \cup {"observed"} /\ (after.pc # "idle" => after.id = t)
      /\ after.pc \in Calls => after.id = t /\ after.note = i /\ CallOK(p)'
  <2>1. CASE after = Idle
    <3>1. after.pc = "idle" /\ after.pc \notin Calls \cup Sending
      BY <2>1, NotIdle DEF Idle
    <3> QED
      BY <1>5, <3>1, NotIdle DEF JobOK, Sending
  <2>2. CASE after = [job[p] EXCEPT !.pc = "reported"] /\ outcome = "accepted"
    <3>1. "reported" \in Calls
      BY DEF Calls
    <3>2. /\ after \in CallType /\ after.pc = "reported" /\ after.id = t /\ after.note = i
          /\ after.attempt = job[p].attempt
      BY <1>1, <2>2, <3>1 DEF CallType
    <3>3. /\ after.pc \in Calls /\ after.pc \notin Sending
          /\ after.pc \notin {"idle", "observed", "preflight"}
      BY <3>1, <3>2, NotIdle
    <3>4. JobOK(p)'
      <4>1. task'[t] # Absent /\ i \in DOMAIN task'[t].box
        BY <1>1, <1>4, <1>5, NotAbsent
      <4>2. "result" \in Sending
        BY DEF Sending
      <4> QED
        BY <1>1, <1>5, <3>2, <3>3, <4>1, <4>2, NotIdle DEF JobOK, Stored
    <3>5. CallOK(p)'
      <4>1. heard[c] = 1 /\ y.box[i].attempts = after.attempt /\ y.box[i].status = "accepted"
        BY <1>2, <1>4, <2>2, <3>2
      <4>2. Notice(p)' = <<t, y.box[i].key>>
        BY <1>5, <3>2 DEF Notice
      <4>3. heard'[Notice(p)'] = 1
        <5>1. Notice(p)' = c
          BY <1>1, <1>4, <4>2
        <5> QED
          BY <4>1, <5>1
      <4> QED
        BY <1>5, <3>2, <4>1, <4>3 DEF CallOK
    <3> QED
      BY <3>2, <3>3, <3>4, <3>5
  <2> QED
    BY <2>1, <2>2
<1>7. \A u \in Ids \ {t} : task'[u] = task[u]
  <2>1. TypeInv /\ t \in Ids
    BY <1>1 DEF IInv
  <2> HIDE DEF t
  <2> QED
    BY <1>3, <2>1, SaveFacts
<1>8. \A k \in DOMAIN y.box : y.box[k].key = x.box[k].key
  BY <1>4
<1>9. exposed' \subseteq exposed
  OBVIOUS
<1>10. \A k \in DOMAIN x.box \ {i} : Passive(x.box[k], y.box[k])
  BY <1>4 DEF Passive
<1>11. /\ Unexposed(y.box[i]) => c \notin exposed'
       /\ y.box[i].status = "accepted" => heard[c] = 1
  BY <1>2, <1>4 DEF Unexposed, Outcomes
<1>12. \A r \in Procs \ {p} : job[r].pc \in Calls /\ job[r].id = t => job[r].note # i
  BY <1>1
<1> HIDE DEF t, i, c
<1>13. TypeInv' /\ TurnInv' /\ SendInv' /\ WatchInv' /\ RenewInv' /\ AskInv'
  BY <1>1, <1>4, <1>6, <1>8, <1>9, <1>3, SaveInPlace
<1>14. OutboxInv'
  <2>1. /\ y.box[i].key = task[t].box[i].key
        /\ \A k \in DOMAIN task[t].box \ {i} : Passive(task[t].box[k], y.box[k])
        /\ c = <<t, task[t].box[i].key>>
    BY <1>1, <1>4, <1>10
  <2>2. /\ exposed' \in {exposed, exposed \ {c}}
        /\ exposed' # exposed => heard[c] = 0
    BY DEF c
  <2> QED
    BY <1>1, <1>4, <1>6, <1>3, <1>11, <1>12, <2>1, <2>2, SaveDelivery
<1>15. IInv'
  BY <1>13, <1>14 DEF IInv
<1>16. Promise!Next
  <2>1. TypeInv /\ TypeInv' /\ y # Absent /\ task'[t] = y /\ Stored(t) /\ t \in Ids
    BY <1>1, <1>4, <1>5, <1>15, NotAbsent DEF IInv
  <2>2. /\ Offered' = Offered /\ Offered \subseteq Notices
        /\ \A d : d # c => (d \in Known' <=> d \in Known)
        /\ c \in Known <=> n.status = "accepted"
        /\ c \in Known' <=> y.box[i].status = "accepted"
    BY <1>1, <1>4, <1>7, <2>1, CellShown
  <2>3. CASE outcome = "accepted" /\ c \notin Known
    <3>1. Known' = Known \cup {c}
      BY <1>4, <2>2, <2>3
    <3>2. heard[c] = 1
      BY <1>2, <2>2, <2>3
    <3>3. exposed' = exposed
      BY <3>2 DEF c
    <3>4. Promise!Acknowledge(c)
      BY <2>2, <2>3, <3>1, <3>2, <3>3 DEF Promise!Acknowledge
    <3> QED
      BY <1>1, <3>4 DEF Promise!Next
  <2>4. CASE outcome = "accepted" /\ c \in Known
    <3>1. Known' = Known
      BY <1>4, <2>2, <2>4
    <3>2. heard[c] = 1
      BY <1>2, <2>4
    <3>3. exposed' = exposed
      BY <3>2 DEF c
    <3> QED
      BY <2>2, <3>1, <3>3 DEF Promise!Offer, Promise!Next
  <2>5. CASE outcome # "accepted"
    <3>1. c \notin Known
      BY <1>2, <2>2, <2>5 DEF InFlight
    <3>2. Known' = Known
      <4>1. c \notin Known'
        BY <1>4, <2>2, <2>5
      <4>2. \A d : d \in Known' <=> d \in Known
        BY <2>2, <3>1, <4>1
      <4> QED
        BY <4>2
    <3>3. CASE exposed' = exposed
      BY <2>2, <3>2, <3>3 DEF Promise!Offer, Promise!Next
    <3>4. CASE exposed' = exposed \ {c} /\ c \in exposed
      <4>1. heard[c] = 0
        BY <3>4 DEF c
      <4>2. Promise!Refuse(c)
        BY <2>2, <3>2, <3>4, <4>1 DEF Promise!Refuse
      <4> QED
        BY <1>1, <4>2 DEF Promise!Next
    <3>5. exposed' = exposed \/ (exposed' = exposed \ {c} /\ c \in exposed)
      <4>1. exposed' \in {exposed, exposed \ {c}}
        BY DEF c
      <4>2. c \notin exposed => exposed \ {c} = exposed
        OBVIOUS
      <4> QED
        BY <4>1, <4>2
    <3> QED
      BY <3>3, <3>4, <3>5
  <2> QED
    BY <2>3, <2>4, <2>5
<1>17. Steady
  <2>1. x.pending = y.pending
    BY <1>4 DEF OnlyBox
  <2> QED
    BY <1>5, <1>7, <2>1 DEF Steady
<1> QED
  BY <1>15, <1>17, <1>16 DEF Advances

\* The attempts that come to an end.
LEMMA OutcomesStep ==
  ASSUME IInv, NEW p \in Procs, Checkpoint(p) \/ Return(p) \/ NotReached(p) \/ Fail(p)
  PROVE  Advances
<1>1. job[p].pc \in Calls
  BY DEF Checkpoint, Return, NotReached, Fail, At, Calls
<1>2. /\ job[p].pc = "calling" => heard[Notice(p)] = 0
  BY <1>1, CallFacts DEF CallOK
<1>3. CASE Checkpoint(p) \/ Return(p)
  <2> DEFINE outcome == "accepted"
  <2>1. /\ UNCHANGED native /\ heard' = heard /\ exposed' = exposed /\ troubles' = troubles
        /\ job[p].pc \in {"reached", "reported"}
    BY <1>3 DEF Checkpoint, Return, At
  <2>2. PICK after \in {Idle, [job[p] EXCEPT !.pc = "reported"]} :
          SaveBy(p, job[p].id, Finished(p, outcome), after)
    BY <1>3 DEF Checkpoint, Return
  <2>3. outcome \in Outcomes /\ outcome = "accepted"
    BY DEF Outcomes
  <2> HIDE DEF outcome
  <2>4. troubles' >= troubles /\ troubles' \in 0 .. MaxTroubles
    BY <2>1, TroubleFacts DEF IInv
  <2> QED
    BY <1>1, <2>1, <2>2, <2>3, <2>4, OutcomeStep
<1>4. CASE NotReached(p)
  <2>1. /\ UNCHANGED native /\ heard' = heard /\ exposed' = exposed \ {Notice(p)} /\ Trouble
        /\ job[p].pc = "calling"
    BY <1>4 DEF NotReached, At
  <2>2. PICK outcome \in {"retryable", "proven"} :
          SaveBy(p, job[p].id, Finished(p, outcome), Idle)
    BY <1>4 DEF NotReached
  <2>3. outcome \in Outcomes /\ outcome # "accepted"
    BY <2>2 DEF Outcomes
  <2>4. troubles' >= troubles /\ troubles' \in 0 .. MaxTroubles
    BY <2>1, TroubleFacts DEF IInv
  <2> QED
    BY <1>1, <1>2, <2>1, <2>2, <2>3, <2>4, OutcomeStep
<1>5. CASE Fail(p)
  <2>1. /\ UNCHANGED native /\ heard' = heard /\ exposed' = exposed /\ Trouble
        /\ job[p].pc \in {"calling", "reached"}
    BY <1>5 DEF Fail
  <2>2. PICK outcome \in {"permanent", "uncertain"} :
          SaveBy(p, job[p].id, Finished(p, outcome), Idle)
    BY <1>5 DEF Fail
  <2>3. outcome \in Outcomes /\ outcome \notin {"accepted", "retryable", "proven"}
    BY <2>2 DEF Outcomes
  <2>4. troubles' >= troubles /\ troubles' \in 0 .. MaxTroubles
    BY <2>1, TroubleFacts DEF IInv
  <2> QED
    BY <1>1, <2>1, <2>2, <2>3, <2>4, OutcomeStep
<1> QED
  BY <1>3, <1>4, <1>5

\* The controller is being called: nothing is saved.
LEMMA CallingStep ==
  ASSUME IInv, NEW p \in Procs, job[p].pc \in {"claimed", "calling"}, NEW pc \in {"calling", "reached"},
         Goto(p, [job[p] EXCEPT !.pc = pc]), UNCHANGED native, UNCHANGED troubles,
         \/ /\ job[p].pc = "claimed" /\ pc = "calling"
            /\ exposed' = exposed \cup {Notice(p)} /\ heard' = heard
         \/ /\ job[p].pc = "calling" /\ pc = "reached" /\ exposed' = exposed
            /\ heard' = [heard EXCEPT ![Notice(p)] = @ + 1]
  PROVE  Advances
<1> DEFINE after == [job[p] EXCEPT !.pc = pc]
           c == Notice(p)
           t == job[p].id
           i == job[p].note
           n == task[t].box[i]
<1>1. /\ TypeInv /\ TurnInv /\ SendInv /\ WatchInv /\ RenewInv /\ AskInv /\ OutboxInv
  BY DEF IInv
<1>2. /\ pc \in Calls /\ job[p].pc \in Calls
  BY DEF Calls
<1>3. /\ job[p] \in CallType /\ t \in Ids /\ Stored(t) /\ WellFormed(t, task[t])
      /\ i \in DOMAIN task[t].box
      /\ n \in Notes /\ c = <<t, n.key>> /\ c \in Notices
      /\ \A r \in Procs \ {p} : job[r].pc \in Calls =>
           Notice(r) # c /\ ~(job[r].id = t /\ job[r].note = i)
  BY <1>2, CallFacts
<1>4. /\ n.attempts = job[p].attempt /\ InFlight(n)
      /\ job[p].pc = "claimed" => c \notin exposed
      /\ job[p].pc = "calling" => c \in exposed /\ heard[c] = 0
  BY <1>2, CallFacts DEF CallOK
<1>5. /\ after \in CallType /\ after.pc = pc /\ after.id = t /\ after.note = i
      /\ after.attempt = job[p].attempt
  BY <1>2, <1>3 DEF CallType
<1>6. /\ task' = task /\ DOMAIN job' = Procs /\ job'[p] = after
      /\ \A r \in Procs \ {p} : job'[r] = job[r]
  BY <1>1, GotoFacts
<1>7. \/ job[p].pc = "claimed" /\ pc = "calling" /\ exposed' = exposed \cup {c} /\ heard' = heard
      \/ job[p].pc = "calling" /\ pc = "reached" /\ exposed' = exposed
           /\ heard' = [heard EXCEPT ![c] = @ + 1]
  OBVIOUS
<1>8. heard \in [Notices -> Nat] /\ exposed \subseteq Notices
       /\ \A d \in Notices : heard[d] <= 1 /\ (heard[d] = 1 => d \in exposed)
  BY <1>1 DEF TypeInv, OutboxInv
<1> HIDE DEF after, c
<1>9. pc \notin Sending /\ pc \notin {"idle", "observed", "preflight"} /\ "result" \in Sending
  BY <1>2, NotIdle DEF Sending
<1>10. heard[c] = 0
  <2>1. heard[c] \in Nat /\ heard[c] <= 1 /\ (heard[c] = 1 => c \in exposed) /\ c \in Notices
    BY <1>3, <1>8
  <2>2. heard[c] # 1
    BY <1>4, <1>7, <2>1
  <2> QED
    BY <2>1, <2>2
<1>11. /\ heard' \in [Notices -> Nat] /\ exposed' \subseteq Notices
       /\ \A d \in Notices : d # c => heard'[d] = heard[d] /\ (d \in exposed' <=> d \in exposed)
       /\ c \in exposed' /\ (pc = "calling" => heard'[c] = 0) /\ (pc = "reached" => heard'[c] = 1)
  <2>1. c \in Notices
    BY <1>3
  <2> QED
    BY <1>4, <1>10, <1>7, <1>8, <2>1
<1>12. /\ turn' = turn /\ latest' = latest /\ home' = home /\ shown' = shown /\ wire' = wire
       /\ starts' = starts /\ asking' = asking /\ troubles' = troubles
  BY DEF native
<1>13. ASSUME NEW r \in Procs
       PROVE  JobOK(r)'
  <2>1. CASE r = p
    <3>1. task'[t] # Absent /\ i \in DOMAIN task'[t].box
      BY <1>3, <1>6 DEF Stored
    <3> QED
      BY <1>2, <1>3, <1>5, <1>6, <1>9, <2>1, <3>1, NotIdle DEF JobOK, Stored
  <2>2. CASE r # p
    BY <1>1, <1>6, <2>2, JobStays DEF TypeInv
  <2> QED
    BY <2>1, <2>2
<1>14. TypeInv'
  BY <1>1, <1>6, <1>11, <1>12, <1>13 DEF TypeInv, Stored
<1>15. TurnInv'
  BY <1>1, <1>6, <1>12 DEF TurnInv, Stored, Running, Pending
<1>16. \A r \in Procs : job'[r].pc \in Sending => job'[r] = job[r]
  BY <1>5, <1>6, <1>9
<1>17. SendInv'
  <2>1. \A m : Sent(m)' <=> Sent(m)
    BY <1>12 DEF Sent
  <2>2. \A r \in Procs : job'[r].pc \in {"start", "dispatch", "wait"} => job'[r] = job[r]
    BY <1>16 DEF Sending
  <2>3. \A m \in Messages : Engaged(m)' => Engaged(m)
    BY <2>1, <2>2 DEF Engaged
  <2>4. ASSUME NEW r \in Procs, job'[r].pc \in Sending
        PROVE  /\ task'[job'[r].id].intent # "not_sent"
               /\ job'[r].pc \in {"start", "dispatch"} => ~Sent(job[r].id)'
               /\ job'[r].pc = "result" /\ job'[r].outcome = "not_sent" => ~Sent(job[r].id)'
    <3>1. job'[r] = job[r]
      BY <1>16, <2>4
    <3>2. Sent(job[r].id)' <=> Sent(job[r].id)
      BY <1>12, <3>1 DEF Sent
    <3> QED
      BY <1>1, <1>6, <2>4, <3>1, <3>2 DEF SendInv
  <2>5. \A m \in Messages :
          /\ starts'[m] + (IF m \in wire' THEN 1 ELSE 0) <= 1
          /\ Sent(m)' => Stored(m)'
          /\ Stored(m)' /\ task'[m].intent = "not_sent" => ~Sent(m)'
    BY <1>1, <1>6, <1>12, <2>1 DEF SendInv, Stored
  <2>6. \A m, k \in Messages :
          /\ Engaged(m)' /\ Stored(m)' /\ UnresolvedSend(task'[m])
          /\ Engaged(k)' /\ Stored(k)' /\ UnresolvedSend(task'[k])
          => m = k
    BY <1>1, <1>6, <2>3 DEF SendInv, Stored
  <2>7. \A r, q \in Procs :
          job'[r].pc \in Sending /\ job'[q].pc \in Sending /\ job'[r].id = job'[q].id => r = q
    BY <1>1, <1>16 DEF SendInv
  <2> QED
    BY <2>4, <2>5, <2>6, <2>7 DEF SendInv
<1>18. \A r \in Procs : job'[r].pc = "observed" => job'[r] = job[r] /\ r # p
  BY <1>5, <1>6, <1>9
<1>19. \A r \in Procs : (job'[r].pc # "idle" <=> job[r].pc # "idle")
         /\ (job[r].pc # "idle" => job'[r].id = job[r].id)
  BY <1>2, <1>5, <1>6, NotIdle
<1>20. WatchInv'
  <2> SUFFICES ASSUME NEW r \in Procs, job'[r].pc = "observed", job'[r].why = "watch"
               PROVE  /\ job'[r].id \in Watches /\ task'[job'[r].id] = Absent /\ job'[r].fresh
                      /\ job'[r].snap # Unavailable /\ job'[r].snap.bind # None
                      /\ \A q \in Procs \ {r} : job'[q].pc # "idle" => job'[q].id # job'[r].id
    BY DEF WatchInv, Stored, Unavailable
  <2> QED
    BY <1>1, <1>6, <1>18, <1>19 DEF WatchInv, Stored
<1>21. RenewInv'
  BY <1>1, <1>6, <1>12, <1>18 DEF RenewInv, Stored
<1>22. AskInv'
  <2>1. ASSUME NEW u \in Ids, Stored(u)'
        PROVE  Announced(task[u])'
    BY <1>1, <1>6, <1>12, <2>1 DEF AskInv, Stored, Announced, Has, Running, Asked
  <2>2. ASSUME NEW r \in Procs, job'[r].pc = "observed"
        PROVE  /\ Seen(job[r].id, job[r].snap)'
               /\ job'[r].fresh /\ job'[r].why # "watch" => Fits(task[job[r].id], job[r].snap)'
    <3> DEFINE k == job[r].id
               s == job[r].snap
    <3>1. job'[r] = job[r] /\ Seen(k, s) /\ (job[r].fresh /\ job[r].why # "watch" => Fits(task[k], s))
      BY <1>1, <1>18, <2>2 DEF AskInv
    <3>2. Seen(job[r].id, job[r].snap)'
      BY <1>12, <3>1 DEF Seen, Running, Unavailable
    <3>3. ASSUME Fits(task[k], s)
          PROVE  Fits(task[job[r].id], job[r].snap)'
      <4>1. job'[r].id = k /\ job'[r].snap = s /\ task' = task /\ asking' = asking
        BY <1>6, <1>12, <3>1
      <4> HIDE DEF k, s
      <4> QED
        BY <3>3, <4>1 DEF Fits, Unavailable, Has, Asked
    <3> QED
      BY <3>1, <3>2, <3>3
  <2> QED
    BY <2>1, <2>2 DEF AskInv
<1>23. OutboxInv'
  <2>1. \A d \in Notices : heard'[d] <= 1 /\ (heard'[d] = 1 => d \in exposed')
    BY <1>1, <1>11 DEF OutboxInv
  <2>2. ASSUME NEW d \in exposed'
        PROVE  Stored(d[1])' /\ Has(task'[d[1]], d[2])
    <3>1. CASE d = c
      BY <1>3, <1>6, <3>1 DEF Stored, Has
    <3>2. CASE d # c
      BY <1>1, <1>6, <1>11, <2>2, <3>2 DEF OutboxInv, Stored
    <3> QED
      BY <3>1, <3>2
  <2>3. ASSUME NEW u \in Ids, Stored(u)'
        PROVE  BoxOK(u, task[u].box)'
    <3> DEFINE box == task[u].box
    <3>1. Stored(u) /\ WellFormed(u, task[u]) /\ BoxOK(u, box)
      BY <1>1, <1>6, <2>3 DEF OutboxInv, TypeInv, Stored
    <3>2. ASSUME NEW k \in DOMAIN box
          PROVE  /\ Unexposed(box[k]) => <<u, box[k].key>> \notin exposed'
                 /\ box[k].status = "accepted" => heard'[<<u, box[k].key>>] = 1
      <4>1. <<u, box[k].key>> \in Notices
        BY <3>1, NotesOf DEF Notices, Notes
      <4>2. CASE <<u, box[k].key>> = c
        <5>1. <<u, task[u].box[k].key>> = <<t, task[t].box[i].key>>
          BY <1>3, <4>2
        <5>2. u = t /\ k = i
          <6>1. t \in Ids /\ Stored(t) /\ i \in DOMAIN task[t].box
            BY <1>3
          <6> HIDE DEF t, i
          <6> QED
            BY <1>1, <3>1, <5>1, <6>1, NoticesDiffer
        <5>3. box[k] = n
          BY <5>2
        <5> QED
          BY <1>4, <5>3 DEF InFlight, Unexposed
      <4>3. CASE <<u, box[k].key>> # c
        BY <1>11, <3>1, <4>1, <4>3 DEF BoxOK
      <4> QED
        BY <4>2, <4>3
    <3>3. task'[u].box = box
      BY <1>6
    <3> HIDE DEF box
    <3> QED
      BY <3>2, <3>3 DEF BoxOK, Unexposed
  <2>4. ASSUME NEW r \in Procs, job'[r].pc \in Calls
        PROVE  CallOK(r)'
    <3>1. CASE r = p
      <4>1. Notice(p)' = c
        BY <1>3, <1>5, <1>6 DEF Notice
      <4>2. pc # "claimed" /\ pc # "reported"
        OBVIOUS
      <4>3. task'[job'[p].id].box[job'[p].note] = n
        BY <1>5, <1>6
      <4> HIDE DEF n
      <4> QED
        BY <1>4, <1>5, <1>6, <1>11, <3>1, <4>1, <4>2, <4>3 DEF CallOK, InFlight
    <3>2. CASE r # p
      <4>1. job'[r] = job[r] /\ job[r].pc \in Calls
        BY <1>6, <2>4, <3>2
      <4>2. CallOK(r) /\ Notice(r) # c /\ Notice(r) \in Notices
        BY <1>3, <3>2, <4>1, CallFacts
      <4>3. Notice(r)' = Notice(r)
        BY <1>6, <4>1 DEF Notice
      <4>4. heard'[Notice(r)] = heard[Notice(r)] /\ (Notice(r) \in exposed' <=> Notice(r) \in exposed)
        BY <1>11, <4>2
      <4> QED
        BY <1>6, <4>1, <4>2, <4>3, <4>4 DEF CallOK, InFlight
    <3> QED
      BY <3>1, <3>2
  <2>5. ASSUME NEW r \in Procs, NEW q \in Procs, job'[r].pc \in Calls, job'[q].pc \in Calls,
               job'[r].id = job'[q].id, job'[r].note = job'[q].note
        PROVE  r = q
    <3>1. \A k \in Procs : job'[k].pc \in Calls =>
            job[k].pc \in Calls /\ job'[k].id = job[k].id /\ job'[k].note = job[k].note
      BY <1>2, <1>5, <1>6
    <3> QED
      BY <1>1, <2>5, <3>1 DEF OutboxInv
  <2> QED
    BY <2>1, <2>2, <2>3, <2>4, <2>5 DEF OutboxInv
<1>24. IInv'
  BY <1>14, <1>15, <1>17, <1>20, <1>21, <1>22, <1>23 DEF IInv
<1>25. Steady
  BY <1>6 DEF Steady
<1>26. Offered' = Offered /\ Known' = Known /\ c \in Offered
  <2>1. Offered' = Offered /\ Known' = Known
    BY <1>6 DEF Offered, Known, Recorded, Stored
  <2>2. c \in Offered
    BY <1>1, <1>3, OfferedFacts
  <2> QED
    BY <2>1, <2>2
<1>27. Promise!Next
  <2>1. CASE pc = "calling" /\ exposed' = exposed \cup {c} /\ heard' = heard /\ c \notin exposed
    <3>1. Promise!Expose(c)
      BY <1>26, <2>1 DEF Promise!Expose
    <3> QED
      BY <1>3, <3>1 DEF Promise!Next
  <2>2. CASE pc = "reached" /\ exposed' = exposed /\ heard' = [heard EXCEPT ![c] = @ + 1]
    <3>1. heard' = [heard EXCEPT ![c] = 1] /\ c \in exposed
      BY <1>10, <1>11, <2>2
    <3>2. Promise!Take(c)
      BY <1>10, <1>26, <2>2, <3>1 DEF Promise!Take
    <3> QED
      BY <1>3, <3>2 DEF Promise!Next
  <2> QED
    BY <1>4, <1>7, <2>1, <2>2
<1> QED
  BY <1>24, <1>25, <1>27 DEF Advances

\* The controller is called, and takes the notification.
LEMMA CallStep ==
  ASSUME IInv, NEW p \in Procs, Call(p) \/ Reach(p)
  PROVE  Advances
<1>1. CASE Reach(p)
  <2> DEFINE pc == "reached"
  <2>1. /\ job[p].pc = "calling" /\ UNCHANGED native /\ UNCHANGED troubles /\ exposed' = exposed
        /\ heard' = [heard EXCEPT ![Notice(p)] = @ + 1] /\ Goto(p, [job[p] EXCEPT !.pc = pc])
    BY <1>1 DEF Reach, At
  <2>2. pc \in {"calling", "reached"} /\ pc = "reached"
    OBVIOUS
  <2> HIDE DEF pc
  <2> QED
    BY <2>1, <2>2, CallingStep
<1>2. CASE Call(p)
  <2>1. /\ job[p].pc = "claimed" /\ UNCHANGED native /\ heard' = heard /\ troubles' = troubles
        /\ \/ /\ SaveBy(p, job[p].id, Finished(p, "permanent"), Idle)
              /\ exposed' = exposed
           \/ /\ Goto(p, [job[p] EXCEPT !.pc = "calling"])
              /\ exposed' = exposed \cup {Notice(p)}
    BY <1>2 DEF Call, At
  <2>2. CASE SaveBy(p, job[p].id, Finished(p, "permanent"), Idle) /\ exposed' = exposed
    <3> DEFINE outcome == "permanent"
    <3>1. SaveBy(p, job[p].id, Finished(p, outcome), Idle)
      BY <2>2
    <3>2. outcome \in Outcomes /\ outcome \notin {"accepted", "retryable", "proven"}
      BY DEF Outcomes
    <3> HIDE DEF outcome
    <3>3. job[p].pc \in Calls /\ job[p].pc # "reported"
      BY <2>1 DEF Calls
    <3>4. troubles' >= troubles /\ troubles' \in 0 .. MaxTroubles
      BY <2>1, TroubleFacts DEF IInv
    <3> QED
      BY <2>1, <2>2, <3>1, <3>2, <3>3, <3>4, OutcomeStep
  <2>3. CASE Goto(p, [job[p] EXCEPT !.pc = "calling"]) /\ exposed' = exposed \cup {Notice(p)}
    <3> DEFINE pc == "calling"
    <3>1. Goto(p, [job[p] EXCEPT !.pc = pc])
      BY <2>3
    <3>2. pc \in {"calling", "reached"} /\ pc = "calling"
      OBVIOUS
    <3> HIDE DEF pc
    <3> QED
      BY <2>1, <2>3, <3>1, <3>2, CallingStep
  <2> QED
    BY <2>1, <2>2, <2>3
<1> QED
  BY <1>1, <1>2

\* Sweeping changes notifications passively: nothing that may have arrived is offered again.
LEMMA SweptFacts ==
  ASSUME NEW x, NEW n \in Notes
  PROVE  /\ Swept(x, n) \in Notes /\ Passive(n, Swept(x, n))
         /\ Swept(x, n).granted = n.granted
<1> DEFINE o == [n EXCEPT !.status = "uncertain", !.outcome = "expired"]
<1>1. CASE n.status = "leased" /\ n.lapsed
  <2>1. Swept(x, n) = o
    BY <1>1 DEF Swept
  <2>2. /\ o \in Notes /\ o.key = n.key /\ o.attempts = n.attempts /\ o.granted = n.granted
        /\ o.status = "uncertain" /\ o.outcome = "expired"
    BY DEF Notes
  <2> HIDE DEF o
  <2> QED
    BY <1>1, <2>1, <2>2 DEF Passive, Unexposed, InFlight
<1>2. CASE n.status \in {"ready", "retry_wait"} /\ Swept(x, n) = Withdraw(n)
  BY <1>2, WithdrawFacts
<1>3. CASE Swept(x, n) = n
  BY <1>3 DEF Passive
<1> QED
  BY <1>1, <1>2, <1>3 DEF Swept

\* A notification is claimed that nobody delivers.
LEMMA ClaimedStep ==
  ASSUME IInv, NEW p \in Procs, NEW t \in Ids, Stored(t), NEW c \in DOMAIN task[t].box,
         Eligible(task[t], task[t].box[c]), NEW b \in [DOMAIN task[t].box -> Notes],
         b[c] = task[t].box[c],
         \A i \in DOMAIN b : Passive(task[t].box[i], b[i]) /\ b[i].granted = task[t].box[i].granted,
         NEW n, n = [task[t].box[c] EXCEPT !.status = "leased", !.lapsed = FALSE,
                                           !.attempts = @ + 1],
         SaveBy(p, t, [task[t] EXCEPT !.box = [b EXCEPT ![c] = n]],
                [pc |-> "claimed", id |-> t, note |-> c, attempt |-> n.attempts]),
         UNCHANGED native, UNCHANGED <<heard, exposed, troubles>>
  PROVE  Advances
<1> DEFINE x == task[t]
           old == x.box[c]
           box == [b EXCEPT ![c] = n]
           y == [x EXCEPT !.box = box]
           pc == "claimed"
           after == [pc |-> pc, id |-> t, note |-> c, attempt |-> n.attempts]
           d == <<t, old.key>>
<1>1. /\ TypeInv /\ OutboxInv
  BY DEF IInv
<1>2. WellFormed(t, x) /\ x.box \in Seq(Notes) /\ Orderly(x.box)
  BY RenewalFacts DEF WellFormed, RecordType
<1>3. /\ old \in Notes /\ old.status \in {"ready", "retry_wait"} /\ old.attempts < Budget(old)
  BY <1>2 DEF Eligible
<1>4. /\ n \in Notes /\ n.key = old.key /\ n.attempts = old.attempts + 1
      /\ n.granted = old.granted /\ n.status = "leased"
  <2> DEFINE flag == FALSE
             status == "leased"
             attempts == old.attempts + 1
             m == [old EXCEPT !.status = status, !.lapsed = flag, !.attempts = attempts]
  <2>1. n = m
    BY <1>3 DEF Notes
  <2>2. /\ flag \in BOOLEAN /\ status = "leased" /\ attempts \in Nat
        /\ status \in {"ready", "leased", "retry_wait", "accepted", "failed", "uncertain"}
    BY <1>3 DEF Notes
  <2> HIDE DEF flag, status, attempts, old
  <2>3. /\ m \in Notes /\ m.key = old.key /\ m.attempts = attempts
        /\ m.granted = old.granted /\ m.status = status
    BY <1>3, <2>2 DEF Notes
  <2> HIDE DEF m
  <2> QED
    BY <2>1, <2>2, <2>3 DEF attempts
<1>5. n.attempts <= Budget(n)
  <2>1. Budget(n) = Budget(old) /\ Budget(old) \in Nat /\ old.attempts \in Nat
    BY <1>3, <1>4, BudgetFacts DEF Budget, Notes
  <2> QED
    BY <1>3, <1>4, <2>1
<1>6. /\ box \in [DOMAIN x.box -> Notes] /\ box[c] = n
      /\ \A i \in DOMAIN x.box \ {c} : box[i] = b[i]
  BY <1>4
<1> HIDE DEF box
<1>7. ASSUME NEW i \in DOMAIN x.box
      PROVE  box[i].key = x.box[i].key /\ box[i].attempts <= Budget(box[i])
  <2>1. CASE i = c
    BY <1>4, <1>5, <1>6, <2>1
  <2>2. CASE i # c
    <3>1. /\ box[i] = b[i] /\ Passive(x.box[i], b[i]) /\ b[i].granted = x.box[i].granted
      BY <1>6, <2>2
    <3>2. x.box[i].attempts <= Budget(x.box[i])
      BY <1>2 DEF Orderly
    <3> QED
      BY <3>1, <3>2 DEF Passive, Budget
  <2> QED
    BY <2>1, <2>2
<1>8. /\ DOMAIN box = DOMAIN x.box /\ WellFormed(t, y) /\ y.box = box /\ OnlyBox(x, y)
  <2>1. \A i \in DOMAIN x.box :
          box[i].key = x.box[i].key /\ box[i].attempts <= Budget(box[i])
    BY <1>7
  <2>2. WellFormed(t, x) /\ box \in [DOMAIN x.box -> Notes]
    BY <1>2, <1>6
  <2> HIDE DEF x
  <2> QED
    BY <2>1, <2>2, MappedFacts
<1>9. SaveBy(p, t, y, after)
  BY DEF box
<1> HIDE DEF y
<1>10. /\ pc = "claimed" /\ pc \in Calls /\ c \in Nat /\ n.attempts \in Nat
  BY <1>2, <1>4 DEF Calls, Notes
<1> HIDE DEF pc
<1>11. /\ after \in CallType /\ after.pc = pc /\ after.id = t /\ after.note = c
       /\ after.attempt = n.attempts
  BY <1>10 DEF CallType
<1> HIDE DEF after
<1>12. task'[t] = y /\ job'[p] = after
  BY <1>1, <1>9, SaveFacts
<1>13. pc \notin Sending /\ pc \notin {"idle", "observed", "preflight"} /\ "result" \in Sending
  BY <1>10, NotIdle DEF Sending
<1>14. JobOK(p)'
  <2>1. task'[t] # Absent /\ c \in DOMAIN task'[t].box
    BY <1>8, <1>12, NotAbsent
  <2> QED
    BY <1>10, <1>11, <1>12, <1>13, <2>1, NotIdle DEF JobOK, Stored
<1>15. d \notin exposed
  BY <1>1, <1>3 DEF OutboxInv, BoxOK, Unexposed
<1>16. CallOK(p)'
  <2>1. Notice(p)' = d
    BY <1>4, <1>6, <1>8, <1>11, <1>12 DEF Notice
  <2>2. InFlight(n)
    BY <1>4 DEF InFlight
  <2>3. task'[job'[p].id].box[job'[p].note] = n
    BY <1>6, <1>8, <1>11, <1>12
  <2> HIDE DEF d
  <2> QED
    BY <1>10, <1>11, <1>12, <1>15, <2>1, <2>2, <2>3 DEF CallOK, InFlight
<1>17. ASSUME NEW r \in Procs \ {p}, job[r].pc \in Calls, job[r].id = t
       PROVE  job[r].note # c
  BY <1>1, <1>3, <1>17 DEF OutboxInv, CallOK, InFlight
<1>18. TypeInv' /\ TurnInv' /\ SendInv' /\ WatchInv' /\ RenewInv' /\ AskInv'
  <2>1. \A k \in DOMAIN y.box : y.box[k].key = task[t].box[k].key
    BY <1>7, <1>8
  <2>2. troubles' >= troubles /\ troubles' \in 0 .. MaxTroubles
    BY <1>1, TroubleFacts
  <2>3. after.pc \notin Sending \cup {"observed"} /\ (after.pc # "idle" => after.id = t)
    BY <1>11, <1>13
  <2>4. heard' = heard /\ exposed' \subseteq exposed
    OBVIOUS
  <2> QED
    BY <1>8, <1>9, <1>14, <2>1, <2>2, <2>3, <2>4, SaveInPlace
<1>19. OutboxInv'
  <2>1. y.box[c].key = task[t].box[c].key /\ ~Unexposed(y.box[c]) /\ y.box[c].status # "accepted"
    BY <1>4, <1>6, <1>8 DEF Unexposed
  <2>2. \A k \in DOMAIN task[t].box \ {c} : Passive(task[t].box[k], y.box[k])
    BY <1>6, <1>8
  <2>3. heard' = heard /\ exposed' = exposed /\ DOMAIN y.box = DOMAIN task[t].box
    BY <1>8
  <2>4. d = <<t, task[t].box[c].key>>
    OBVIOUS
  <2> HIDE DEF d
  <2> QED
    BY <1>8, <1>9, <1>11, <1>16, <1>17, <2>1, <2>2, <2>3, <2>4, SaveDelivery
<1>20. IInv'
  BY <1>18, <1>19 DEF IInv
<1>21. Noted(x.box, y.box)
  <2>1. \A k \in DOMAIN x.box :
          y.box[k].key = x.box[k].key
            /\ (y.box[k].status = "accepted" <=> x.box[k].status = "accepted")
    <3> TAKE k \in DOMAIN x.box
    <3>1. CASE k = c
      BY <1>3, <1>4, <1>6, <1>8, <3>1
    <3>2. CASE k # c
      BY <1>6, <1>8, <3>2 DEF Passive
    <3> QED
      BY <3>1, <3>2
  <2> QED
    BY <1>8, <2>1 DEF Noted
<1>22. y # Absent /\ y.pending = x.pending /\ \A u \in Ids \ {t} : task'[u] = task[u]
  <2>1. \A u \in Ids \ {t} : task'[u] = task[u]
    BY <1>1, <1>9, SaveFacts
  <2> QED
    BY <1>8, <2>1, NotAbsent DEF OnlyBox
<1> QED
  BY <1>12, <1>20, <1>21, <1>22, SaveAdvances

\* A notification is claimed, or the swept ones are saved.
LEMMA ClaimStep ==
  ASSUME IInv, NEW p \in Procs, Claim(p)
  PROVE  Advances
<1> DEFINE t == job[p].id
           x == task[t]
           Before(c) == [i \in DOMAIN x.box |->
             IF i < c /\ Selected(p, x.box[i]) THEN Swept(x, x.box[i]) ELSE x.box[i]]
           N(c) == [x.box[c] EXCEPT !.status = "leased", !.lapsed = FALSE, !.attempts = @ + 1]
           all == Before(Len(x.box) + 1)
<1>1. /\ job[p].pc = "deliver" /\ UNCHANGED native /\ UNCHANGED <<heard, exposed, troubles>>
      /\ \/ \E c \in DOMAIN x.box :
              /\ Eligible(x, x.box[c])
              /\ SaveBy(p, t, [x EXCEPT !.box = [Before(c) EXCEPT ![c] = N(c)]],
                        [pc |-> "claimed", id |-> t, note |-> c, attempt |-> N(c).attempts])
         \/ SaveBy(p, t, [x EXCEPT !.box = all], Idle)
  BY DEF Claim, At
<1>2. t \in Ids /\ Stored(t) /\ WellFormed(t, x)
  BY <1>1, JobFacts, NotIdle DEF IInv
<1>3. ASSUME NEW c
      PROVE  /\ Before(c) \in [DOMAIN x.box -> Notes]
             /\ \A i \in DOMAIN x.box :
                  Passive(x.box[i], Before(c)[i]) /\ Before(c)[i].granted = x.box[i].granted
  <2>1. ASSUME NEW i \in DOMAIN x.box
        PROVE  /\ Before(c)[i] \in Notes /\ Passive(x.box[i], Before(c)[i])
               /\ Before(c)[i].granted = x.box[i].granted
    <3>1. x.box[i] \in Notes
      BY <1>2, NotesOf
    <3>2. Before(c)[i] \in {x.box[i], Swept(x, x.box[i])}
      OBVIOUS
    <3>3. CASE Before(c)[i] = x.box[i]
      BY <3>1, <3>3 DEF Passive
    <3>4. CASE Before(c)[i] = Swept(x, x.box[i])
      BY <3>1, <3>4, SweptFacts
    <3> QED
      BY <3>2, <3>3, <3>4
  <2> QED
    BY <2>1
<1>4. ASSUME NEW c \in DOMAIN x.box PROVE Before(c)[c] = x.box[c]
  <2>1. ~(c < c)
    BY <1>2 DEF WellFormed, RecordType
  <2> QED
    BY <2>1
<1> HIDE DEF Before
<1>5. ASSUME NEW c \in DOMAIN x.box, Eligible(x, x.box[c]),
             SaveBy(p, t, [x EXCEPT !.box = [Before(c) EXCEPT ![c] = N(c)]],
                    [pc |-> "claimed", id |-> t, note |-> c, attempt |-> N(c).attempts])
      PROVE  Advances
  <2> DEFINE b == Before(c)
             n == N(c)
  <2>1. /\ b \in [DOMAIN task[t].box -> Notes] /\ b[c] = task[t].box[c]
        /\ \A i \in DOMAIN b : Passive(task[t].box[i], b[i]) /\ b[i].granted = task[t].box[i].granted
    BY <1>3, <1>4
  <2>2. n = [task[t].box[c] EXCEPT !.status = "leased", !.lapsed = FALSE, !.attempts = @ + 1]
    OBVIOUS
  <2>3. SaveBy(p, t, [task[t] EXCEPT !.box = [b EXCEPT ![c] = n]],
               [pc |-> "claimed", id |-> t, note |-> c, attempt |-> n.attempts])
    BY <1>5
  <2> HIDE DEF b, n, t
  <2> QED
    BY <1>1, <1>2, <1>5, <2>1, <2>2, <2>3, ClaimedStep DEF x
<1>6. ASSUME SaveBy(p, t, [x EXCEPT !.box = all], Idle)
      PROVE  Advances
  <2> DEFINE y == [x EXCEPT !.box = all]
  <2>1. /\ all \in [DOMAIN x.box -> Notes]
        /\ \A i \in DOMAIN x.box :
             Passive(x.box[i], all[i]) /\ all[i].granted >= x.box[i].granted
    <3>1. \A i \in DOMAIN x.box : x.box[i].granted \in Nat
      BY <1>2, NotesOf DEF Notes
    <3> QED
      BY <1>3, <3>1
  <2> HIDE DEF all
  <2>2. Carries(t, x, Unavailable, y) /\ OnlyBox(x, y)
    BY <1>2, <2>1, CarriesMapped
  <2>3. SaveBy(p, t, y, Idle)
    BY <1>6
  <2> HIDE DEF y
  <2>4. Seen(t, Unavailable) /\ Fits(task[t], Unavailable) /\ Idle \in After(t)
    BY UnavailableFacts DEF After
  <2>5. troubles' >= troubles /\ troubles' \in 0 .. MaxTroubles
    BY <1>1, TroubleFacts DEF IInv
  <2>6. Carries(t, task[t], Unavailable, y) /\ y.renewals = task[t].renewals
    BY <2>2 DEF OnlyBox
  <2> HIDE DEF t
  <2> QED
    BY <1>1, <1>2, <2>3, <2>4, <2>5, <2>6, ContinueStep
<1> QED
  BY <1>1, <1>5, <1>6

-----------------------------------------------------------------------------
(* ------------------------- sends and Watches ------------------------- *)

\* A save of a record of a message by the process that sends it.
LEMMA SendingSave ==
  ASSUME IInv, NEW p \in Procs, NEW m \in Messages, NEW y, NEW after, SaveBy(p, m, y, after),
         UNCHANGED native, UNCHANGED <<heard, exposed>>,
         troubles' >= troubles, troubles' \in 0 .. MaxTroubles,
         WellFormed(m, y), y.renewals <= troubles',
         after.pc \in {"idle", "settle", "start", "dispatch"}, after.pc # "idle" => after.id = m,
         Stored(m) => Passed(task[m].box, y.box) /\ y.turn = task[m].turn
                        /\ y.pending = task[m].pending
                        /\ \A q \in Questions : Has(y, Asked(q)) => Has(task[m], Asked(q)),
         ~Stored(m) => DOMAIN y.box = {} /\ y.turn = None,
         \A r \in Procs \ {p} : job[r].pc \in Sending => job[r].id # m,
         after.pc \in {"start", "dispatch"} => ~Sent(m) /\ y.intent # "not_sent",
         y.intent = "not_sent" => ~Sent(m),
         UnresolvedSend(y) =>
           \/ Stored(m) /\ UnresolvedSend(task[m]) /\ (Engaged(m)' => Engaged(m))
           \/ \A n \in Messages \ {m} : ~(Stored(n) /\ UnresolvedSend(task[n]))
  PROVE  Advances
<1>1. /\ TypeInv /\ TurnInv /\ SendInv /\ WatchInv /\ RenewInv /\ AskInv /\ OutboxInv
      /\ m \in Ids
  BY DEF IInv, Ids
<1>2. task'[m] = y /\ job'[p] = after
  BY <1>1, SaveFacts
<1>3. y # Absent
  BY NotAbsent
<1>4. /\ after.pc \in Pcs /\ after.pc \notin Calls /\ after.pc # "observed"
      /\ after.pc \notin {"preflight", "result"}
      /\ after.pc \in Sending => after.pc \in {"start", "dispatch"}
  BY NotIdle DEF Sending, Calls, Pcs
<1>5. JobOK(p)'
  <2>1. task'[m] # Absent
    BY <1>2, <1>3
  <2>2. after.pc # "idle" => job'[p].id = m
    BY <1>2
  <2> QED
    BY <1>1, <1>2, <1>4, <2>1, <2>2 DEF JobOK, Stored
<1>6. TypeInv'
  <2>1. heard' \in [Notices -> Nat] /\ exposed' \subseteq Notices
    BY <1>1 DEF TypeInv
  <2>2. Stored(m) => Keyed(task[m].box, y.box)
    BY PassedKeys
  <2> QED
    BY <1>1, <1>5, <2>1, <2>2, SaveType
<1>7. TurnInv'
  <2>1. y.turn # None => turn[y.turn] # "none" /\ (m \in Messages => starts[m] > 0)
    BY <1>1 DEF TurnInv
  <2> QED
    BY <1>1, <2>1, SaveTurn
<1>8. SendInv'
  <2>1. after.pc \in Sending =>
           /\ after.id = m /\ y.intent # "not_sent"
           /\ \A r \in Procs \ {p} : job[r].pc \in Sending => job[r].id # m
           /\ after.pc \in {"start", "dispatch"} => ~Sent(m)
           /\ after.pc = "result" /\ after.outcome = "not_sent" => ~Sent(m)
    BY <1>4
  <2>2. UnresolvedSend(y) /\ Engaged(m)' =>
           \/ Stored(m) /\ UnresolvedSend(task[m]) /\ Engaged(m)
           \/ \A n \in Messages \ {m} : ~(Stored(n) /\ UnresolvedSend(task[n]))
    OBVIOUS
  <2>3. y.intent = "not_sent" =>
          ~Sent(m) /\ \A r \in Procs \ {p} : job[r].pc \in Sending => job[r].id # m
    OBVIOUS
  <2> QED
    BY <1>1, <1>3, <2>1, <2>2, <2>3, SaveSend
<1>9. WatchInv' /\ RenewInv'
  <2>1. troubles' \in Nat
    BY NativeAssumption
  <2> QED
    BY <1>1, <1>4, <2>1, SaveWatch
<1>10. AskInv'
  <2>1. Announced(y)
    BY <1>1 DEF AskInv, Announced, Has
  <2> QED
    BY <1>1, <1>4, <2>1, SaveAsk
<1>11. OutboxInv'
  BY <1>1, <1>4, SaveOutbox
<1>12. IInv'
  BY <1>6, <1>7, <1>8, <1>9, <1>10, <1>11 DEF IInv
<1>13. \A u \in Ids \ {m} : task'[u] = task[u]
  BY <1>1, SaveFacts
<1> QED
  BY <1>1, <1>2, <1>3, <1>12, <1>13, PassedNoted, SaveAdvances

\* A message is reserved while no other send of the thread is open.
LEMMA ReserveStep ==
  ASSUME IInv, NEW p \in Procs, Reserve(p)
  PROVE  Advances
<1> DEFINE m == job[p].id
<1>1. /\ job[p].pc = "preflight" /\ UNCHANGED native /\ UNCHANGED <<heard, exposed>>
      /\ troubles' = troubles
      /\ \/ Goto(p, Idle)
         \/ ~Stored(m) /\ SaveBy(p, m, Record("failed", "not_sent", None), Idle)
         \/ /\ ~Stored(m) /\ ~\E t \in Ids : Stored(t) /\ UnresolvedSend(task[t])
            /\ SaveBy(p, m, Record("awaiting_acceptance", "reserved", None),
                      [pc |-> "start", id |-> m])
  BY DEF Reserve, At
<1>2. m \in Messages /\ m \in Ids
  BY <1>1 DEF IInv, TypeInv, JobOK, Ids
<1>3. troubles' >= troubles /\ troubles' \in 0 .. MaxTroubles /\ 0 <= troubles'
  BY <1>1, TroubleFacts, NativeAssumption DEF IInv
<1>4. CASE Goto(p, Idle)
  BY <1>1, <1>3, <1>4, IdleStep
<1>5. ASSUME ~Stored(m)
      PROVE  ~Sent(m) /\ \A r \in Procs \ {p} : job[r].pc \in Sending => job[r].id # m
  <2>1. \A r \in Procs : job[r].pc \in Sending => Stored(job[r].id)
    BY JobFacts, NotIdle DEF IInv, Sending
  <2> QED
    BY <1>2, <1>5, <2>1 DEF IInv, SendInv
<1> HIDE DEF m
<1>6. CASE ~Stored(m) /\ SaveBy(p, m, Record("failed", "not_sent", None), Idle)
  <2> DEFINE status == "failed"
             intent == "not_sent"
             y == Record(status, intent, None)
  <2>1. SaveBy(p, m, y, Idle)
    BY <1>6
  <2>2. status \in Statuses /\ status \notin {"watching", "completed"} /\ intent \in Intents
        /\ intent = "not_sent"
    BY DEF Statuses, Intents
  <2> HIDE DEF status, intent
  <2>3. /\ y.intent = intent /\ y.turn = None /\ y.renewals = 0 /\ DOMAIN y.box = {}
        /\ WellFormed(m, y)
    BY <1>2, <2>2, RecordFacts
  <2> HIDE DEF y
  <2>4. ~UnresolvedSend(y) /\ Idle.pc = "idle"
    BY <2>2, <2>3 DEF UnresolvedSend, Idle
  <2> QED
    BY <1>1, <1>2, <1>3, <1>5, <1>6, <2>1, <2>2, <2>3, <2>4, SendingSave
<1>7. CASE /\ ~Stored(m) /\ ~\E t \in Ids : Stored(t) /\ UnresolvedSend(task[t])
           /\ SaveBy(p, m, Record("awaiting_acceptance", "reserved", None),
                     [pc |-> "start", id |-> m])
  <2> DEFINE status == "awaiting_acceptance"
             intent == "reserved"
             y == Record(status, intent, None)
             after == [pc |-> "start", id |-> m]
  <2>1. SaveBy(p, m, y, after)
    BY <1>7
  <2>2. status \in Statuses /\ status \notin {"watching", "completed"} /\ intent \in Intents
        /\ intent = "reserved"
    BY DEF Statuses, Intents
  <2> HIDE DEF status, intent
  <2>3. /\ y.intent = intent /\ y.turn = None /\ y.renewals = 0 /\ DOMAIN y.box = {}
        /\ WellFormed(m, y)
    BY <1>2, <2>2, RecordFacts
  <2> HIDE DEF y
  <2>4. after.pc = "start" /\ after.id = m
    OBVIOUS
  <2> HIDE DEF after
  <2>5. \A n \in Messages \ {m} : ~(Stored(n) /\ UnresolvedSend(task[n]))
    BY <1>7 DEF Ids
  <2> QED
    BY <1>1, <1>2, <1>3, <1>5, <1>7, <2>1, <2>2, <2>3, <2>4, <2>5, SendingSave
<1> QED
  BY <1>1, <1>4, <1>6, <1>7

\* What a process knows of the message it sends.
LEMMA SendingFacts ==
  ASSUME IInv, NEW p \in Procs, job[p].pc \in Sending
  PROVE  LET m == job[p].id
         IN /\ m \in Messages /\ m \in Ids /\ Stored(m) /\ WellFormed(m, task[m])
            /\ task[m].intent # "not_sent"
            /\ job[p].pc \in {"start", "dispatch"} => ~Sent(m)
            /\ job[p].pc = "result" =>
                 /\ job[p].outcome \in {"receipt", "not_sent", "unknown"}
                 /\ job[p].outcome = "not_sent" => ~Sent(m)
            /\ \A r \in Procs \ {p} : job[r].pc \in Sending => job[r].id # m
<1>1. job[p].id \in Messages /\ (job[p].pc = "result" => job[p].outcome \in {"receipt", "not_sent", "unknown"})
  BY DEF IInv, TypeInv, JobOK
<1>2. job[p].id \in Ids /\ Stored(job[p].id) /\ WellFormed(job[p].id, task[job[p].id])
  BY JobFacts, NotIdle DEF IInv, Sending
<1> QED
  BY <1>1, <1>2 DEF IInv, SendInv

\* A send becomes uncertain before it is dispatched.
LEMMA CommitDispatchStep ==
  ASSUME IInv, NEW p \in Procs, CommitDispatch(p)
  PROVE  Advances
<1> DEFINE m == job[p].id
           x == task[m]
           ready == CanSend /\ Dispatchable(x)
<1>1. /\ job[p].pc = "start" /\ UNCHANGED native /\ UNCHANGED <<heard, exposed>>
      /\ \/ /\ Dispatchable(x) /\ Usual(TRUE)
            /\ SaveBy(p, m, [x EXCEPT !.intent = "uncertain"], [pc |-> "dispatch", id |-> m])
         \/ Goto(p, Result(m, "not_sent")) /\ Usual(~ready)
  BY DEF CommitDispatch, At
<1>2. troubles' >= troubles /\ troubles' \in 0 .. MaxTroubles
  BY <1>1, TroubleFacts DEF IInv
<1>3. CASE Goto(p, Result(m, "not_sent"))
  BY <1>1, <1>2, <1>3, CommitDispatchRefused
<1>4. "start" \in Sending
  BY DEF Sending
<1>5. /\ m \in Messages /\ m \in Ids /\ Stored(m) /\ WellFormed(m, x) /\ ~Sent(m)
      /\ \A r \in Procs \ {p} : job[r].pc \in Sending => job[r].id # m
  BY <1>1, <1>4, SendingFacts
<1>6. Engaged(m)
  BY <1>1 DEF Engaged
<1> HIDE DEF m
<1>7. ASSUME Dispatchable(x), SaveBy(p, m, [x EXCEPT !.intent = "uncertain"],
                                     [pc |-> "dispatch", id |-> m])
      PROVE  Advances
  <2> DEFINE intent == "uncertain"
             y == [x EXCEPT !.intent = intent]
             after == [pc |-> "dispatch", id |-> m]
  <2>1. SaveBy(p, m, y, after)
    BY <1>7
  <2>2. intent \in Intents /\ intent = "uncertain"
    BY DEF Intents
  <2>3. x.intent = "reserved" /\ x \in RecordType
    BY <1>5, <1>7 DEF Dispatchable, WellFormed
  <2> HIDE DEF intent
  <2>4. /\ y \in RecordType /\ y.intent = intent /\ y.turn = x.turn /\ y.box = x.box
        /\ y.pending = x.pending /\ y.renewals = x.renewals /\ y.closed = x.closed
        /\ y.status = x.status
    BY <2>2, <2>3 DEF RecordType
  <2> HIDE DEF y
  <2>5. WellFormed(m, y)
    BY <1>5, <2>2, <2>3, <2>4 DEF WellFormed
  <2>6. /\ Passed(x.box, y.box)
        /\ \A q \in Questions : Has(y, Asked(q)) => Has(x, Asked(q))
    BY <2>4 DEF Passed, Passive, Has
  <2>7. y.renewals <= troubles'
    <3>1. x.renewals \in Nat /\ x.renewals <= troubles /\ troubles \in Nat
      BY <1>5, RenewalFacts
    <3> QED
      BY <1>2, <2>4, <3>1
  <2>8. after.pc = "dispatch" /\ after.id = m
    OBVIOUS
  <2> HIDE DEF after
  <2>9. UnresolvedSend(y) => UnresolvedSend(x)
    BY <2>3, <2>4 DEF UnresolvedSend
  <2> QED
    BY <1>1, <1>2, <1>5, <1>6, <2>1, <2>2, <2>4, <2>5, <2>6, <2>7, <2>8, <2>9, SendingSave
<1> QED
  BY <1>1, <1>3, <1>7

\* The result of the dispatch is recorded.
LEMMA RecordResultStep ==
  ASSUME IInv, NEW p \in Procs, RecordResult(p)
  PROVE  Advances
<1> PICK m : m = job[p].id
  OBVIOUS
<1> DEFINE x == task[m]
           outcome == job[p].outcome
           y == Submitted(x, outcome)
           after == [pc |-> "settle", id |-> m]
<1>1. /\ job[p].pc = "result" /\ UNCHANGED native /\ UNCHANGED <<heard, exposed>>
      /\ troubles' = troubles /\ SaveBy(p, m, y, after)
  BY DEF RecordResult, At
<1>2. troubles' >= troubles /\ troubles' \in 0 .. MaxTroubles
  BY <1>1, TroubleFacts DEF IInv
<1>3. job[p].pc \in Sending
  BY <1>1 DEF Sending
<1>4. /\ m \in Messages /\ m \in Ids /\ Stored(m) /\ WellFormed(m, x) /\ x.intent # "not_sent"
      /\ outcome \in {"receipt", "not_sent", "unknown"} /\ (outcome = "not_sent" => ~Sent(m))
      /\ \A r \in Procs \ {p} : job[r].pc \in Sending => job[r].id # m
  BY <1>1, <1>3, SendingFacts
<1>5. after.pc = "settle" /\ after.id = m
  OBVIOUS
<1> HIDE DEF outcome, after
<1>6. /\ WellFormed(m, y) /\ Passed(x.box, y.box) /\ y.turn = x.turn
      /\ y.pending = x.pending /\ y.renewals = x.renewals
      /\ \A q \in Questions : Has(y, Asked(q)) => Has(x, Asked(q))
      /\ y.intent = "not_sent" => ~Sent(m)
      /\ UnresolvedSend(y) => UnresolvedSend(x)
  BY <1>4, SubmittedFacts
<1> HIDE DEF y
<1>7. Engaged(m)' => Engaged(m)
  <2>1. \A pc : pc \in {"start", "dispatch", "wait"} => pc \in Sending /\ pc # "settle"
    BY DEF Sending
  <2>2. job'[p] = after /\ \A r \in Procs \ {p} : Others(r, m)
    BY <1>1, <1>4, SaveFacts DEF IInv
  <2>3. Sent(m)' <=> Sent(m)
    BY <1>1 DEF Sent, native
  <2> QED
    BY <1>5, <2>1, <2>2, <2>3, NotIdle DEF Engaged, Others
<1>8. y.renewals <= troubles'
  <2>1. x.renewals \in Nat /\ x.renewals <= troubles /\ troubles \in Nat
    BY <1>4, RenewalFacts
  <2> QED
    BY <1>2, <1>6, <2>1
<1> QED
  BY <1>1, <1>2, <1>4, <1>5, <1>6, <1>7, <1>8, SendingSave

\* A Watch is stored.
LEMMA ApplyWatchStep ==
  ASSUME IInv, NEW p \in Procs, ApplyWatch(p)
  PROVE  Advances
<1> PICK w : w = job[p].id
  OBVIOUS
<1> DEFINE s == job[p].snap
           status == "watching"
           intent == "none"
           refresh == FALSE
           x == Record(status, intent, s.bind)
           y == Apply(x, s, refresh)
           after == Deliver(w, None)
<1>1. /\ job[p].pc = "observed" /\ job[p].why = "watch" /\ SaveBy(p, w, y, after)
      /\ UNCHANGED native /\ UNCHANGED <<heard, exposed>> /\ troubles' = troubles
  BY DEF ApplyWatch, At
<1>2. /\ TypeInv /\ TurnInv /\ SendInv /\ WatchInv /\ RenewInv /\ AskInv /\ OutboxInv
  BY DEF IInv
<1>3. /\ w \in Watches /\ w \in Ids /\ w \notin Messages /\ ~Stored(w)
      /\ s # Unavailable /\ s.bind # None
      /\ \A r \in Procs \ {p} : job[r].pc # "idle" => job[r].id # w
  BY <1>1, <1>2, NativeAssumption DEF WatchInv, Ids
<1>4. s \in Snaps /\ Seen(w, s)
  BY <1>1, <1>2 DEF TypeInv, JobOK, ObservedType, AskInv
<1>5. s.bind \in Turns
  BY <1>3, <1>4 DEF Snaps
<1>6. troubles' >= troubles /\ troubles' \in 0 .. MaxTroubles /\ 0 <= troubles' /\ troubles' \in Nat
  BY <1>1, <1>2, TroubleFacts, NativeAssumption
<1>7. after.pc = "deliver" /\ after.id = w
  BY DEF Deliver
<1>8. status \in Statuses /\ intent \in Intents /\ intent = "none"
  BY DEF Statuses, Intents
<1> HIDE DEF s, status, intent, refresh, after
<1>9. /\ x.turn = s.bind /\ x.renewals = 0 /\ DOMAIN x.box = {} /\ WellFormed(w, x)
  BY <1>3, <1>5, <1>8, RecordFacts
<1> HIDE DEF x
<1>10. Carries(w, x, s, y) /\ y.renewals = x.renewals
  BY <1>3, <1>4, <1>9, ApplyFacts
<1> HIDE DEF y
<1>11. WellFormed(w, y) /\ y # Absent /\ y.turn = s.bind
  BY <1>3, <1>9, <1>10, NotAbsent DEF Carries
<1>12. task'[w] = y /\ job'[p] = after
  BY <1>1, <1>2, <1>3, SaveFacts
<1>13. after.pc \in Pcs /\ after.pc \notin Sending \cup Calls \cup {"observed", "preflight", "idle", "result"}
  BY <1>7, NotIdle DEF Sending
<1>14. JobOK(p)'
  BY <1>3, <1>7, <1>11, <1>12, <1>13 DEF JobOK, Stored
<1>15. TypeInv'
  <2>1. heard' \in [Notices -> Nat] /\ exposed' \subseteq Notices
    BY <1>1, <1>2 DEF TypeInv
  <2> QED
    BY <1>1, <1>2, <1>3, <1>6, <1>11, <1>14, <2>1, SaveType
<1>16. TurnInv'
  <2>1. y.turn # None => turn[y.turn] # "none" /\ (w \in Messages => starts[w] > 0)
    BY <1>3, <1>4, <1>11 DEF Seen
  <2> QED
    BY <1>1, <1>2, <1>3, <2>1, SaveTurn
<1>17. SendInv'
  <2>1. after.pc \notin Sending
    BY <1>13
  <2> QED
    BY <1>1, <1>2, <1>3, <1>11, <2>1, SaveSend
<1>18. WatchInv' /\ RenewInv'
  <2>1. after.pc # "observed" /\ (after.pc # "idle" => after.id = w) /\ y.renewals <= troubles'
    BY <1>6, <1>7, <1>9, <1>10
  <2> QED
    BY <1>1, <1>2, <1>3, <1>6, <2>1, SaveWatch
<1>19. AskInv'
  <2>1. Fits(x, s) /\ Announced(x)
    BY <1>9 DEF Fits, Announced, Has
  <2>2. Announced(y)
    BY <1>4, <1>10, <2>1, CarriesAnnounced
  <2>3. after.pc # "observed"
    BY <1>7
  <2> QED
    BY <1>1, <1>2, <1>3, <2>2, <2>3, SaveAsk
<1>20. OutboxInv'
  <2>1. \A i \in DOMAIN y.box : y.box[i].status # "accepted"
    BY <1>9, <1>10 DEF Carries, Passed
  <2>2. after.pc \notin Calls
    BY <1>13
  <2> QED
    BY <1>1, <1>2, <1>3, <1>11, <2>1, <2>2, SaveOutbox
<1>21. IInv'
  BY <1>15, <1>16, <1>17, <1>18, <1>19, <1>20 DEF IInv
<1>22. /\ \A u \in Ids \ {w} : task'[u] = task[u]
       /\ \A i \in DOMAIN y.box : y.box[i].status # "accepted"
  <2>1. \A u \in Ids \ {w} : task'[u] = task[u]
    BY <1>1, <1>2, <1>3, SaveFacts
  <2> QED
    BY <1>9, <1>10, <2>1 DEF Carries, Passed
<1> QED
  BY <1>1, <1>3, <1>11, <1>12, <1>21, <1>22, SaveAdvances

\* The request of message m is dispatched or answered: nothing is saved.
LEMMA WireStep ==
  ASSUME IInv, NEW p \in Procs, job[p].pc \in {"dispatch", "wait"},
         NEW m, m = job[p].id, NEW after, Goto(p, after), after.pc \in {"wait", "result"},
         after.id = m,
         after.pc = "result" =>
           /\ after.outcome \in {"receipt", "not_sent", "unknown"}
           /\ after.outcome = "not_sent" => m \notin wire' /\ starts[m] = 0,
         \/ wire' = wire \/ wire' = wire \ {m}
         \/ job[p].pc = "dispatch" /\ wire' = wire \cup {m},
         UNCHANGED <<turn, latest, home, shown, starts, asking, heard, exposed>>,
         troubles' >= troubles, troubles' \in 0 .. MaxTroubles
  PROVE  Advances
<1>1. /\ TypeInv /\ TurnInv /\ SendInv /\ WatchInv /\ RenewInv /\ AskInv /\ OutboxInv
  BY DEF IInv
<1>2. /\ task' = task /\ DOMAIN job' = Procs /\ job'[p] = after
      /\ \A r \in Procs \ {p} : job'[r] = job[r]
  BY <1>1, GotoFacts
<1>3. job[p].pc \in Sending /\ after.pc \in Sending
  BY DEF Sending
<1>4. /\ m \in Messages /\ m \in Ids /\ Stored(m) /\ WellFormed(m, task[m])
      /\ task[m].intent # "not_sent" /\ (job[p].pc = "dispatch" => ~Sent(m))
      /\ \A r \in Procs \ {p} : job[r].pc \in Sending => job[r].id # m
  BY <1>3, SendingFacts
<1>5. after.pc \notin Calls /\ after.pc \notin {"idle", "observed", "preflight"}
      /\ job[p].pc \notin Calls /\ job[p].pc \notin {"idle", "observed", "preflight"}
  BY <1>3, NotIdle DEF Sending
<1>6. ASSUME NEW r \in Procs
      PROVE  JobOK(r)'
  <2>1. CASE r = p
    <3>1. task'[m] # Absent
      BY <1>2, <1>4 DEF Stored
    <3> QED
      BY <1>2, <1>3, <1>4, <1>5, <2>1, <3>1, NotIdle DEF JobOK, Stored
  <2>2. CASE r # p
    BY <1>1, <1>2, <2>2, JobStays DEF TypeInv
  <2> QED
    BY <2>1, <2>2
<1>7. TypeInv'
  BY <1>1, <1>2, <1>4, <1>6 DEF TypeInv, Stored
<1>8. TurnInv'
  BY <1>1, <1>2 DEF TurnInv, Stored, Running, Pending
<1>9. \A n \in Messages : n # m => (Sent(n)' <=> Sent(n))
  BY DEF Sent
<1>10. SendInv'
  <2>1. starts[m] \in Nat
    BY <1>1, <1>4 DEF TypeInv
  <2>2. ASSUME NEW n \in Messages
        PROVE  /\ starts'[n] + (IF n \in wire' THEN 1 ELSE 0) <= 1
               /\ Sent(n)' => Stored(n)'
               /\ Stored(n)' /\ task'[n].intent = "not_sent" => ~Sent(n)'
    <3>1. CASE n = m
      <4>1. starts[m] + (IF m \in wire THEN 1 ELSE 0) <= 1
        BY <1>1, <1>4 DEF SendInv
      <4>2. job[p].pc = "dispatch" => starts[m] = 0
        BY <1>4, <2>1 DEF Sent
      <4>3. starts'[m] + (IF m \in wire' THEN 1 ELSE 0) <= 1
        BY <2>1, <4>1, <4>2
      <4> QED
        BY <1>2, <1>4, <3>1, <4>3 DEF Stored
    <3>2. CASE n # m
      BY <1>1, <1>2, <1>9, <3>2 DEF SendInv, Stored
    <3> QED
      BY <3>1, <3>2
  <2>3. \A r \in Procs \ {p} : job'[r].pc \in Sending => job'[r] = job[r] /\ job'[r].id \in Messages /\ job'[r].id # m
    BY <1>1, <1>2, <1>4 DEF TypeInv, JobOK
  <2>4. ASSUME NEW r \in Procs, job'[r].pc \in Sending
        PROVE  /\ task'[job'[r].id].intent # "not_sent"
               /\ job'[r].pc \in {"start", "dispatch"} => ~Sent(job[r].id)'
               /\ job'[r].pc = "result" /\ job'[r].outcome = "not_sent" => ~Sent(job[r].id)'
    <3>1. CASE r = p
      <4>1. job'[r].id = m /\ job'[r].pc \in {"wait", "result"}
        BY <1>2, <3>1
      <4>2. job'[r].pc = "result" /\ job'[r].outcome = "not_sent" => m \notin wire' /\ starts'[m] = 0
        BY <1>2, <3>1
      <4> QED
        BY <1>2, <1>4, <4>1, <4>2 DEF Sent
    <3>2. CASE r # p
      <4> DEFINE k == job[r].id
      <4>1. job'[r] = job[r] /\ k \in Messages /\ k # m
        BY <2>3, <2>4, <3>2
      <4>2. /\ task[k].intent # "not_sent"
            /\ job'[r].pc \in {"start", "dispatch"} => ~Sent(k)
            /\ job'[r].pc = "result" /\ job'[r].outcome = "not_sent" => ~Sent(k)
        BY <1>1, <2>4, <4>1 DEF SendInv
      <4>3. Sent(job[r].id)' <=> Sent(k)
        BY <4>1 DEF Sent
      <4> QED
        BY <1>2, <4>1, <4>2, <4>3
    <3> QED
      BY <3>1, <3>2
  <2>5. \A r, q \in Procs :
          job'[r].pc \in Sending /\ job'[q].pc \in Sending /\ job'[r].id = job'[q].id => r = q
    BY <1>1, <1>2, <2>3 DEF SendInv
  <2>6. ASSUME NEW n \in Messages, Engaged(n)' PROVE Engaged(n)
    <3>1. CASE n = m
      BY <3>1 DEF Engaged
    <3>2. CASE n # m
      BY <1>2, <1>9, <2>6, <3>2 DEF Engaged
    <3> QED
      BY <3>1, <3>2
  <2>7. \A k, n \in Messages :
          /\ Engaged(k)' /\ Stored(k)' /\ UnresolvedSend(task'[k])
          /\ Engaged(n)' /\ Stored(n)' /\ UnresolvedSend(task'[n])
          => k = n
    BY <1>1, <1>2, <2>6 DEF SendInv, Stored
  <2> QED
    BY <2>2, <2>4, <2>5, <2>7 DEF SendInv
<1>11. \A r \in Procs : job'[r].pc = "observed" => job'[r] = job[r] /\ r # p
  BY <1>2, <1>5
<1>12. \A r \in Procs : (job'[r].pc # "idle" <=> job[r].pc # "idle")
         /\ (job[r].pc # "idle" => job'[r].id = job[r].id)
  BY <1>2, <1>5
<1>13. WatchInv'
  <2> SUFFICES ASSUME NEW r \in Procs, job'[r].pc = "observed", job'[r].why = "watch"
               PROVE  /\ job'[r].id \in Watches /\ task'[job'[r].id] = Absent /\ job'[r].fresh
                      /\ job'[r].snap # Unavailable /\ job'[r].snap.bind # None
                      /\ \A q \in Procs \ {r} : job'[q].pc # "idle" => job'[q].id # job'[r].id
    BY DEF WatchInv, Stored, Unavailable
  <2> QED
    BY <1>1, <1>2, <1>11, <1>12 DEF WatchInv, Stored
<1>14. RenewInv'
  <2>1. troubles \in Nat /\ troubles' \in Nat
    BY <1>1, NativeAssumption DEF TypeInv
  <2>2. \A u \in Ids : Stored(u) => task[u].renewals \in Nat
    BY <1>1 DEF TypeInv, WellFormed, RecordType
  <2>3. \A u \in Ids : Stored(u)' => task'[u].renewals <= troubles'
    BY <1>1, <1>2, <2>1, <2>2 DEF RenewInv, Stored
  <2>4. ASSUME NEW r \in Procs, job'[r].pc = "observed", job'[r].why = "renew", job'[r].fresh
        PROVE  task'[job'[r].id].renewals < troubles'
    <3>1. job'[r] = job[r] /\ task[job[r].id].renewals < troubles
      BY <1>1, <1>11, <2>4 DEF RenewInv
    <3>2. task[job[r].id].renewals \in Nat
      BY <1>1, <2>2, <2>4, <3>1 DEF TypeInv, JobOK
    <3> QED
      BY <1>2, <2>1, <3>1, <3>2
  <2> QED
    BY <2>3, <2>4 DEF RenewInv
<1>15. AskInv'
  <2>1. ASSUME NEW u \in Ids, Stored(u)'
        PROVE  Announced(task[u])'
    BY <1>1, <1>2, <2>1 DEF AskInv, Stored, Announced, Has, Running, Asked
  <2>2. ASSUME NEW r \in Procs, job'[r].pc = "observed"
        PROVE  /\ Seen(job[r].id, job[r].snap)'
               /\ job'[r].fresh /\ job'[r].why # "watch" => Fits(task[job[r].id], job[r].snap)'
    <3> DEFINE k == job[r].id
               s == job[r].snap
    <3>1. job'[r] = job[r] /\ Seen(k, s) /\ (job[r].fresh /\ job[r].why # "watch" => Fits(task[k], s))
      BY <1>1, <1>11, <2>2 DEF AskInv
    <3>2. Seen(job[r].id, job[r].snap)'
      BY <3>1 DEF Seen, Running, Unavailable
    <3>3. ASSUME Fits(task[k], s)
          PROVE  Fits(task[job[r].id], job[r].snap)'
      BY <1>2, <3>1, <3>3 DEF Fits, Unavailable, Has, Asked
    <3> QED
      BY <3>1, <3>2, <3>3
  <2> QED
    BY <2>1, <2>2 DEF AskInv
<1>16. OutboxInv'
  <2>1. \A r \in Procs : job'[r].pc \in Calls => job'[r] = job[r]
    BY <1>2, <1>5
  <2>2. ASSUME NEW r \in Procs, job'[r].pc \in Calls
        PROVE  CallOK(r)'
    <3>1. job'[r] = job[r] /\ CallOK(r)
      BY <1>1, <2>1, <2>2 DEF OutboxInv
    <3> QED
      BY <1>2, <3>1 DEF CallOK, Notice, InFlight
  <2>3. \A u \in Ids : Stored(u)' => BoxOK(u, task[u].box)'
    BY <1>1, <1>2 DEF OutboxInv, BoxOK, Stored
  <2>4. \A r, q \in Procs :
         job'[r].pc \in Calls /\ job'[q].pc \in Calls
           /\ job'[r].id = job'[q].id /\ job'[r].note = job'[q].note => r = q
    BY <1>1, <2>1 DEF OutboxInv
  <2>5. \A c \in exposed' : Stored(c[1])' /\ Has(task'[c[1]], c[2])
    BY <1>1, <1>2 DEF OutboxInv, Stored, Has
  <2> QED
    BY <1>1, <2>2, <2>3, <2>4, <2>5 DEF OutboxInv
<1>17. IInv'
  BY <1>7, <1>8, <1>10, <1>13, <1>14, <1>15, <1>16 DEF IInv
<1> QED
  BY <1>2, <1>17, SilentAdvances

\* A message is dispatched, or its request comes to an end.
LEMMA DispatchStep ==
  ASSUME IInv, NEW p \in Procs, Dispatch(p) \/ Response(p)
  PROVE  Advances
<1> PICK m : m = job[p].id
  OBVIOUS
<1>1. job[p].pc \in {"dispatch", "wait"} /\ job[p].pc \in Sending
      /\ UNCHANGED <<turn, latest, home, shown, starts, asking, heard, exposed>>
  BY DEF Dispatch, Response, At, Sending
<1>2. m \in Messages /\ m \in Ids /\ (job[p].pc = "dispatch" => ~Sent(m))
  BY <1>1, SendingFacts
<1>3. starts[m] \in Nat /\ starts[m] + (IF m \in wire THEN 1 ELSE 0) <= 1
  BY <1>2 DEF IInv, TypeInv, SendInv
<1>4. ASSUME NEW o \in {"receipt", "not_sent", "unknown"}, Goto(p, Result(m, o)),
             o = "not_sent" => m \notin wire' /\ starts[m] = 0,
             wire' \in {wire, wire \ {m}}, NEW c, Usual(c) \/ Trouble
      PROVE  Advances
  <2> DEFINE after == Result(m, o)
  <2>1. after.pc = "result" /\ after.id = m /\ after.outcome = o /\ Goto(p, after)
    BY <1>4 DEF Result
  <2>2. troubles' >= troubles /\ troubles' \in 0 .. MaxTroubles
    BY <1>4, TroubleFacts DEF IInv
  <2> HIDE DEF after
  <2> QED
    BY <1>1, <1>4, <2>1, <2>2, WireStep
<1>5. CASE Dispatch(p)
  <2>1. /\ job[p].pc = "dispatch"
        /\ \/ wire' = wire \cup {m} /\ Usual(TRUE) /\ Goto(p, [pc |-> "wait", id |-> m])
           \/ wire' = wire /\ Trouble /\ \E o \in {"not_sent", "unknown"} : Goto(p, Result(m, o))
    BY <1>5 DEF Dispatch, At
  <2>2. m \notin wire /\ starts[m] = 0
    BY <1>2, <1>3, <2>1 DEF Sent
  <2>3. CASE wire' = wire \cup {m} /\ Usual(TRUE) /\ Goto(p, [pc |-> "wait", id |-> m])
    <3> DEFINE after == [pc |-> "wait", id |-> m]
    <3>1. after.pc = "wait" /\ after.id = m /\ Goto(p, after)
      BY <2>3
    <3>2. troubles' >= troubles /\ troubles' \in 0 .. MaxTroubles
      BY <2>3, TroubleFacts DEF IInv
    <3> HIDE DEF after
    <3> QED
      BY <1>1, <2>1, <2>3, <3>1, <3>2, WireStep
  <2>4. CASE wire' = wire /\ Trouble /\ \E o \in {"not_sent", "unknown"} : Goto(p, Result(m, o))
    BY <1>4, <2>2, <2>4
  <2> QED
    BY <2>1, <2>3, <2>4
<1>6. CASE Response(p)
  <2>1. \/ wire' = wire /\ Usual(TRUE) /\ Goto(p, Result(m, "receipt"))
        \/ m \in wire /\ wire' = wire \ {m} /\ Trouble /\ Goto(p, Result(m, "not_sent"))
        \/ wire' = wire /\ Usual(home[m] = None) /\ Goto(p, Result(m, "unknown"))
    BY <1>6 DEF Response
  <2>2. m \in wire => starts[m] = 0
    BY <1>3
  <2>3. CASE wire' = wire /\ Usual(TRUE) /\ Goto(p, Result(m, "receipt"))
    BY <1>4, <2>3
  <2>4. CASE m \in wire /\ wire' = wire \ {m} /\ Trouble /\ Goto(p, Result(m, "not_sent"))
    <3>1. starts[m] = 0 /\ m \notin wire'
      BY <2>2, <2>4
    <3> QED
      BY <1>4, <2>4, <3>1
  <2>5. CASE wire' = wire /\ Usual(home[m] = None) /\ Goto(p, Result(m, "unknown"))
    BY <1>4, <2>5
  <2> QED
    BY <2>1, <2>3, <2>4, <2>5
<1> QED
  BY <1>5, <1>6

-----------------------------------------------------------------------------
(* ------------- the app-server, the user and the clock ---------------- *)

\* What the app-server and the user may do to what was observed: turns that
\* have begun stay begun, answers stay given, and what is asked is asked by the
\* turn that runs.
Onward ==
  /\ \A u \in Turns : turn[u] # "none" => turn'[u] # "none"
  /\ \A m \in Messages : starts[m] > 0 => starts'[m] > 0
  /\ \A q \in Questions :
       /\ asking[q] # "unasked" => asking'[q] # "unasked"
       /\ asking[q] = "done" => asking'[q] = "done"
  /\ Pending' # {} => Running \subseteq Running'

\* A step onward keeps what the records and the observations rest on.
LEMMA OnwardAsk ==
  ASSUME TypeInv, AskInv, Onward, UNCHANGED <<task, job>>
  PROVE  AskInv'
<1>1. ASSUME NEW q \in Questions, asking[q] # "unasked", asking'[q] = "open"
      PROVE  asking[q] = "open" /\ Running \subseteq Running'
  <2>1. q \in Pending'
    BY <1>1 DEF Pending
  <2> QED
    BY <1>1, <2>1 DEF Onward, TypeInv
<1>2. ASSUME NEW t \in Ids, Stored(t)'
      PROVE  Announced(task[t])'
  <2>1. Announced(task[t])
    BY <1>2 DEF AskInv, Stored
  <2> SUFFICES ASSUME NEW q \in Questions, Has(task[t], Asked(q))
               PROVE  /\ asking'[q] # "unasked"
                      /\ q \notin task[t].pending => asking'[q] = "done"
                      /\ asking'[q] = "open" => task[t].turn # None /\ task[t].turn \in Running'
    BY DEF Announced, Has, Asked
  <2>2. /\ asking[q] # "unasked" /\ (q \notin task[t].pending => asking[q] = "done")
        /\ asking[q] = "open" => task[t].turn # None /\ task[t].turn \in Running
    BY <2>1 DEF Announced
  <2> QED
    BY <1>1, <2>2 DEF Onward
<1>3. ASSUME NEW p \in Procs, job[p].pc = "observed"
      PROVE  /\ Seen(job[p].id, job[p].snap)'
             /\ job[p].fresh /\ job[p].why # "watch" => Fits(task[job[p].id], job[p].snap)'
  <2> DEFINE t == job[p].id
             s == job[p].snap
  <2>1. Seen(t, s) /\ (job[p].fresh /\ job[p].why # "watch" => Fits(task[t], s))
    BY <1>3 DEF AskInv
  <2>2. s \in Snaps
    BY <1>3 DEF TypeInv, JobOK, ObservedType
  <2>3. ASSUME s # Unavailable
        PROVE  /\ s.bind # None => turn'[s.bind] # "none" /\ (t \in Messages => starts'[t] > 0)
               /\ \A q \in s.pending :
                    asking'[q] # "unasked" /\ (asking'[q] = "open" => s.bind \in Running')
    <3>1. s.bind \in Turns \cup {None} /\ s.pending \subseteq Questions
      BY <2>2, <2>3 DEF Snaps
    <3>2. s.bind # None => turn'[s.bind] # "none" /\ (t \in Messages => starts'[t] > 0)
      BY <2>1, <2>3, <3>1 DEF Seen, Onward
    <3>3. ASSUME NEW q \in s.pending
          PROVE  asking'[q] # "unasked" /\ (asking'[q] = "open" => s.bind \in Running')
      <4>1. q \in Questions /\ asking[q] # "unasked" /\ (asking[q] = "open" => s.bind \in Running)
        BY <2>1, <2>3, <3>1 DEF Seen
      <4> QED
        BY <1>1, <4>1 DEF Onward
    <3> QED
      BY <3>2, <3>3
  <2>4. Seen(job[p].id, job[p].snap)'
    BY <2>3 DEF Seen, Unavailable
  <2>5. ASSUME Fits(task[t], s)
        PROVE  Fits(task[job[p].id], job[p].snap)'
    BY <2>5 DEF Fits, Unavailable, Has, Asked, Onward
  <2> QED
    BY <2>1, <2>4, <2>5
<1> QED
  BY <1>2, <1>3 DEF AskInv, Stored

\* A step of the app-server or the user keeps the invariant if it is a step
\* onward, sends nothing and leaves at most one turn running.
LEMMA NativeStep ==
  ASSUME IInv, Onward, UNCHANGED <<task, job, heard, exposed>>,
         troubles' >= troubles, troubles' \in 0 .. MaxTroubles,
         turn' \in [Turns -> {"none", "running", "ended"}],
         latest' \in Turns \cup {None}, home' \in [Messages -> Turns \cup {None}],
         wire' \subseteq Messages, shown' \subseteq Messages, starts' \in [Messages -> Nat],
         asking' \in [Questions -> {"unasked", "open", "done"}],
         latest' # None => turn'[latest'] # "none",
         \A m \in Messages : home'[m] # None => turn'[home'[m]] # "none" /\ starts'[m] > 0,
         \A m \in shown' : home'[m] # None,
         \A u, v \in Running' : u = v,
         Running' = {} => Pending' = {},
         \A m \in Messages :
           (Sent(m)' <=> Sent(m)) /\ starts'[m] + (IF m \in wire' THEN 1 ELSE 0) <= 1
  PROVE  Advances
<1>1. /\ TypeInv /\ TurnInv /\ SendInv /\ WatchInv /\ RenewInv /\ AskInv /\ OutboxInv
  BY DEF IInv
<1>2. TypeInv'
  <2>1. ASSUME NEW p \in Procs PROVE JobOK(p)'
    BY <1>1 DEF TypeInv, JobOK, Stored, Refused, Retryable
  <2> QED
    BY <1>1, <2>1 DEF TypeInv, Stored
<1>3. TurnInv'
  <2>1. ASSUME NEW t \in Ids, task'[t] # Absent, task'[t].turn # None
        PROVE  turn'[task'[t].turn] # "none" /\ (t \in Messages => starts'[t] > 0)
    <3>1. task[t].turn \in Turns /\ turn[task[t].turn] # "none" /\ (t \in Messages => starts[t] > 0)
      BY <1>1, <2>1 DEF TypeInv, TurnInv, Stored, WellFormed, RecordType
    <3> QED
      BY <3>1 DEF Onward
  <2> QED
    BY <2>1 DEF TurnInv, Stored
<1>4. SendInv'
  <2>1. \A m \in Messages : Engaged(m)' <=> Engaged(m)
    BY DEF Engaged
  <2>2. \A m \in Messages : (Sent(m)' => Stored(m)') /\ (Stored(m)' /\ task'[m].intent = "not_sent" => ~Sent(m)')
    BY <1>1 DEF SendInv, Stored
  <2>3. ASSUME NEW p \in Procs, job'[p].pc \in Sending
        PROVE  /\ task'[job'[p].id].intent # "not_sent"
               /\ job'[p].pc \in {"start", "dispatch"} => ~Sent(job[p].id)'
               /\ job'[p].pc = "result" /\ job'[p].outcome = "not_sent" => ~Sent(job[p].id)'
    <3>1. PICK m \in Messages : m = job[p].id
      BY <1>1, <2>3 DEF TypeInv, JobOK
    <3>2. /\ task[m].intent # "not_sent"
          /\ job[p].pc \in {"start", "dispatch"} => ~Sent(m)
          /\ job[p].pc = "result" /\ job[p].outcome = "not_sent" => ~Sent(m)
      BY <1>1, <2>3, <3>1 DEF SendInv
    <3>3. Sent(job[p].id)' <=> Sent(m)'
      BY <3>1 DEF Sent
    <3> QED
      BY <3>1, <3>2, <3>3
  <2> QED
    BY <1>1, <2>1, <2>2, <2>3 DEF SendInv, Stored
<1>5. WatchInv'
  BY <1>1 DEF WatchInv, Stored, Unavailable
<1>6. RenewInv'
  <2>1. troubles \in Nat /\ troubles' \in Nat
    BY <1>1, NativeAssumption DEF TypeInv
  <2>2. \A u \in Ids : Stored(u) => task[u].renewals \in Nat
    BY <1>1 DEF TypeInv, WellFormed, RecordType
  <2>3. ASSUME NEW p \in Procs, job[p].pc = "observed", job[p].why = "renew", job[p].fresh
        PROVE  task[job[p].id].renewals < troubles'
    <3>1. task[job[p].id].renewals \in Nat /\ task[job[p].id].renewals < troubles
      BY <1>1, <2>2, <2>3 DEF TypeInv, JobOK, RenewInv
    <3> QED
      BY <2>1, <3>1
  <2> QED
    BY <1>1, <2>1, <2>2, <2>3 DEF RenewInv, Stored
<1>7. AskInv'
  BY <1>1, OnwardAsk
<1>8. OutboxInv'
  <2>1. ASSUME NEW t \in Ids, Stored(t)
        PROVE  BoxOK(t, task[t].box)'
    BY <1>1, <2>1 DEF OutboxInv, BoxOK
  <2>2. ASSUME NEW p \in Procs, job[p].pc \in Calls
        PROVE  CallOK(p)'
    BY <1>1, <2>2 DEF OutboxInv, CallOK, Notice
  <2> QED
    BY <1>1, <2>1, <2>2 DEF OutboxInv, Stored, Has
<1>9. IInv'
  BY <1>2, <1>3, <1>4, <1>5, <1>6, <1>7, <1>8 DEF IInv
<1> QED
  BY <1>9, SilentAdvances

\* What is known of the turns and the submissions.
LEMMA NativeFacts ==
  ASSUME IInv
  PROVE  /\ turn \in [Turns -> {"none", "running", "ended"}]
         /\ latest \in Turns \cup {None} /\ home \in [Messages -> Turns \cup {None}]
         /\ wire \subseteq Messages /\ shown \subseteq Messages
         /\ starts \in [Messages -> Nat]
         /\ asking \in [Questions -> {"unasked", "open", "done"}]
         /\ latest # None => turn[latest] # "none"
         /\ \A m \in Messages : home[m] # None => turn[home[m]] # "none" /\ starts[m] > 0
         /\ \A m \in shown : home[m] # None
         /\ \A u, v \in Running : u = v
         /\ Running = {} => Pending = {}
         /\ \A m \in Messages : starts[m] + (IF m \in wire THEN 1 ELSE 0) <= 1
         /\ troubles \in 0 .. MaxTroubles /\ Running \subseteq Turns
         /\ troubles' = troubles \/ Trouble =>
              troubles' >= troubles /\ troubles' \in 0 .. MaxTroubles
  BY TroubleFacts DEF IInv, TypeInv, TurnInv, SendInv, Running

\* The app-server takes a message, which starts a turn or goes into one.
LEMMA TakeStep ==
  ASSUME IInv, NEW m \in Messages, Take(m)
  PROVE  Advances
<1>1. /\ m \in wire /\ wire' = wire \ {m} /\ starts' = [starts EXCEPT ![m] = @ + 1]
      /\ UNCHANGED <<task, job, shown, asking, heard, exposed, troubles>>
  BY DEF Take
<1>2. /\ starts[m] = 0 /\ starts' \in [Messages -> Nat] /\ starts'[m] = 1 /\ m \notin wire'
      /\ wire' \subseteq Messages
      /\ \A n \in Messages : n # m => starts'[n] = starts[n] /\ (n \in wire' <=> n \in wire)
  BY <1>1, NativeFacts
<1>3. \A n \in Messages :
        (Sent(n)' <=> Sent(n)) /\ starts'[n] + (IF n \in wire' THEN 1 ELSE 0) <= 1
  <2> TAKE n \in Messages
  <2>1. CASE n = m
    BY <1>1, <1>2, <2>1 DEF Sent
  <2>2. CASE n # m
    <3>1. starts[n] + (IF n \in wire THEN 1 ELSE 0) <= 1
      BY NativeFacts
    <3> QED
      BY <1>2, <2>2, <3>1 DEF Sent
  <2> QED
    BY <2>1, <2>2
<1>4. \A n \in Messages : starts[n] > 0 => starts'[n] > 0
  BY <1>2, NativeFacts
<1>5. m \in Turns /\ Pending' = Pending
  BY <1>1 DEF Turns, Pending
<1>6. troubles' >= troubles /\ troubles' \in 0 .. MaxTroubles
  BY <1>1, NativeFacts
<1>7. CASE Running = {}
  <2>1. /\ turn' = [turn EXCEPT ![m] = "running"] /\ latest' = m
        /\ home' = [home EXCEPT ![m] = m]
    BY <1>7 DEF Take
  <2>2. /\ turn' \in [Turns -> {"none", "running", "ended"}]
        /\ home' \in [Messages -> Turns \cup {None}] /\ latest' \in Turns \cup {None}
        /\ turn'[m] = "running" /\ home'[m] = m
        /\ \A u \in Turns : u # m => turn'[u] = turn[u]
        /\ \A n \in Messages : n # m => home'[n] = home[n]
    BY <1>5, <2>1, NativeFacts
  <2>3. Running' = {m}
    BY <1>5, <1>7, <2>2 DEF Running
  <2>4. Pending' = {}
    BY <1>5, <1>7, NativeFacts
  <2>5. Onward
    BY <1>1, <1>4, <2>2, <2>4 DEF Onward
  <2>6. latest' # None => turn'[latest'] # "none"
    BY <2>1, <2>2
  <2>7. \A n \in Messages : home'[n] # None => turn'[home'[n]] # "none" /\ starts'[n] > 0
    BY <1>2, <1>4, <1>5, <2>2, NativeFacts
  <2>8. \A n \in shown' : home'[n] # None
    BY <1>1, <1>5, <2>2, NativeFacts, NativeAssumption
  <2>9. \A u, v \in Running' : u = v
    BY <2>3
  <2>10. shown' \subseteq Messages /\ asking' \in [Questions -> {"unasked", "open", "done"}]
    BY <1>1, NativeFacts
  <2>11. UNCHANGED <<task, job, heard, exposed>> /\ (Running' = {} => Pending' = {})
    BY <1>1, <2>4
  <2> QED
    BY <1>2, <1>3, <1>6, <2>2, <2>5, <2>6, <2>7, <2>8, <2>9, <2>10, <2>11, NativeStep
<1>8. CASE Running # {}
  <2>1. PICK u \in Running : home' = [home EXCEPT ![m] = u] /\ UNCHANGED <<turn, latest>>
    BY <1>8 DEF Take
  <2>2. u \in Turns /\ turn[u] = "running"
    BY <2>1 DEF Running
  <2>3. home' \in [Messages -> Turns \cup {None}] /\ home'[m] = u
        /\ \A n \in Messages : n # m => home'[n] = home[n]
    BY <2>1, <2>2, NativeFacts
  <2>4. Running' = Running
    BY <2>1 DEF Running
  <2>5. Onward
    BY <1>1, <1>4, <2>1, <2>4 DEF Onward
  <2>6. \A n \in Messages : home'[n] # None => turn'[home'[n]] # "none" /\ starts'[n] > 0
    BY <1>2, <1>4, <2>1, <2>2, <2>3, NativeFacts
  <2>7. \A n \in shown' : home'[n] # None
    BY <1>1, <2>2, <2>3, NativeFacts, NativeAssumption
  <2>8. /\ latest' # None => turn'[latest'] # "none"
        /\ \A v, w \in Running' : v = w
        /\ Running' = {} => Pending' = {}
        /\ shown' \subseteq Messages /\ asking' \in [Questions -> {"unasked", "open", "done"}]
        /\ turn' \in [Turns -> {"none", "running", "ended"}] /\ latest' \in Turns \cup {None}
    BY <1>1, <1>5, <2>1, <2>4, NativeFacts
  <2> QED
    BY <1>1, <1>2, <1>3, <1>6, <2>3, <2>5, <2>6, <2>7, <2>8, NativeStep
<1> QED
  BY <1>7, <1>8

\* The history shows a message.
LEMMA MaterializeStep ==
  ASSUME IInv, NEW m \in Messages, Materialize(m)
  PROVE  Advances
<1>1. /\ home[m] # None /\ shown' = shown \cup {m}
      /\ UNCHANGED <<task, job, turn, latest, home, wire, starts, asking, heard, exposed, troubles>>
  BY DEF Materialize
<1>2. Running' = Running /\ Pending' = Pending
  BY <1>1 DEF Running, Pending
<1>3. Onward
  BY <1>1, <1>2 DEF Onward
<1>4. \A n \in Messages :
        (Sent(n)' <=> Sent(n)) /\ starts'[n] + (IF n \in wire' THEN 1 ELSE 0) <= 1
  BY <1>1, NativeFacts DEF Sent
<1>5. shown' \subseteq Messages /\ \A n \in shown' : home'[n] # None
  BY <1>1, NativeFacts
<1> QED
  BY <1>1, <1>2, <1>3, <1>4, <1>5, NativeFacts, NativeStep

\* The user starts a turn.
LEMMA UserSendsStep ==
  ASSUME IInv, NEW u \in UserTurns, UserSends(u)
  PROVE  Advances
<1>1. /\ Running = {} /\ turn' = [turn EXCEPT ![u] = "running"] /\ latest' = u /\ Trouble
      /\ UNCHANGED <<task, job, home, shown, wire, starts, asking, heard, exposed>>
  BY DEF UserSends
<1>2. /\ u \in Turns /\ turn' \in [Turns -> {"none", "running", "ended"}] /\ turn'[u] = "running"
      /\ \A v \in Turns : v # u => turn'[v] = turn[v]
  BY <1>1, NativeFacts DEF Turns
<1>3. Running' = {u} /\ Pending' = {}
  BY <1>1, <1>2, NativeFacts DEF Running, Pending
<1>4. Onward
  BY <1>1, <1>2, <1>3 DEF Onward
<1>5. \A n \in Messages :
        (Sent(n)' <=> Sent(n)) /\ starts'[n] + (IF n \in wire' THEN 1 ELSE 0) <= 1
  BY <1>1, NativeFacts DEF Sent
<1>6. \A n \in Messages : home'[n] # None => turn'[home'[n]] # "none" /\ starts'[n] > 0
  BY <1>1, <1>2, NativeFacts
<1>7. latest' \in Turns \cup {None} /\ (latest' # None => turn'[latest'] # "none")
  BY <1>1, <1>2
<1>8. \A v, w \in Running' : v = w
  BY <1>3
<1>9. troubles' >= troubles /\ troubles' \in 0 .. MaxTroubles
  BY <1>1, NativeFacts
<1> QED
  BY <1>1, <1>2, <1>3, <1>4, <1>5, <1>6, <1>7, <1>8, <1>9, NativeFacts, NativeStep

\* The running turn ends, and with it what it has asked.
LEMMA TurnEndsStep ==
  ASSUME IInv, TurnEnds
  PROVE  Advances
<1>1. /\ turn' = [u \in Turns |-> IF turn[u] = "running" THEN "ended" ELSE turn[u]]
      /\ asking' = [q \in Questions |-> IF asking[q] = "open" THEN "done" ELSE asking[q]]
      /\ UNCHANGED <<task, job, latest, home, shown, wire, starts, heard, exposed, troubles>>
  BY DEF TurnEnds
<1>2. /\ turn' \in [Turns -> {"none", "running", "ended"}]
      /\ asking' \in [Questions -> {"unasked", "open", "done"}]
      /\ \A u \in Turns : turn'[u] # "running" /\ (turn[u] # "none" => turn'[u] # "none")
      /\ \A q \in Questions : /\ asking'[q] # "open"
                              /\ asking[q] # "unasked" => asking'[q] # "unasked"
                              /\ asking[q] = "done" => asking'[q] = "done"
  BY <1>1, NativeFacts
<1>3. Running' = {} /\ Pending' = {}
  BY <1>2 DEF Running, Pending
<1>4. Onward
  BY <1>1, <1>2, <1>3 DEF Onward
<1>5. \A n \in Messages :
        (Sent(n)' <=> Sent(n)) /\ starts'[n] + (IF n \in wire' THEN 1 ELSE 0) <= 1
  BY <1>1, NativeFacts DEF Sent
<1>6. \A n \in Messages : home'[n] # None => turn'[home'[n]] # "none" /\ starts'[n] > 0
  BY <1>1, <1>2, NativeFacts
<1>7. latest' \in Turns \cup {None} /\ (latest' # None => turn'[latest'] # "none")
  BY <1>1, <1>2, NativeFacts
<1>8. \A v, w \in Running' : v = w
  BY <1>3
<1> QED
  BY <1>1, <1>2, <1>3, <1>4, <1>5, <1>6, <1>7, <1>8, NativeFacts, NativeStep

\* The running turn asks, or is answered.
LEMMA QuestionStep ==
  ASSUME IInv, NEW q \in Questions, Ask(q) \/ Answer(q)
  PROVE  Advances
<1>1. UNCHANGED <<task, job, turn, latest, home, shown, wire, starts, heard, exposed>>
  BY DEF Ask, Answer
<1>2. /\ asking' \in [Questions -> {"unasked", "open", "done"}]
      /\ \A k \in Questions : /\ asking[k] # "unasked" => asking'[k] # "unasked"
                              /\ asking[k] = "done" => asking'[k] = "done"
  BY NativeFacts DEF Ask, Answer
<1>3. Running' = Running
  BY <1>1 DEF Running
<1>4. Running' = {} => Pending' = {}
  <2>1. CASE Ask(q)
    BY <1>3, <2>1 DEF Ask
  <2>2. CASE Answer(q)
    BY <1>3, <2>2, NativeFacts DEF Answer, Pending
  <2> QED
    BY <2>1, <2>2
<1>5. Onward
  BY <1>1, <1>2, <1>3 DEF Onward
<1>6. \A n \in Messages :
        (Sent(n)' <=> Sent(n)) /\ starts'[n] + (IF n \in wire' THEN 1 ELSE 0) <= 1
  BY <1>1, NativeFacts DEF Sent
<1>7. troubles' >= troubles /\ troubles' \in 0 .. MaxTroubles
  <2>1. troubles' = troubles \/ Trouble
    BY DEF Ask, Answer
  <2> QED
    BY <2>1, NativeFacts
<1> QED
  BY <1>1, <1>2, <1>3, <1>4, <1>5, <1>6, <1>7, NativeFacts, NativeStep

\* A record of which nobody tells another process: only its clock moves on.
LEMMA ClockStep ==
  ASSUME IInv, NEW t \in Ids, Stored(t), NEW y, WellFormed(t, y), Passed(task[t].box, y.box),
         y.turn = task[t].turn, y.pending = task[t].pending, y.renewals = task[t].renewals,
         y.intent = task[t].intent, y.closed = task[t].closed,
         DOMAIN y.box = DOMAIN task[t].box,
         \A i \in DOMAIN y.box : Retryable(task[t].box[i]) => y.box[i] = task[t].box[i],
         task' = [task EXCEPT ![t] = y], UNCHANGED job, UNCHANGED native,
         UNCHANGED <<heard, exposed>>, troubles' >= troubles, troubles' \in 0 .. MaxTroubles
  PROVE  Advances
<1> DEFINE x == task[t]
<1>1. /\ TypeInv /\ TurnInv /\ SendInv /\ WatchInv /\ RenewInv /\ AskInv /\ OutboxInv
  BY DEF IInv
<1>2. /\ DOMAIN task' = Ids /\ task'[t] = y /\ \A u \in Ids \ {t} : task'[u] = task[u]
      /\ UNCHANGED <<turn, latest, home, shown, wire, starts, asking>>
  BY <1>1 DEF TypeInv, native
<1>3. y # Absent
  BY NotAbsent
<1>4. /\ Keyed(x.box, y.box) /\ \A key : Has(y, key) <=> Has(x, key)
      /\ \A key : Refused(x, key) => Refused(y, key)
  BY DEF Keyed, Passed, Passive, Has, Refused
<1>5. \A u \in Ids :
        /\ Stored(u)' <=> Stored(u)
        /\ \A key : Has(task'[u], key) <=> Has(task[u], key)
        /\ \A key : Refused(task[u], key) => Refused(task'[u], key)
        /\ Stored(u) => /\ task'[u].turn = task[u].turn /\ task'[u].pending = task[u].pending
                        /\ task'[u].renewals = task[u].renewals
                        /\ task'[u].intent = task[u].intent /\ task'[u].closed = task[u].closed
                        /\ DOMAIN task'[u].box = DOMAIN task[u].box
                        /\ Passed(task[u].box, task'[u].box)
  <2> TAKE u \in Ids
  <2>1. CASE u = t
    BY <1>2, <1>3, <1>4, <2>1 DEF Stored
  <2>2. CASE u # t
    BY <1>2, <2>2 DEF Stored, Passed, Passive
  <2> QED
    BY <2>1, <2>2
<1>6. \A p \in Procs : job[p].pc # "idle" => job[p].id \in Ids
  BY <1>1 DEF TypeInv, JobOK
<1>7. TypeInv'
  <2>1. ASSUME NEW p \in Procs PROVE JobOK(p)'
    <3>1. JobOK(p)
      BY <1>1 DEF TypeInv
    <3>2. job[p].pc = "observed" /\ job[p].why = "retry" /\ job[p].fresh =>
            Refused(task'[job[p].id], job[p].only)
      BY <1>5, <1>6, <3>1 DEF JobOK
    <3>3. job[p].pc \in Calls => job[p].note \in DOMAIN task'[job[p].id].box
      BY <1>5, <1>6, <3>1, NotIdle DEF JobOK
    <3>4. job[p].pc \notin {"idle", "preflight"} /\ ~(job[p].pc = "observed" /\ job[p].why = "watch")
            => task'[job[p].id] # Absent
      BY <1>5, <1>6, <3>1 DEF JobOK, Stored
    <3> QED
      BY <3>1, <3>2, <3>3, <3>4 DEF JobOK, Stored
  <2>2. \A u \in Ids : Stored(u)' => WellFormed(u, task'[u])
    BY <1>1, <1>2 DEF TypeInv, Stored
  <2> QED
    BY <1>1, <1>2, <2>1, <2>2 DEF TypeInv
<1>8. TurnInv'
  <2>1. \A u \in Ids : task'[u] # Absent /\ task'[u].turn # None =>
          turn[task'[u].turn] # "none" /\ (u \in Messages => starts[u] > 0)
    BY <1>1, <1>5 DEF TurnInv, Stored
  <2> QED
    BY <1>1, <1>2, <2>1 DEF TurnInv, Stored, Running, Pending
<1>9. SendInv'
  <2>1. \A m \in Messages : (Engaged(m)' <=> Engaged(m)) /\ (Sent(m)' <=> Sent(m)) /\ m \in Ids
    BY <1>2 DEF Engaged, Sent, Ids
  <2>2. \A m \in Messages : task'[m] # Absent /\ UnresolvedSend(task'[m]) =>
          Stored(m) /\ UnresolvedSend(task[m])
    BY <1>5, <2>1 DEF Stored, UnresolvedSend
  <2>3. \A m \in Messages :
          /\ starts'[m] + (IF m \in wire' THEN 1 ELSE 0) <= 1
          /\ Sent(m)' => task'[m] # Absent
          /\ task'[m] # Absent /\ task'[m].intent = "not_sent" => ~Sent(m)'
    BY <1>1, <1>2, <1>5, <2>1 DEF SendInv, Stored
  <2>4. ASSUME NEW p \in Procs, job'[p].pc \in Sending
        PROVE  /\ task'[job'[p].id].intent # "not_sent"
               /\ job'[p].pc \in {"start", "dispatch"} => ~Sent(job[p].id)'
               /\ job'[p].pc = "result" /\ job'[p].outcome = "not_sent" => ~Sent(job[p].id)'
    <3>1. PICK m : m = job[p].id
      OBVIOUS
    <3>2. m \in Messages /\ m \in Ids /\ Stored(m)
      BY <1>1, <2>4, <3>1, NotIdle DEF TypeInv, JobOK, Sending, Ids
    <3>3. /\ task[m].intent # "not_sent"
          /\ job[p].pc \in {"start", "dispatch"} => ~Sent(m)
          /\ job[p].pc = "result" /\ job[p].outcome = "not_sent" => ~Sent(m)
      BY <1>1, <2>4, <3>1 DEF SendInv
    <3>4. Sent(job[p].id)' <=> Sent(m)
      BY <1>2, <3>1 DEF Sent
    <3> QED
      BY <1>5, <3>1, <3>2, <3>3, <3>4
  <2> QED
    BY <1>1, <2>1, <2>2, <2>3, <2>4 DEF SendInv, Stored
<1>10. WatchInv'
  <2>1. \A p \in Procs : job[p].pc = "observed" => (task'[job[p].id] = Absent <=> task[job[p].id] = Absent)
    BY <1>5, <1>6 DEF Stored
  <2> QED
    BY <1>1, <2>1 DEF WatchInv, Stored, Unavailable
<1>11. RenewInv'
  <2>1. troubles \in Nat /\ troubles' \in Nat
    BY <1>1, NativeAssumption DEF TypeInv
  <2>2. \A u \in Ids : Stored(u) => task[u].renewals \in Nat
    BY <1>1 DEF TypeInv, WellFormed, RecordType
  <2>3. \A u \in Ids : Stored(u)' => task'[u].renewals <= troubles'
    BY <1>1, <1>5, <2>1, <2>2 DEF RenewInv
  <2>4. ASSUME NEW p \in Procs, job[p].pc = "observed", job[p].why = "renew", job[p].fresh
        PROVE  task'[job[p].id].renewals < troubles'
    <3>1. job[p].id \in Ids /\ Stored(job[p].id) /\ task[job[p].id].renewals < troubles
      BY <1>1, <2>4 DEF TypeInv, JobOK, RenewInv
    <3> QED
      BY <1>5, <2>1, <2>2, <3>1
  <2> QED
    BY <2>3, <2>4 DEF RenewInv
<1>12. AskInv'
  <2>1. ASSUME NEW u \in Ids, Stored(u)'
        PROVE  Announced(task[u])'
    <3>1. Announced(task[u]) /\ Stored(u)
      BY <1>1, <1>5, <2>1 DEF AskInv
    <3>2. \A q \in Questions : Has(task'[u], Asked(q)) =>
            /\ asking[q] # "unasked"
            /\ q \notin task'[u].pending => asking[q] = "done"
            /\ asking[q] = "open" => task'[u].turn # None /\ task'[u].turn \in Running
      BY <1>5, <3>1 DEF Announced
    <3> QED
      BY <1>2, <3>2 DEF Announced, Running, Has, Asked
  <2>2. ASSUME NEW p \in Procs, job[p].pc = "observed"
        PROVE  /\ Seen(job[p].id, job[p].snap)'
               /\ job[p].fresh /\ job[p].why # "watch" => Fits(task[job[p].id], job[p].snap)'
    <3> DEFINE k == job[p].id
               s == job[p].snap
    <3>1. Seen(k, s) /\ (job[p].fresh /\ job[p].why # "watch" => Stored(k) /\ Fits(task[k], s))
          /\ k \in Ids
      BY <1>1, <1>6, <2>2 DEF AskInv, TypeInv, JobOK
    <3>2. Seen(job[p].id, job[p].snap)'
      BY <1>2, <3>1 DEF Seen, Running, Unavailable
    <3>3. ASSUME Fits(task[k], s), Stored(k)
          PROVE  Fits(task[job[p].id], job[p].snap)'
      <4>1. s # Unavailable =>
              /\ task'[k].turn # None => s.bind = task'[k].turn
              /\ \A q \in Questions : Has(task'[k], Asked(q)) =>
                   IF q \in s.pending THEN q \in task'[k].pending ELSE asking[q] = "done"
        BY <1>5, <3>1, <3>3 DEF Fits
      <4> QED
        BY <1>2, <4>1 DEF Fits, Unavailable, Has, Asked
    <3> QED
      BY <3>1, <3>2, <3>3
  <2> QED
    BY <2>1, <2>2 DEF AskInv
<1>13. OutboxInv'
  <2>1. ASSUME NEW u \in Ids, Stored(u)'
        PROVE  BoxOK(u, task[u].box)'
    <3> DEFINE box == task[u].box
               later == task'[u].box
    <3>1. BoxOK(u, box) /\ Passed(box, later) /\ DOMAIN later = DOMAIN box
      BY <1>1, <1>5, <2>1 DEF OutboxInv
    <3> HIDE DEF box, later
    <3>2. \A i \in DOMAIN later :
            /\ Unexposed(later[i]) => <<u, later[i].key>> \notin exposed
            /\ later[i].status = "accepted" => heard[<<u, later[i].key>>] = 1
      BY <3>1 DEF BoxOK, Passed, Passive
    <3> QED
      BY <3>2 DEF BoxOK, later
  <2>2. ASSUME NEW c \in exposed'
        PROVE  Stored(c[1])' /\ Has(task'[c[1]], c[2])
    BY <1>1, <1>5, <2>2 DEF OutboxInv, TypeInv, Notices
  <2>3. ASSUME NEW p \in Procs, job[p].pc \in Calls
        PROVE  CallOK(p)'
    <3> DEFINE j == job[p]
               n == task[j.id].box[j.note]
               o == task'[j.id].box[j.note]
    <3>1. CallOK(p) /\ j.id \in Ids /\ Stored(j.id) /\ j.note \in DOMAIN task[j.id].box
      BY <1>1, <1>6, <2>3, NotIdle DEF OutboxInv, TypeInv, JobOK
    <3>2. Passive(n, o)
      BY <1>5, <3>1 DEF Passed
    <3>3. Notice(p)' = <<j.id, o.key>> /\ Notice(p) = <<j.id, n.key>>
      BY DEF Notice
    <3>4. /\ n.attempts = j.attempt
          /\ IF j.pc = "reported" THEN n.status = "accepted" ELSE InFlight(n)
          /\ j.pc = "claimed" => Notice(p) \notin exposed
          /\ j.pc = "calling" => Notice(p) \in exposed /\ heard[Notice(p)] = 0
          /\ j.pc \in {"reached", "reported"} => heard[Notice(p)] = 1
      BY <3>1 DEF CallOK
    <3>5. Notice(p)' = Notice(p) /\ o.attempts = n.attempts
          /\ (o.status = "accepted" <=> n.status = "accepted") /\ (InFlight(n) => InFlight(o))
      BY <3>2, <3>3 DEF Passive
    <3>6. /\ o.attempts = j.attempt
          /\ IF j.pc = "reported" THEN o.status = "accepted" ELSE InFlight(o)
          /\ j.pc = "claimed" => Notice(p)' \notin exposed
          /\ j.pc = "calling" => Notice(p)' \in exposed /\ heard[Notice(p)'] = 0
          /\ j.pc \in {"reached", "reported"} => heard[Notice(p)'] = 1
      BY <3>4, <3>5
    <3>7. task'[job'[p].id].box[job'[p].note] = o /\ job'[p] = j
      OBVIOUS
    <3> HIDE DEF o, n, j
    <3> QED
      BY <3>6, <3>7 DEF CallOK, InFlight
  <2> QED
    BY <1>1, <2>1, <2>2, <2>3 DEF OutboxInv
<1>14. IInv'
  BY <1>7, <1>8, <1>9, <1>10, <1>11, <1>12, <1>13 DEF IInv
<1> QED
  BY <1>2, <1>3, <1>14, PassedNoted, SaveAdvances

\* The deadline of a task passes.
LEMMA DeadlineStep ==
  ASSUME IInv, NEW t \in Ids, Deadline(t)
  PROVE  Advances
<1> DEFINE x == task[t]
           flag == TRUE
           y == [x EXCEPT !.due = flag]
<1>1. /\ Stored(t) /\ Trouble /\ UNCHANGED <<job, native, heard, exposed>>
      /\ task' = [task EXCEPT ![t].due = TRUE]
  BY DEF Deadline
<1>2. WellFormed(t, x) /\ x \in RecordType /\ flag \in BOOLEAN
  BY <1>1 DEF IInv, TypeInv, WellFormed
<1>3. task' = [task EXCEPT ![t] = y]
  BY <1>1
<1> HIDE DEF flag
<1>4. /\ y \in RecordType /\ y.turn = x.turn /\ y.pending = x.pending /\ y.renewals = x.renewals
      /\ y.intent = x.intent /\ y.closed = x.closed /\ y.box = x.box /\ y.status = x.status
  BY <1>2 DEF RecordType
<1> HIDE DEF y
<1>5. WellFormed(t, y) /\ Passed(x.box, y.box)
  BY <1>2, <1>4 DEF WellFormed, Passed, Passive
<1>6. troubles' >= troubles /\ troubles' \in 0 .. MaxTroubles
  BY <1>1, NativeFacts
<1> QED
  BY <1>1, <1>3, <1>4, <1>5, <1>6, ClockStep

\* The lease of an attempt runs out.
LEMMA LapseStep ==
  ASSUME IInv, NEW t \in Ids, Lapse(t)
  PROVE  Advances
<1> DEFINE x == task[t]
<1>1. PICK i \in DOMAIN x.box :
        /\ x.box[i].status = "leased" /\ task' = [task EXCEPT ![t].box[i].lapsed = TRUE]
        /\ Trouble \/ troubles' = troubles
  BY DEF Lapse
<1>2. Stored(t) /\ UNCHANGED <<job, native, heard, exposed>>
  BY DEF Lapse
<1>3. WellFormed(t, x) /\ x.box[i] \in Notes /\ x.box[i].attempts <= Budget(x.box[i])
  BY <1>2 DEF IInv, TypeInv, WellFormed, RecordType, Orderly
<1> DEFINE n == [x.box[i] EXCEPT !.lapsed = TRUE]
           y == [x EXCEPT !.box[i] = n]
<1>4. task' = [task EXCEPT ![t] = y]
  BY <1>1
<1>5. n \in Notes /\ Passive(x.box[i], n) /\ n.key = x.box[i].key /\ n.attempts <= Budget(n)
  BY <1>1, <1>3, LapseFacts
<1> HIDE DEF n
<1>6. /\ WellFormed(t, y) /\ OnlyBox(x, y) /\ DOMAIN y.box = DOMAIN x.box
      /\ y.box[i] = n /\ \A k \in DOMAIN x.box \ {i} : y.box[k] = x.box[k]
  BY <1>3, <1>5, CellFacts
<1> HIDE DEF y
<1>7. Passed(x.box, y.box)
  BY <1>5, <1>6 DEF Passed, Passive
<1>8. \A k \in DOMAIN y.box : Retryable(x.box[k]) => y.box[k] = x.box[k]
  BY <1>1, <1>6 DEF Retryable
<1>9. troubles' >= troubles /\ troubles' \in 0 .. MaxTroubles
  BY <1>1, NativeFacts
<1>10. /\ y.turn = x.turn /\ y.pending = x.pending /\ y.renewals = x.renewals
       /\ y.intent = x.intent /\ y.closed = x.closed
  BY <1>6 DEF OnlyBox
<1> QED
  BY <1>2, <1>4, <1>6, <1>7, <1>8, <1>9, <1>10, ClockStep

-----------------------------------------------------------------------------
(* ----------------------------- the theorems -------------------------- *)

\* Nothing is stored at first.
LEMMA InitHolds ==
  ASSUME Init
  PROVE  IInv
<1>1. /\ \A t \in Ids : ~Stored(t)
      /\ \A p \in Procs : job[p].pc = "idle"
  BY DEF Init, Stored, Idle
<1>2. TypeInv
  <2>1. \A p \in Procs : JobOK(p)
    BY <1>1, NotIdle DEF JobOK
  <2> QED
    BY <1>1, <2>1, NativeAssumption DEF Init, TypeInv
<1>3. TurnInv
  <2>1. Running = {} /\ Pending = {}
    BY DEF Init, Running, Pending
  <2> QED
    BY <1>1, <2>1 DEF Init, TurnInv
<1>4. SendInv
  <2>1. \A m \in Messages : ~Sent(m) /\ ~Stored(m) /\ m \in Ids
    BY <1>1 DEF Init, Sent, Ids
  <2>2. \A m \in Messages : starts[m] + (IF m \in wire THEN 1 ELSE 0) <= 1
    BY DEF Init
  <2> QED
    BY <1>1, <2>1, <2>2, NotIdle DEF SendInv
<1>5. WatchInv /\ RenewInv /\ AskInv
  BY <1>1 DEF WatchInv, RenewInv, AskInv
<1>6. OutboxInv
  <2>1. \A c \in Notices : heard[c] = 0
    BY DEF Init
  <2>2. exposed = {}
    BY DEF Init
  <2> QED
    BY <1>1, <2>1, <2>2, NotIdle DEF OutboxInv
<1> QED
  BY <1>2, <1>3, <1>4, <1>5, <1>6 DEF IInv

\* A process that is under way takes its next step.
LEMMA ProceedStep ==
  ASSUME IInv, NEW p \in Procs, Proceed(p)
  PROVE  Advances
<1>1. CASE Reserve(p)
  BY <1>1, ReserveStep
<1>2. CASE CommitDispatch(p)
  BY <1>2, CommitDispatchStep
<1>3. CASE Dispatch(p) \/ Response(p)
  BY <1>3, DispatchStep
<1>4. CASE RecordResult(p)
  BY <1>4, RecordResultStep
<1>5. CASE Settle(p) \/ Reconcile(p)
  BY <1>5, SettleStep
<1>6. CASE ApplyReconcile(p)
  BY <1>6, ApplyReconcileStep
<1>7. CASE ApplyAcceptance(p)
  BY <1>7, ApplyAcceptanceStep
<1>8. CASE ApplyWatch(p)
  BY <1>8, ApplyWatchStep
<1>9. CASE ApplyRecover(p)
  BY <1>9, ApplyRecoverStep
<1>10. CASE ApplyRenew(p)
  BY <1>10, ApplyRenewStep
<1>11. CASE ApplyRetry(p)
  BY <1>11, ApplyRetryStep
<1>12. CASE \E why \in {"recover", "renew"} : Refuse(p, why)
  BY <1>12, RefuseStep
<1>13. CASE Claim(p)
  BY <1>13, ClaimStep
<1>14. CASE Call(p) \/ Reach(p)
  BY <1>14, CallStep
<1>15. CASE Checkpoint(p) \/ Return(p) \/ NotReached(p) \/ Fail(p)
  BY <1>15, OutcomesStep
<1> QED
  BY <1>1, <1>2, <1>3, <1>4, <1>5, <1>6, <1>7, <1>8, <1>9, <1>10, <1>11, <1>12, <1>13, <1>14,
     <1>15 DEF Proceed

\* A command of the controller.
LEMMA CommandStep ==
  ASSUME IInv, NEW p \in Procs, Command(p)
  PROVE  Advances
<1>1. ASSUME NEW m \in Messages, Send(p, m)
      PROVE  Advances
  BY <1>1, SendStep
<1>2. ASSUME NEW m \in Messages, Close(p, m)
      PROVE  Advances
  BY <1>2, StopStep DEF Ids
<1>3. ASSUME NEW w \in Watches, Watch(p, w)
      PROVE  Advances
  BY <1>3, WatchStep
<1>4. ASSUME NEW t \in Ids, Unwatch(p, t)
      PROVE  Advances
  BY <1>4, StopStep
<1>5. ASSUME NEW t \in Ids, NEW why, Order(p, t, why)
      PROVE  Advances
  BY <1>5, OrderStep
<1>6. ASSUME NEW t \in Ids, NEW i, RetryCallback(p, t, i)
      PROVE  Advances
  BY <1>6, RetryCallbackStep
<1> QED
  BY <1>1, <1>2, <1>3, <1>4, <1>5, <1>6 DEF Command

\* The app-server, the user or the clock.
LEMMA EnvironmentStep ==
  ASSUME IInv, Environment
  PROVE  Advances
<1>1. ASSUME NEW m \in Messages, Take(m) \/ Materialize(m)
      PROVE  Advances
  BY <1>1, TakeStep, MaterializeStep
<1>2. ASSUME NEW u \in UserTurns, UserSends(u)
      PROVE  Advances
  BY <1>2, UserSendsStep
<1>3. CASE TurnEnds
  BY <1>3, TurnEndsStep
<1>4. ASSUME NEW q \in Questions, Ask(q) \/ Answer(q)
      PROVE  Advances
  BY <1>4, QuestionStep
<1>5. ASSUME NEW t \in Ids, Deadline(t) \/ Lapse(t)
      PROVE  Advances
  BY <1>5, DeadlineStep, LapseStep
<1> QED
  BY <1>1, <1>2, <1>3, <1>4, <1>5 DEF Environment

\* Nothing happens.
LEMMA StutterStep ==
  ASSUME IInv, UNCHANGED vars
  PROVE  Advances
<1>1. /\ TypeInv /\ TurnInv /\ SendInv /\ WatchInv /\ RenewInv /\ AskInv /\ OutboxInv
      /\ troubles' = troubles
  BY DEF IInv, vars
<1>2. Onward /\ Running' = Running /\ Pending' = Pending
  BY DEF vars, Onward, Running, Pending
<1>3. \A m \in Messages :
        (Sent(m)' <=> Sent(m)) /\ starts'[m] + (IF m \in wire' THEN 1 ELSE 0) <= 1
  BY NativeFacts DEF vars, Sent
<1> QED
  BY <1>1, <1>2, <1>3, NativeFacts, NativeStep DEF vars

\* Every step advances.
LEMMA NextStep ==
  ASSUME IInv, [Next]_vars
  PROVE  Advances
<1>1. ASSUME NEW p \in Procs, Proceed(p) \/ Command(p)
      PROVE  Advances
  BY <1>1, ProceedStep, CommandStep
<1>2. ASSUME NEW p \in Procs, Crash(p)
      PROVE  Advances
  BY <1>2, RefuseStep
<1>3. ASSUME NEW p \in Procs, NEW t \in Ids, Monitor(p, t)
      PROVE  Advances
  BY <1>3, MonitorStep
<1> QED
  BY <1>1, <1>2, <1>3, EnvironmentStep, StutterStep DEF Next

\* The inductive invariant: it holds of what the processes know, of what the
\* app-server has and of what the records say, at every step.
THEOREM Invariance == Spec => []IInv
<1>1. Init => IInv
  BY InitHolds
<1>2. IInv /\ [Next]_vars => IInv'
  BY NextStep DEF Advances
<1> QED
  BY <1>1, <1>2, PTL DEF Spec

\* Every stored record is one the repository accepts, whatever interleaving of
\* commands, monitors, deaths and late answers wrote it.
THEOREM Typing == Spec => []TypeOK
<1>1. IInv => TypeOK
  <2> SUFFICES ASSUME IInv PROVE TypeOK
    OBVIOUS
  <2>1. ASSUME NEW t \in Ids, Stored(t)
        PROVE  LET x == task[t]
               IN /\ x.status \in Statuses
                  /\ x.intent \in {"none", "reserved", "uncertain", "accepted", "not_sent"}
                  /\ (x.intent = "none") = (t \in Watches)
                  /\ x.turn \in Turns \cup {None}
                  /\ x.status \in {"watching", "completed"} => x.turn # None
                  /\ t \in Messages => (x.intent = "accepted") = (x.turn # None)
                  /\ x.closed => t \in Messages
                  /\ x.pending \subseteq Questions
                  /\ x.renewals \in 0 .. MaxTroubles
                  /\ \A i \in DOMAIN x.box :
                       x.box[i] \in Notes /\ x.box[i].attempts <= Budget(x.box[i])
                  /\ \A i, j \in DOMAIN x.box : x.box[i].key = x.box[j].key => i = j
    <3> DEFINE x == task[t]
    <3>1. WellFormed(t, x)
      BY <2>1 DEF IInv, TypeInv
    <3> HIDE DEF x
    <3>2. /\ x.status \in Statuses /\ x.intent \in Intents /\ x.turn \in Turns \cup {None}
          /\ x.pending \subseteq Questions /\ x.renewals \in 0 .. MaxTroubles
          /\ x.box \in Seq(Notes) /\ Orderly(x.box)
      BY <3>1 DEF WellFormed, RecordType
    <3>3. /\ (x.intent = "none") = (t \in Watches)
          /\ t \in Messages => (x.intent = "accepted") = (x.turn # None)
          /\ x.status \in {"watching", "completed"} => x.turn # None
          /\ x.closed => t \in Messages
      BY <3>1 DEF WellFormed
    <3> QED
      BY <3>2, <3>3 DEF Orderly, Intents, x
  <2> QED
    BY <2>1 DEF IInv, TypeInv, TypeOK
<1> QED
  BY <1>1, Invariance, PTL

\* A message reaches the app-server at most once, and at most one send whose
\* outcome is open has reached it.
THEOREM SubmitsOnce == Spec => []SubmittedOnce
<1>1. IInv => SubmittedOnce
  <2> SUFFICES ASSUME IInv PROVE SubmittedOnce
    OBVIOUS
  <2>1. \A m \in Messages : Unattributed(m) =>
          Engaged(m) /\ Stored(m) /\ UnresolvedSend(task[m])
    BY DEF Unattributed, Engaged, UnresolvedSend
  <2> QED
    BY <2>1 DEF IInv, SendInv, SubmittedOnce
<1> QED
  BY <1>1, Invariance, PTL

\* A send that is reported as not sent never reaches the app-server.
THEOREM NotSentHolds == Spec => []NotSentIsTrue
<1>1. IInv => NotSentIsTrue
  BY DEF IInv, SendInv, NotSentIsTrue
<1> QED
  BY <1>1, Invariance, PTL

\* A question that was announced and found answered is not asked again.
THEOREM AnswersStay == Spec => AnsweredStaysAnswered
<1>1. IInv /\ [Next]_vars =>
        [\A t \in Ids : Stored(t) =>
           \A q \in Questions :
             Has(task[t], Asked(q))
               /\ q \in task'[t].pending => q \in task[t].pending]_vars
  BY NextStep DEF Advances, Steady
<1> QED
  BY <1>1, Invariance, PTL DEF Spec, AnsweredStaysAnswered

\* The outbox of the native tasks implements the promise: a notification is
\* exposed again only after proof that the controller did not take it, the
\* controller takes it at most once, and only what it took counts as delivered.
THEOREM PromiseIsKept == Spec => KeepsPromise
<1>1. Init => Promise!Init
  <2> SUFFICES ASSUME Init PROVE Promise!Init
    OBVIOUS
  <2>1. \A t \in Ids : ~Stored(t)
    BY DEF Init, Stored
  <2>2. Offered = {} /\ Known = {}
    BY <2>1 DEF Offered, Known, Recorded
  <2> QED
    BY <2>2 DEF Init, Promise!Init
<1>2. IInv /\ [Next]_vars => [Promise!Next]_(Promise!promise)
  BY NextStep DEF Advances
<1> QED
  BY <1>1, <1>2, Invariance, PTL DEF Spec, KeepsPromise, Promise!Spec

=============================================================================

--------------------------- MODULE NativeTaskLemmas ---------------------------
(***************************************************************************)
(* The inductive invariant of NativeTask, IInv, what its operators make of *)
(* a record, and what a save or a change of the thread keeps of IInv, for  *)
(* any processes, messages, Watches, turns and questions and any number of *)
(* troubles.  NativeTaskProofs shows that every step keeps it.             *)
(***************************************************************************)
EXTENDS NativeTask, FiniteSetTheorems, SequenceTheorems, TLAPS

-----------------------------------------------------------------------------
(* ---------------------- the inductive invariant ---------------------- *)

Intents == {"none", "reserved", "uncertain", "accepted", "not_sent"}

RecordType ==
  [status : Statuses, intent : Intents, turn : Turns \cup {None}, receipt : BOOLEAN,
   closed : BOOLEAN, unwatched : BOOLEAN, due : BOOLEAN, renewals : 0 .. MaxTroubles,
   pending : SUBSET Questions, box : Seq(Notes)]

\* Notifications are recorded once, and attempted as often as was granted.
Orderly(box) ==
  /\ \A i \in DOMAIN box : box[i].attempts <= Budget(box[i])
  /\ \A i, j \in DOMAIN box : box[i].key = box[j].key => i = j

\* What every stored record of task t is like.
WellFormed(t, x) ==
  /\ x \in RecordType
  /\ x.intent = "none" <=> t \in Watches
  /\ x.status \in {"watching", "completed"} => x.turn # None
  /\ t \in Messages => (x.intent = "accepted" <=> x.turn # None)
  /\ x.closed => t \in Messages
  /\ Orderly(x.box)

\* What an observation may look like.
Snaps ==
  {Unavailable} \cup
  [bind : Turns \cup {None}, state : {"absent", "running", "ended"},
   pending : SUBSET Questions]

Orders == {"reconcile", "acceptance", "watch", "recover", "renew", "retry"}

ObservedType ==
  [pc : {"observed"}, id : Ids, why : Orders, snap : Snaps, fresh : BOOLEAN,
   only : Keys \cup {None}]

\* The steps of a process that delivers a notification.
Calls == {"claimed", "calling", "reached", "reported"}

CallType == [pc : Calls, id : Ids, note : Nat, attempt : Nat]

\* The steps of a process that submits a message it has reserved.
Sending == {"start", "dispatch", "wait", "result"}

Pcs == {"idle", "preflight", "settle", "reconcile", "observed", "deliver"} \cup Sending \cup Calls

\* The transport refused the notification; nobody has taken it up since.
Refused(x, key) == \E i \in DOMAIN x.box : x.box[i].key = key /\ Retryable(x.box[i])

JobOK(p) ==
  LET j == job[p]
  IN /\ j.pc \in Pcs
     /\ j.pc # "idle" => j.id \in Ids
     /\ j.pc = "preflight" => j.id \in Messages /\ j.idle \in BOOLEAN
     /\ j.pc \in Sending => j.id \in Messages
     /\ j.pc = "result" => j.outcome \in {"receipt", "not_sent", "unknown"}
     /\ j.pc = "observed" => j \in ObservedType
     /\ j.pc = "observed" /\ j.why = "retry" /\ j.fresh =>
          j.only \in Keys /\ j.only.kind = "interaction" /\ Refused(task[j.id], j.only)
     /\ j.pc \in Calls => j \in CallType /\ j.note \in DOMAIN task[j.id].box
     /\ j.pc \notin {"idle", "preflight"} /\ ~(j.pc = "observed" /\ j.why = "watch") =>
          Stored(j.id)

TypeInv ==
  /\ DOMAIN task = Ids /\ \A t \in Ids : Stored(t) => WellFormed(t, task[t])
  /\ DOMAIN job = Procs /\ \A p \in Procs : JobOK(p)
  /\ turn \in [Turns -> {"none", "running", "ended"}]
  /\ latest \in Turns \cup {None} /\ home \in [Messages -> Turns \cup {None}]
  /\ wire \subseteq Messages /\ shown \subseteq Messages
  /\ starts \in [Messages -> Nat] /\ asking \in [Questions -> {"unasked", "open", "done"}]
  /\ heard \in [Notices -> Nat] /\ exposed \subseteq Notices
  /\ troubles \in 0 .. MaxTroubles

\* Turns that are named have begun, one runs at a time, and it asks.
TurnInv ==
  /\ latest # None => turn[latest] # "none"
  /\ \A m \in Messages : home[m] # None => turn[home[m]] # "none" /\ starts[m] > 0
  /\ \A m \in shown : home[m] # None
  /\ \A t \in Ids : Stored(t) /\ task[t].turn # None =>
       turn[task[t].turn] # "none" /\ (t \in Messages => starts[t] > 0)
  /\ \A u, v \in Running : u = v
  /\ Running = {} => Pending = {}

\* Message m may have been or may still be submitted.
Engaged(m) ==
  Sent(m) \/ \E p \in Procs : job[p].pc \in {"start", "dispatch", "wait"} /\ job[p].id = m

SendInv ==
  /\ \A m \in Messages :
       /\ starts[m] + (IF m \in wire THEN 1 ELSE 0) <= 1
       /\ Sent(m) => Stored(m)
       /\ Stored(m) /\ task[m].intent = "not_sent" => ~Sent(m)
  /\ \A p \in Procs : job[p].pc \in Sending =>
       /\ task[job[p].id].intent # "not_sent"
       /\ job[p].pc \in {"start", "dispatch"} => ~Sent(job[p].id)
       /\ job[p].pc = "result" /\ job[p].outcome = "not_sent" => ~Sent(job[p].id)
  /\ \A p, r \in Procs :
       job[p].pc \in Sending /\ job[r].pc \in Sending /\ job[p].id = job[r].id => p = r
  /\ \A m, n \in Messages :
       /\ Engaged(m) /\ Stored(m) /\ UnresolvedSend(task[m])
       /\ Engaged(n) /\ Stored(n) /\ UnresolvedSend(task[n])
       => m = n

\* A Watch that is being created belongs to one process.
WatchInv ==
  \A p \in Procs : job[p].pc = "observed" /\ job[p].why = "watch" =>
    /\ job[p].id \in Watches /\ ~Stored(job[p].id) /\ job[p].fresh
    /\ job[p].snap # Unavailable /\ job[p].snap.bind # None
    /\ \A r \in Procs \ {p} : job[r].pc # "idle" => job[r].id # job[p].id

\* Every renewal was an order, which counts as a trouble.
RenewInv ==
  /\ \A t \in Ids : Stored(t) => task[t].renewals <= troubles
  /\ \A p \in Procs :
       job[p].pc = "observed" /\ job[p].why = "renew" /\ job[p].fresh =>
         task[job[p].id].renewals < troubles

\* Observation s names a turn that has begun and what this turn has asked.
Seen(t, s) ==
  s # Unavailable =>
    /\ s.bind # None => turn[s.bind] # "none" /\ (t \in Messages => starts[t] > 0)
    /\ \A q \in s.pending :
         asking[q] # "unasked" /\ (asking[q] = "open" => s.bind \in Running)

\* Record x has not changed since observation s was made.
Fits(x, s) ==
  s # Unavailable =>
    /\ x.turn # None => s.bind = x.turn
    /\ \A q \in Questions : Has(x, Asked(q)) =>
         IF q \in s.pending THEN q \in x.pending ELSE asking[q] = "done"

\* What record x has announced.
Announced(x) ==
  \A q \in Questions : Has(x, Asked(q)) =>
    /\ asking[q] # "unasked"
    /\ q \notin x.pending => asking[q] = "done"
    /\ asking[q] = "open" => x.turn # None /\ x.turn \in Running

AskInv ==
  /\ \A t \in Ids : Stored(t) => Announced(task[t])
  /\ \A p \in Procs : job[p].pc = "observed" =>
       /\ Seen(job[p].id, job[p].snap)
       /\ job[p].fresh /\ job[p].why # "watch" => Fits(task[job[p].id], job[p].snap)

\* What may be offered to a transport was not exposed to one, or is known not
\* to have arrived.
Unexposed(n) ==
  n.status \in {"ready", "retry_wait"} \/ (n.status = "failed" /\ n.outcome = "retryable")

BoxOK(t, box) ==
  \A i \in DOMAIN box :
    /\ Unexposed(box[i]) => <<t, box[i].key>> \notin exposed
    /\ box[i].status = "accepted" => heard[<<t, box[i].key>>] = 1

\* An attempt that is under way, or whose lease has run out, and nothing else.
InFlight(n) == n.status = "leased" \/ (n.status = "uncertain" /\ n.outcome = "expired")

CallOK(p) ==
  LET j == job[p]
      n == task[j.id].box[j.note]
  IN /\ n.attempts = j.attempt
     /\ IF j.pc = "reported" THEN n.status = "accepted" ELSE InFlight(n)
     /\ j.pc = "claimed" => Notice(p) \notin exposed
     /\ j.pc = "calling" => Notice(p) \in exposed /\ heard[Notice(p)] = 0
     /\ j.pc \in {"reached", "reported"} => heard[Notice(p)] = 1

OutboxInv ==
  /\ \A c \in Notices : heard[c] <= 1 /\ (heard[c] = 1 => c \in exposed)
  /\ \A c \in exposed : Stored(c[1]) /\ Has(task[c[1]], c[2])
  /\ \A t \in Ids : Stored(t) => BoxOK(t, task[t].box)
  /\ \A p \in Procs : job[p].pc \in Calls => CallOK(p)
  /\ \A p, r \in Procs :
       job[p].pc \in Calls /\ job[r].pc \in Calls
         /\ job[p].id = job[r].id /\ job[p].note = job[r].note => p = r

IInv ==
  TypeInv /\ TurnInv /\ SendInv /\ WatchInv /\ RenewInv /\ AskInv /\ OutboxInv

-----------------------------------------------------------------------------
(* ----------------------------- the records --------------------------- *)

\* A finite set is listed without repetition.
LEMMA ListedFacts ==
  ASSUME NEW S, IsFiniteSet(S)
  PROVE  /\ Len(SetToSeq(S)) \in Nat
         /\ DOMAIN SetToSeq(S) = 1 .. Len(SetToSeq(S))
         /\ SetToSeq(S) \in Seq(S)
         /\ \A i, j \in DOMAIN SetToSeq(S) : SetToSeq(S)[i] = SetToSeq(S)[j] => i = j
<1> DEFINE D == 1 .. Cardinality(S)
           f == SetToSeq(S)
<1>1. Cardinality(S) \in Nat /\ \E g \in [D -> S] : IsInjective(g)
  BY FS_CardinalityType DEF ExistsBijection, Bijection, Injection
<1>2. f \in [D -> S] /\ IsInjective(f)
  BY <1>1 DEF SetToSeq
<1> HIDE DEF f
<1>3. f \in Seq(S) /\ Len(f) = Cardinality(S)
  BY <1>1, <1>2
<1> QED
  BY <1>1, <1>2, <1>3 DEF IsInjective, f

\* A change of a notification by anyone but the process that delivers it.
Passive(n, o) ==
  /\ o.key = n.key /\ o.attempts = n.attempts
  /\ o.status = "accepted" <=> n.status = "accepted"
  /\ Unexposed(o) => Unexposed(n)
  /\ InFlight(n) => InFlight(o)

\* Notifications keep their places.
Keyed(box, later) ==
  \A i \in DOMAIN box : i \in DOMAIN later /\ later[i].key = box[i].key

\* Recorded notifications change passively, new ones were not delivered.
Passed(box, later) ==
  /\ \A i \in DOMAIN box : i \in DOMAIN later /\ Passive(box[i], later[i])
  /\ \A i \in DOMAIN later : i \notin DOMAIN box => later[i].status # "accepted"

\* A passive change leaves the notifications in their places.
LEMMA PassedKeys ==
  ASSUME NEW box, NEW later, Passed(box, later)
  PROVE  Keyed(box, later)
  BY DEF Passed, Keyed, Passive

\* Passive changes compose.
LEMMA PassedTwice ==
  ASSUME NEW a, NEW b, NEW c, Passed(a, b), Passed(b, c)
  PROVE  Passed(a, c)
<1>1. ASSUME NEW i \in DOMAIN a
      PROVE  i \in DOMAIN c /\ Passive(a[i], c[i])
  BY DEF Passed, Passive
<1>2. ASSUME NEW i \in DOMAIN c, i \notin DOMAIN a
      PROVE  c[i].status # "accepted"
  <2>1. CASE i \in DOMAIN b
    <3>1. b[i].status # "accepted" /\ Passive(b[i], c[i])
      BY <1>2, <2>1 DEF Passed
    <3> QED
      BY <3>1 DEF Passive
  <2>2. CASE i \notin DOMAIN b
    BY <2>2 DEF Passed
  <2> QED
    BY <2>1, <2>2
<1> QED
  BY <1>1, <1>2 DEF Passed

\* Everything but the notifications is as before.
OnlyBox(x, y) ==
  /\ y.status = x.status /\ y.intent = x.intent /\ y.turn = x.turn
  /\ y.receipt = x.receipt /\ y.closed = x.closed /\ y.unwatched = x.unwatched
  /\ y.due = x.due /\ y.renewals = x.renewals /\ y.pending = x.pending

\* The box of a record is exchanged.
LEMMA BoxFacts ==
  ASSUME NEW x \in RecordType, NEW box \in Seq(Notes)
  PROVE  /\ [x EXCEPT !.box = box] \in RecordType
         /\ [x EXCEPT !.box = box].box = box
         /\ OnlyBox(x, [x EXCEPT !.box = box])
  BY DEF RecordType, OnlyBox

\* A record stays well formed if only its box changes, in good order.
LEMMA WellFormedBox ==
  ASSUME NEW t, NEW x, WellFormed(t, x), NEW y \in RecordType, OnlyBox(x, y), Orderly(y.box)
  PROVE  WellFormed(t, y)
  BY DEF WellFormed, OnlyBox

\* Notifications are changed where they are.
LEMMA MappedFacts ==
  ASSUME NEW t, NEW x, WellFormed(t, x), NEW box \in [DOMAIN x.box -> Notes],
         \A i \in DOMAIN x.box :
           box[i].key = x.box[i].key /\ box[i].attempts <= Budget(box[i])
  PROVE  /\ box \in Seq(Notes) /\ DOMAIN box = DOMAIN x.box
         /\ WellFormed(t, [x EXCEPT !.box = box])
         /\ [x EXCEPT !.box = box].box = box
         /\ OnlyBox(x, [x EXCEPT !.box = box])
<1>1. x \in RecordType /\ x.box \in Seq(Notes) /\ Orderly(x.box)
  BY DEF WellFormed, RecordType
<1>2. PICK n \in Nat : DOMAIN x.box = 1 .. n
  BY <1>1
<1>3. box \in Seq(Notes) /\ DOMAIN box = DOMAIN x.box
  BY <1>2
<1>4. Orderly(box)
  BY <1>1, <1>3 DEF Orderly
<1> DEFINE y == [x EXCEPT !.box = box]
<1>5. y \in RecordType /\ y.box = box /\ OnlyBox(x, y)
  BY <1>1, <1>3, BoxFacts
<1> QED
  BY <1>3, <1>4, <1>5, WellFormedBox

\* A new notification waits to be delivered.
LEMMA NoteFacts ==
  ASSUME NEW key \in Keys
  PROVE  /\ Note(key) \in Notes /\ Note(key).key = key /\ Note(key).attempts = 0
         /\ Note(key).status = "ready"
<1>1. Note(key) \in Notes
  BY DEF Note, Notes
<1> QED
  BY <1>1 DEF Note

\* Every notification may be attempted at least once.
LEMMA BudgetFacts ==
  ASSUME NEW n \in Notes
  PROVE  Budget(n) \in Nat \ {0}
  BY NativeAssumption DEF Budget, Notes

\* Recording notifications keeps the record well formed and adds only new ones.
LEMMA NotifyFacts ==
  ASSUME NEW t, NEW x, WellFormed(t, x), NEW keys \in SUBSET Keys, IsFiniteSet(keys)
  PROVE  /\ WellFormed(t, Notify(x, keys)) /\ OnlyBox(x, Notify(x, keys))
         /\ Passed(x.box, Notify(x, keys).box)
         /\ \A k : Has(Notify(x, keys), k) => Has(x, k) \/ k \in keys
<1> DEFINE due == {k \in keys : ~Has(x, k)}
           new == SetToSeq(due)
           added == [i \in DOMAIN new |-> Note(new[i])]
           box == x.box \o added
           y == [x EXCEPT !.box = box]
<1>1. x \in RecordType /\ x.box \in Seq(Notes) /\ Orderly(x.box)
  BY DEF WellFormed, RecordType
<1>2. IsFiniteSet(due)
  BY FS_Subset
<1>3. /\ new \in Seq(due) /\ Len(new) \in Nat /\ DOMAIN new = 1 .. Len(new)
      /\ \A i, j \in DOMAIN new : new[i] = new[j] => i = j
  BY <1>2, ListedFacts
<1> HIDE DEF new
<1>4. \A i \in DOMAIN new : /\ new[i] \in keys /\ ~Has(x, new[i]) /\ new[i] \in Keys
                            /\ added[i] \in Notes /\ added[i].key = new[i]
                            /\ added[i].attempts = 0 /\ added[i].status = "ready"
  <2> SUFFICES ASSUME NEW i \in DOMAIN new
               PROVE  /\ new[i] \in due
                      /\ added[i] \in Notes /\ added[i].key = new[i]
                      /\ added[i].attempts = 0 /\ added[i].status = "ready"
    OBVIOUS
  <2>1. new[i] \in due
    BY <1>3
  <2>2. added[i] = Note(new[i])
    OBVIOUS
  <2> QED
    BY <2>1, <2>2, NoteFacts
<1>5. added \in Seq(Notes) /\ Len(added) = Len(new) /\ DOMAIN added = DOMAIN new
  BY <1>3, <1>4
<1> HIDE DEF added
<1>6. /\ box \in Seq(Notes) /\ DOMAIN box = 1 .. (Len(x.box) + Len(new))
      /\ \A i \in DOMAIN x.box : i \in DOMAIN box /\ box[i] = x.box[i]
      /\ \A i \in DOMAIN box : i \notin DOMAIN x.box =>
           i - Len(x.box) \in DOMAIN new /\ box[i] = added[i - Len(x.box)]
  BY <1>1, <1>3, <1>5
<1> HIDE DEF box
<1>7. Orderly(box)
  <2>1. \A i \in DOMAIN box : box[i].attempts <= Budget(box[i])
    <3> SUFFICES ASSUME NEW i \in DOMAIN box
                 PROVE  box[i].attempts <= Budget(box[i])
      OBVIOUS
    <3>1. CASE i \in DOMAIN x.box
      BY <1>1, <1>6, <3>1 DEF Orderly
    <3>2. CASE i \notin DOMAIN x.box
      BY <1>4, <1>6, <3>2, BudgetFacts
    <3> QED
      BY <3>1, <3>2
  <2>2. ASSUME NEW i \in DOMAIN box, NEW j \in DOMAIN box, box[i].key = box[j].key
        PROVE  i = j
    <3>1. CASE i \in DOMAIN x.box /\ j \in DOMAIN x.box
      BY <1>1, <1>6, <2>2, <3>1 DEF Orderly
    <3>2. CASE i \in DOMAIN x.box /\ j \notin DOMAIN x.box
      BY <1>4, <1>6, <2>2, <3>2 DEF Has
    <3>3. CASE i \notin DOMAIN x.box /\ j \in DOMAIN x.box
      BY <1>4, <1>6, <2>2, <3>3 DEF Has
    <3>4. CASE i \notin DOMAIN x.box /\ j \notin DOMAIN x.box
      <4>1. i \in Int /\ j \in Int /\ Len(x.box) \in Int
        BY <1>1, <1>6
      <4>2. i - Len(x.box) = j - Len(x.box)
        <5> DEFINE a == i - Len(x.box)
                   b == j - Len(x.box)
        <5>1. a \in DOMAIN new /\ b \in DOMAIN new /\ box[i] = added[a] /\ box[j] = added[b]
          BY <1>6, <3>4
        <5> HIDE DEF a, b
        <5>2. new[a] = new[b]
          BY <1>4, <2>2, <5>1
        <5>3. a = b
          BY <1>3, <5>1, <5>2
        <5> QED
          BY <5>3 DEF a, b
      <4> QED
        BY <4>1, <4>2
    <3> QED
      BY <3>1, <3>2, <3>3, <3>4
  <2> QED
    BY <2>1, <2>2 DEF Orderly
<1>8. Passed(x.box, box)
  BY <1>4, <1>6 DEF Passed, Passive
<1>9. y \in RecordType /\ y.box = box /\ OnlyBox(x, y)
  BY <1>1, <1>6, BoxFacts
<1>10. WellFormed(t, y)
  BY <1>7, <1>9, WellFormedBox
<1>11. ASSUME NEW k, Has(y, k) PROVE Has(x, k) \/ k \in keys
  BY <1>4, <1>6, <1>9, <1>11 DEF Has
<1>12. CASE Stopped(x)
  <2>1. Notify(x, keys) = x
    BY <1>12 DEF Notify
  <2> QED
    BY <2>1 DEF OnlyBox, Passed, Passive
<1>13. CASE ~Stopped(x)
  <2>1. Notify(x, keys) = y
    BY <1>13 DEF Notify, new, box, added
  <2> QED
    BY <1>8, <1>9, <1>10, <1>11, <2>1
<1> QED
  BY <1>12, <1>13

\* A notification that was not dispatched may be withdrawn.
LEMMA WithdrawFacts ==
  ASSUME NEW n \in Notes, n.status \in {"ready", "retry_wait", "failed"}
  PROVE  /\ Withdraw(n) \in Notes /\ Passive(n, Withdraw(n))
         /\ Withdraw(n).granted = n.granted /\ Withdraw(n).attempts = n.attempts
         /\ Withdraw(n).key = n.key
<1>1. Withdraw(n) \in Notes
  BY DEF Withdraw, Notes
<1>2. /\ Withdraw(n).granted = n.granted /\ Withdraw(n).attempts = n.attempts
      /\ Withdraw(n).key = n.key /\ Withdraw(n).status = "failed"
      /\ Withdraw(n).outcome = "permanent"
  BY DEF Withdraw, Notes
<1> QED
  BY <1>1, <1>2 DEF Passive, Unexposed, InFlight

\* Record y continues record x of task t, by what observation s says.
Carries(t, x, s, y) ==
  /\ WellFormed(t, y)
  /\ Passed(x.box, y.box)
  /\ x.closed => y.closed
  /\ y.turn = x.turn \/ (x.turn = None /\ s # Unavailable /\ y.turn = s.bind)
  /\ y.intent = "not_sent" => x.intent = "not_sent"
  /\ UnresolvedSend(y) => UnresolvedSend(x) \/ x.intent = "not_sent"
  /\ \/ y.pending = x.pending
     \/ s # Unavailable /\ y.turn # None /\ y.pending = s.pending
  /\ \A q \in Questions : Has(y, Asked(q)) =>
       \/ Has(x, Asked(q))
       \/ s # Unavailable /\ y.turn # None /\ y.pending = s.pending /\ q \in s.pending

\* A record continues itself.
LEMMA CarriesSelf ==
  ASSUME NEW t, NEW x, NEW s, WellFormed(t, x)
  PROVE  Carries(t, x, s, x)
  BY DEF Carries, Passed, Passive

\* Records that are continued by the same observation compose.
LEMMA CarriesTwice ==
  ASSUME NEW t, NEW s, NEW x, NEW y, NEW z, Carries(t, x, s, y), Carries(t, y, s, z)
  PROVE  Carries(t, x, s, z)
<1>1. Passed(x.box, z.box)
  BY PassedTwice DEF Carries
<1>2. WellFormed(t, z) /\ (x.closed => z.closed)
  BY DEF Carries
<1>3. z.turn = x.turn \/ (x.turn = None /\ s # Unavailable /\ z.turn = s.bind)
  BY DEF Carries
<1>4. y.turn # None => z.turn = y.turn
  BY DEF Carries
<1>5. /\ z.intent = "not_sent" => x.intent = "not_sent"
      /\ UnresolvedSend(z) => UnresolvedSend(x) \/ x.intent = "not_sent"
  BY DEF Carries
<1>6. \/ z.pending = x.pending
      \/ s # Unavailable /\ z.turn # None /\ z.pending = s.pending
  BY <1>4 DEF Carries
<1>7. ASSUME NEW q \in Questions, Has(z, Asked(q))
      PROVE  \/ Has(x, Asked(q))
             \/ s # Unavailable /\ z.turn # None /\ z.pending = s.pending /\ q \in s.pending
  BY <1>4, <1>7 DEF Carries
<1> QED
  BY <1>1, <1>2, <1>3, <1>5, <1>6, <1>7 DEF Carries

\* Only the box changes, passively, and no question is announced.
LEMMA CarriesBox ==
  ASSUME NEW t, NEW x, NEW s, NEW y, WellFormed(t, y), OnlyBox(x, y), Passed(x.box, y.box),
         \A q \in Questions : Has(y, Asked(q)) => Has(x, Asked(q))
  PROVE  Carries(t, x, s, y)
  BY DEF Carries, OnlyBox, UnresolvedSend

\* Notifications are withdrawn where they are.
LEMMA CarriesMapped ==
  ASSUME NEW t, NEW x, NEW s, WellFormed(t, x), NEW box \in [DOMAIN x.box -> Notes],
         \A i \in DOMAIN x.box :
           Passive(x.box[i], box[i]) /\ box[i].granted >= x.box[i].granted
  PROVE  /\ Carries(t, x, s, [x EXCEPT !.box = box])
         /\ OnlyBox(x, [x EXCEPT !.box = box])
<1> DEFINE y == [x EXCEPT !.box = box]
<1>1. ASSUME NEW i \in DOMAIN x.box
      PROVE  box[i] \in Notes /\ box[i].key = x.box[i].key /\ box[i].attempts <= Budget(box[i])
  <2>1. x.box[i] \in Notes /\ x.box[i].attempts <= Budget(x.box[i])
    BY DEF WellFormed, RecordType, Orderly
  <2>2. box[i] \in Notes /\ box[i].granted >= x.box[i].granted /\ box[i].attempts = x.box[i].attempts
        /\ box[i].key = x.box[i].key
    BY DEF Passive
  <2>3. Budget(x.box[i]) <= Budget(box[i])
    BY <2>1, <2>2, NativeAssumption DEF Budget, Notes
  <2> QED
    BY <2>1, <2>2, <2>3, BudgetFacts DEF Notes
<1>2. /\ DOMAIN box = DOMAIN x.box /\ WellFormed(t, y) /\ y.box = box /\ OnlyBox(x, y)
  <2>1. \A i \in DOMAIN x.box :
          box[i].key = x.box[i].key /\ box[i].attempts <= Budget(box[i])
    BY <1>1
  <2> QED
    BY <2>1, MappedFacts
<1>3. Passed(x.box, box)
  BY <1>2 DEF Passed
<1>4. \A q \in Questions : Has(y, Asked(q)) => Has(x, Asked(q))
  BY <1>1, <1>2 DEF Has
<1> QED
  BY <1>2, <1>3, <1>4, CarriesBox

\* The notifications of a record.
LEMMA NotesOf ==
  ASSUME NEW t, NEW x, WellFormed(t, x), NEW i \in DOMAIN x.box
  PROVE  x.box[i] \in Notes
  BY DEF WellFormed, RecordType

\* What happens to a record when its notifications are withdrawn.
LEMMA SuppressFacts ==
  ASSUME NEW t, NEW x, NEW s, WellFormed(t, x)
  PROVE  Carries(t, x, s, Suppress(x)) /\ OnlyBox(x, Suppress(x))
<1> DEFINE Change(n) == IF Withdrawable(n) THEN Withdraw(n) ELSE n
           box == [i \in DOMAIN x.box |-> Change(x.box[i])]
<1>1. Suppress(x) = [x EXCEPT !.box = box]
  BY DEF Suppress, EachNote
<1>2. ASSUME NEW i \in DOMAIN x.box
      PROVE  /\ box[i] \in Notes /\ Passive(x.box[i], box[i])
             /\ box[i].granted >= x.box[i].granted
  BY NotesOf, WithdrawFacts DEF Withdrawable, Passive, Notes
<1>3. box \in [DOMAIN x.box -> Notes]
  BY <1>2
<1> HIDE DEF box
<1> QED
  BY SMTT(40), <1>1, <1>2, <1>3, CarriesMapped

\* The same, when only its timeouts are withdrawn.
LEMMA SuppressTimeoutsFacts ==
  ASSUME NEW t, NEW x, NEW s, WellFormed(t, x)
  PROVE  Carries(t, x, s, SuppressTimeouts(x)) /\ OnlyBox(x, SuppressTimeouts(x))
<1> DEFINE Change(n) == IF Withdrawable(n) /\ n.key.kind = "timed_out"
                        THEN Withdraw(n) ELSE n
           box == [i \in DOMAIN x.box |-> Change(x.box[i])]
<1>1. SuppressTimeouts(x) = [x EXCEPT !.box = box]
  BY DEF SuppressTimeouts, EachNote
<1>2. ASSUME NEW i \in DOMAIN x.box
      PROVE  /\ box[i] \in Notes /\ Passive(x.box[i], box[i])
             /\ box[i].granted >= x.box[i].granted
  BY NotesOf, WithdrawFacts DEF Withdrawable, Passive, Notes
<1>3. box \in [DOMAIN x.box -> Notes]
  BY <1>2
<1> HIDE DEF box
<1> QED
  BY SMTT(40), <1>1, <1>2, <1>3, CarriesMapped

\* The notifications of the questions that are open are finitely many.
LEMMA AskedKeys ==
  ASSUME NEW S \in SUBSET Questions
  PROVE  /\ {Asked(q) : q \in S} \in SUBSET Keys /\ IsFiniteSet({Asked(q) : q \in S})
         /\ \A q : Asked(q) \in {Asked(r) : r \in S} <=> q \in S
<1> DEFINE T == {Asked(q) : q \in S}
           f == [q \in S |-> Asked(q)]
<1>1. T \subseteq Keys
  BY DEF Asked, Keys
<1>2. IsFiniteSet(S)
  BY FS_Subset, NativeAssumption
<1>3. f \in Surjection(S, T)
  BY DEF Surjection
<1>4. IsFiniteSet(T)
  BY <1>2, <1>3, FS_Surjection DEF ExistsSurjection
<1>5. \A q : Asked(q) \in T <=> q \in S
  BY DEF Asked
<1> QED
  BY <1>1, <1>4, <1>5

\* A single notification is a finite set of them, and asks nothing.
LEMMA OtherKeys ==
  ASSUME NEW x \in RecordType
  PROVE  /\ {Timeout(x)} \in SUBSET Keys /\ IsFiniteSet({Timeout(x)})
         /\ {[kind |-> "settled"]} \in SUBSET Keys /\ IsFiniteSet({[kind |-> "settled"]})
         /\ \A q : Asked(q) # Timeout(x) /\ Asked(q) # [kind |-> "settled"]
<1>1. Timeout(x) \in Keys /\ [kind |-> "settled"] \in Keys
  BY DEF Timeout, Keys, RecordType
<1>2. \A q : Asked(q).kind # Timeout(x).kind /\ Asked(q).kind # [kind |-> "settled"].kind
  BY DEF Asked, Timeout
<1> QED
  BY <1>1, <1>2, FS_Singleton

\* Everything but what is pending and what was announced is as before.
SameTask(x, y) ==
  /\ y.status = x.status /\ y.intent = x.intent /\ y.turn = x.turn
  /\ y.receipt = x.receipt /\ y.closed = x.closed /\ y.unwatched = x.unwatched
  /\ y.due = x.due /\ y.renewals = x.renewals

\* What becomes of a record when an observation shows what is still asked.
LEMMA AnsweredFacts ==
  ASSUME NEW t, NEW x, WellFormed(t, x), x.turn # None,
         NEW s \in Snaps, s # Unavailable
  PROVE  LET y == Answered(x, s)
         IN /\ Carries(t, x, s, y) /\ SameTask(x, y) /\ y.pending = s.pending
            /\ \A k : Has(y, k) => Has(x, k)
<1> DEFINE Change(n) == IF n.key.kind = "interaction" /\ n.key.ask \notin s.pending
                             /\ n.status \in {"ready", "retry_wait"}
                        THEN Withdraw(n) ELSE n
           box == [i \in DOMAIN x.box |-> Change(x.box[i])]
           z == [x EXCEPT !.box = box]
           y == Answered(x, s)
<1>1. y = [z EXCEPT !.pending = s.pending]
  BY DEF Answered, EachNote
<1>2. ASSUME NEW i \in DOMAIN x.box
      PROVE  /\ box[i] \in Notes /\ Passive(x.box[i], box[i])
             /\ box[i].granted >= x.box[i].granted /\ box[i].key = x.box[i].key
  <2>1. x.box[i] \in Notes /\ x.box[i].granted \in Nat
    BY NotesOf DEF Notes
  <2>2. \/ box[i] = x.box[i]
        \/ box[i] = Withdraw(x.box[i]) /\ x.box[i].status \in {"ready", "retry_wait"}
    OBVIOUS
  <2> HIDE DEF box
  <2>3. CASE box[i] = x.box[i]
    BY <2>1, <2>3 DEF Passive
  <2>4. CASE box[i] = Withdraw(x.box[i]) /\ x.box[i].status \in {"ready", "retry_wait"}
    BY <2>1, <2>4, WithdrawFacts
  <2> QED
    BY <2>2, <2>3, <2>4
<1>3. box \in [DOMAIN x.box -> Notes]
  BY <1>2
<1> HIDE DEF box
<1>4. Carries(t, x, s, z) /\ OnlyBox(x, z)
  BY <1>2, <1>3, CarriesMapped
<1>5. s.pending \in SUBSET Questions
  BY DEF Snaps
<1>6. x \in RecordType /\ z \in RecordType /\ WellFormed(t, z) /\ z.box = box
  BY <1>4 DEF WellFormed, Carries, RecordType
<1>7. /\ y \in RecordType /\ y.box = box /\ SameTask(z, y) /\ y.pending = s.pending
  BY <1>1, <1>5, <1>6 DEF RecordType, SameTask
<1>8. SameTask(x, y)
  BY <1>4, <1>7 DEF SameTask, OnlyBox
<1>9. WellFormed(t, y)
  BY <1>6, <1>7 DEF WellFormed, SameTask
<1>10. Passed(x.box, y.box)
  BY <1>4, <1>6, <1>7 DEF Carries
<1>11. ASSUME NEW k, Has(y, k) PROVE Has(x, k)
  BY <1>2, <1>3, <1>7, <1>11 DEF Has
<1>12. Carries(t, x, s, y)
  BY <1>7, <1>8, <1>9, <1>10, <1>11 DEF Carries, SameTask, UnresolvedSend
<1> QED
  BY <1>7, <1>8, <1>11, <1>12

\* Announcing what is asked continues the record.
LEMMA AnnounceFacts ==
  ASSUME NEW t, NEW x, WellFormed(t, x), x.turn # None,
         NEW s \in Snaps, s # Unavailable
  PROVE  LET y == Announce(x, s)
         IN Carries(t, x, s, y) /\ SameTask(x, y) /\ y.pending = s.pending
<1> DEFINE z == Answered(x, s)
           keys == {Asked(q) : q \in s.pending}
           y == Notify(z, keys)
<1>1. y = Announce(x, s)
  BY DEF Announce
<1>2. /\ Carries(t, x, s, z) /\ SameTask(x, z) /\ z.pending = s.pending
      /\ \A k : Has(z, k) => Has(x, k)
  BY AnsweredFacts
<1> HIDE DEF z
<1>3. s.pending \in SUBSET Questions
  BY DEF Snaps
<1>4. /\ keys \in SUBSET Keys /\ IsFiniteSet(keys)
      /\ \A q : Asked(q) \in keys <=> q \in s.pending
  BY <1>3, AskedKeys
<1> HIDE DEF keys
<1>5. WellFormed(t, z)
  BY <1>2 DEF Carries
<1>6. /\ WellFormed(t, y) /\ OnlyBox(z, y) /\ Passed(z.box, y.box)
      /\ \A k : Has(y, k) => Has(z, k) \/ k \in keys
  BY <1>4, <1>5, NotifyFacts
<1> HIDE DEF y
<1>7. SameTask(x, y) /\ y.pending = s.pending
  BY <1>2, <1>6 DEF SameTask, OnlyBox
<1>8. Carries(t, z, s, y)
  BY <1>2, <1>4, <1>6, <1>7 DEF Carries, OnlyBox, UnresolvedSend, SameTask
<1>9. Carries(t, x, s, y)
  BY <1>2, <1>8, CarriesTwice
<1> QED
  BY <1>1, <1>7, <1>9

\* The status changes; the status of a followed task needs a turn.
LEMMA StatusFacts ==
  ASSUME NEW t, NEW x, NEW s, WellFormed(t, x), NEW status \in Statuses,
         status \in {"watching", "completed"} => x.turn # None
  PROVE  LET y == [x EXCEPT !.status = status]
         IN Carries(t, x, s, y) /\ y.turn = x.turn /\ y.pending = x.pending
              /\ y.box = x.box /\ y.status = status /\ y.renewals = x.renewals
              /\ y.intent = x.intent
<1> DEFINE y == [x EXCEPT !.status = status]
<1>1. x \in RecordType
  BY DEF WellFormed
<1>2. /\ y \in RecordType /\ y.turn = x.turn /\ y.pending = x.pending /\ y.box = x.box
      /\ y.status = status /\ y.intent = x.intent /\ y.closed = x.closed /\ y.renewals = x.renewals
  BY <1>1 DEF RecordType
<1> HIDE DEF y
<1>3. WellFormed(t, y)
  BY <1>2 DEF WellFormed
<1>4. Passed(x.box, y.box)
  BY <1>2 DEF Passed, Passive
<1>5. Carries(t, x, s, y)
  BY <1>2, <1>3, <1>4 DEF Carries, UnresolvedSend, Has
<1> QED
  BY <1>2, <1>5 DEF y

\* So does a notification that asks nothing.
LEMMA NotifyOther ==
  ASSUME NEW t, NEW x, NEW s, WellFormed(t, x), NEW keys \in SUBSET Keys, IsFiniteSet(keys),
         \A q : Asked(q) \notin keys
  PROVE  LET y == Notify(x, keys) IN Carries(t, x, s, y) /\ OnlyBox(x, y)
<1> DEFINE y == Notify(x, keys)
<1>1. /\ WellFormed(t, y) /\ OnlyBox(x, y) /\ Passed(x.box, y.box)
      /\ \A k : Has(y, k) => Has(x, k) \/ k \in keys
  BY NotifyFacts
<1> HIDE DEF y
<1>2. \A q \in Questions : Has(y, Asked(q)) => Has(x, Asked(q))
  BY <1>1
<1>3. Carries(t, x, s, y)
  BY <1>1, <1>2, CarriesBox
<1> QED
  BY <1>1, <1>3 DEF y

\* Binding a submission continues the record: only a turn that was seen is bound.
LEMMA BindFacts ==
  ASSUME NEW t \in Ids, NEW x, WellFormed(t, x), NEW s \in Snaps, s # Unavailable
  PROVE  LET y == BindSubmission(x, s)
         IN /\ Carries(t, x, s, y) /\ y.pending = x.pending /\ y.renewals = x.renewals
            /\ y.unwatched = x.unwatched /\ y.closed = x.closed
<1> DEFINE y == BindSubmission(x, s)
<1>1. x \in RecordType /\ s.bind \in Turns \cup {None}
  BY DEF WellFormed, Snaps
<1>2. CASE x.intent = "none" \/ x.turn # None
  <2>1. y = x
    BY <1>2 DEF BindSubmission
  <2> QED
    BY <2>1, CarriesSelf
<1>3. CASE x.intent # "none" /\ x.turn = None /\ s.bind # None
  <2>1. y = [x EXCEPT !.turn = s.bind, !.intent = "accepted", !.status = "watching"]
    BY <1>3 DEF BindSubmission
  <2>2. /\ y \in RecordType /\ y.turn = s.bind /\ y.intent = "accepted" /\ y.status = "watching"
        /\ y.box = x.box /\ y.pending = x.pending /\ y.renewals = x.renewals
        /\ y.closed = x.closed /\ y.unwatched = x.unwatched
    BY <1>1, <2>1 DEF RecordType, Intents, Statuses
  <2> HIDE DEF y
  <2>3. WellFormed(t, y)
    BY <1>3, <2>2, NativeAssumption DEF WellFormed
  <2>4. Passed(x.box, y.box)
    BY <2>2 DEF Passed, Passive
  <2>5. Carries(t, x, s, y)
    BY <1>3, <2>2, <2>3, <2>4 DEF Carries, UnresolvedSend, Has
  <2> QED
    BY <2>2, <2>5 DEF y
<1>4. CASE x.intent # "none" /\ x.turn = None /\ s.bind = None
  <2> DEFINE intent == IF x.intent = "reserved" THEN x.intent ELSE "uncertain"
  <2>1. y = [x EXCEPT !.intent = intent]
    BY <1>1, <1>4 DEF BindSubmission, RecordType
  <2>2. intent \in Intents /\ intent \in {"reserved", "uncertain"}
    BY DEF Intents
  <2>3. x.intent # "reserved" => intent = "uncertain"
    OBVIOUS
  <2> HIDE DEF intent
  <2>4. /\ y \in RecordType /\ y.turn = x.turn /\ y.intent = intent /\ y.status = x.status
        /\ y.box = x.box /\ y.pending = x.pending /\ y.renewals = x.renewals
        /\ y.closed = x.closed /\ y.unwatched = x.unwatched
    BY <1>1, <2>1, <2>2 DEF RecordType
  <2> HIDE DEF y
  <2>5. x.intent \in {"reserved", "uncertain", "not_sent"} /\ t \notin Watches
    BY <1>1, <1>4 DEF WellFormed, RecordType, Intents, Ids
  <2>6. WellFormed(t, y)
    BY <1>4, <2>2, <2>4, <2>5 DEF WellFormed
  <2>7. Passed(x.box, y.box)
    BY <2>4 DEF Passed, Passive
  <2>8. UnresolvedSend(y) => UnresolvedSend(x) \/ x.intent = "not_sent"
    BY <2>4, <2>5 DEF UnresolvedSend
  <2>9. Carries(t, x, s, y)
    BY <2>2, <2>4, <2>6, <2>7, <2>8 DEF Carries, Has
  <2> QED
    BY <2>4, <2>9 DEF y
<1> QED
  BY <1>2, <1>3, <1>4

\* Following the bound turn continues the record.
LEMMA FollowFacts ==
  ASSUME NEW t \in Ids, NEW x, WellFormed(t, x), NEW s \in Snaps, s # Unavailable
  PROVE  LET y == Follow(x, s)
         IN Carries(t, x, s, y) /\ y.turn = x.turn /\ y.renewals = x.renewals
<1> DEFINE y == Follow(x, s)
<1>1. s.state \in {"absent", "running", "ended"}
  BY DEF Snaps
<1>2. CASE x.turn = None \/ s.state = "absent"
  <2>1. y = x
    BY <1>2 DEF Follow
  <2> QED
    BY <2>1, CarriesSelf
<1>3. CASE x.turn # None /\ s.state = "running"
  <2>1. y = Announce(x, s)
    BY <1>3 DEF Follow
  <2> QED
    BY <1>3, <2>1, AnnounceFacts DEF SameTask
<1>4. CASE x.turn # None /\ s.state = "ended"
  <2> DEFINE a == Announce(x, s)
             status == "completed"
             c == [a EXCEPT !.status = status]
             keys == {[kind |-> "settled"]}
  <2>1. y = Notify(c, keys)
    BY <1>4 DEF Follow
  <2>2. Carries(t, x, s, a) /\ SameTask(x, a)
    BY <1>4, AnnounceFacts
  <2>3. WellFormed(t, a) /\ a.turn # None
    BY <1>4, <2>2 DEF Carries, SameTask
  <2> HIDE DEF a
  <2>4. status \in Statuses
    BY DEF Statuses
  <2> HIDE DEF status
  <2>5. Carries(t, a, s, c) /\ c.turn = a.turn /\ c.renewals = a.renewals
    BY <2>3, <2>4, StatusFacts
  <2> HIDE DEF c
  <2>6. WellFormed(t, c) /\ c \in RecordType
    BY <2>5 DEF Carries, WellFormed
  <2>7. Carries(t, c, s, y) /\ OnlyBox(c, y)
    <3>1. keys \in SUBSET Keys /\ IsFiniteSet(keys) /\ \A q : Asked(q) \notin keys
      BY <2>6, OtherKeys
    <3> HIDE DEF keys
    <3> QED
      BY <2>1, <2>6, <3>1, NotifyOther
  <2>8. Carries(t, x, s, y)
    BY <2>2, <2>5, <2>7, CarriesTwice
  <2> QED
    BY <2>2, <2>5, <2>7, <2>8 DEF SameTask, OnlyBox
<1> QED
  BY <1>1, <1>2, <1>3, <1>4

\* Applying an observation continues the record.
LEMMA ApplyFacts ==
  ASSUME NEW t \in Ids, NEW x, WellFormed(t, x), NEW s \in Snaps, NEW refresh
  PROVE  LET y == Apply(x, s, refresh)
         IN Carries(t, x, s, y) /\ y.renewals = x.renewals
<1>1. CASE s = Unavailable \/ x.closed \/ Settled(x) \/ ~(refresh \/ Live(x))
  <2>1. Apply(x, s, refresh) = x
    BY <1>1 DEF Apply
  <2> QED
    BY <2>1, CarriesSelf
<1>2. CASE ~(s = Unavailable \/ x.closed \/ Settled(x) \/ ~(refresh \/ Live(x)))
  <2> DEFINE b == BindSubmission(x, s)
             y == Follow(b, s)
  <2>1. Apply(x, s, refresh) = y
    BY <1>2 DEF Apply
  <2>2. Carries(t, x, s, b) /\ b.renewals = x.renewals
    BY <1>2, BindFacts
  <2>3. WellFormed(t, b)
    BY <2>2 DEF Carries
  <2> HIDE DEF b
  <2>4. Carries(t, b, s, y) /\ y.renewals = b.renewals
    BY <1>2, <2>3, FollowFacts
  <2> HIDE DEF y
  <2> QED
    BY <2>1, <2>2, <2>4, CarriesTwice
<1> QED
  BY <1>1, <1>2

\* A deadline continues the record.
LEMMA ExpireFacts ==
  ASSUME NEW t, NEW x, NEW s, WellFormed(t, x)
  PROVE  LET y == Expire(x) IN Carries(t, x, s, y) /\ y.renewals = x.renewals
<1>1. CASE Live(x) /\ x.due
  <2> DEFINE keys == {Timeout(x)}
             n == Notify(x, keys)
             status == "timed_out"
             y == [n EXCEPT !.status = status]
  <2>1. Expire(x) = y
    BY <1>1 DEF Expire
  <2>2. keys \in SUBSET Keys /\ IsFiniteSet(keys) /\ \A q : Asked(q) \notin keys
    BY OtherKeys DEF WellFormed
  <2> HIDE DEF keys
  <2>3. Carries(t, x, s, n) /\ OnlyBox(x, n)
    BY <2>2, NotifyOther
  <2> HIDE DEF n
  <2>4. status \in Statuses /\ status \notin {"watching", "completed"}
    BY DEF Statuses
  <2> HIDE DEF status
  <2>5. Carries(t, n, s, y) /\ y.renewals = n.renewals
    BY <2>3, <2>4, StatusFacts DEF Carries
  <2> HIDE DEF y
  <2> QED
    BY <2>1, <2>3, <2>5, CarriesTwice DEF OnlyBox
<1>2. CASE ~(Live(x) /\ x.due)
  BY <1>2, CarriesSelf DEF Expire
<1> QED
  BY <1>1, <1>2

\* Keeping the timeout of a record continues it.
LEMMA KeepTimeoutFacts ==
  ASSUME NEW t, NEW x, NEW s, NEW before, WellFormed(t, x)
  PROVE  LET y == KeepTimeout(x, before) IN Carries(t, x, s, y) /\ y.renewals = x.renewals
<1> DEFINE status == "timed_out"
           y == [x EXCEPT !.status = status]
<1>1. KeepTimeout(x, before) \in {x, y}
  BY DEF KeepTimeout
<1>2. status \in Statuses /\ status \notin {"watching", "completed"}
  BY DEF Statuses
<1> HIDE DEF status
<1>3. Carries(t, x, s, y) /\ y.renewals = x.renewals
  BY <1>2, StatusFacts
<1> HIDE DEF y
<1> QED
  BY <1>1, <1>3, CarriesSelf

\* Reconciliation continues the record, that of a lost send included.
LEMMA ReconciledFacts ==
  ASSUME NEW t \in Ids, NEW x, WellFormed(t, x), NEW s \in Snaps
  PROVE  LET y == Reconciled(x, s) IN Carries(t, x, s, y) /\ y.renewals = x.renewals
<1> DEFINE status == "awaiting_acceptance"
           w == [x EXCEPT !.status = status]
           a == IF Recoverable(x) /\ s # Unavailable THEN Apply(w, s, FALSE)
                                                     ELSE Apply(x, s, FALSE)
           y == Expire(a)
<1>1. Reconciled(x, s) = y
  BY DEF Reconciled
<1>2. status \in Statuses /\ status \notin {"watching", "completed"}
  BY DEF Statuses
<1> HIDE DEF status
<1>3. Carries(t, x, s, w) /\ w.renewals = x.renewals
  BY <1>2, StatusFacts
<1> HIDE DEF w
<1>4. WellFormed(t, w)
  BY <1>3 DEF Carries
<1>5. Carries(t, w, s, Apply(w, s, FALSE)) /\ Apply(w, s, FALSE).renewals = w.renewals
  BY <1>4, ApplyFacts
<1>6. Carries(t, x, s, Apply(x, s, FALSE)) /\ Apply(x, s, FALSE).renewals = x.renewals
  BY ApplyFacts
<1>7. Carries(t, x, s, a) /\ a.renewals = x.renewals
  BY <1>3, <1>5, <1>6, CarriesTwice
<1> HIDE DEF a
<1>8. Carries(t, a, s, y) /\ y.renewals = a.renewals
  BY <1>7, ExpireFacts DEF Carries
<1> HIDE DEF y
<1> QED
  BY <1>1, <1>7, <1>8, CarriesTwice

\* Looking again at a record that timed out continues it.
LEMMA ObservedAgainFacts ==
  ASSUME NEW t \in Ids, NEW x, WellFormed(t, x), NEW s \in Snaps
  PROVE  LET y == KeepTimeout(Apply(x, s, TRUE), x)
         IN Carries(t, x, s, y) /\ y.renewals = x.renewals
<1> DEFINE a == Apply(x, s, TRUE)
           y == KeepTimeout(a, x)
<1>1. Carries(t, x, s, a) /\ a.renewals = x.renewals
  BY ApplyFacts
<1> HIDE DEF a
<1>2. WellFormed(t, a)
  BY <1>1 DEF Carries
<1>3. Carries(t, a, s, y) /\ y.renewals = a.renewals
  BY <1>2, KeepTimeoutFacts
<1> HIDE DEF y
<1> QED
  BY <1>1, <1>3, CarriesTwice DEF y, a

\* Withdrawing the notifications of a continued record continues it.
LEMMA SuppressedFacts ==
  ASSUME NEW t, NEW x, NEW s, NEW y, Carries(t, x, s, y)
  PROVE  /\ Carries(t, x, s, SuppressTimeouts(y)) /\ SuppressTimeouts(y).renewals = y.renewals
         /\ Carries(t, x, s, Suppress(y)) /\ Suppress(y).renewals = y.renewals
<1>1. WellFormed(t, y)
  BY DEF Carries
<1>2. /\ Carries(t, y, s, SuppressTimeouts(y)) /\ OnlyBox(y, SuppressTimeouts(y))
      /\ Carries(t, y, s, Suppress(y)) /\ OnlyBox(y, Suppress(y))
  BY <1>1, SuppressTimeoutsFacts, SuppressFacts
<1> QED
  BY <1>2, CarriesTwice DEF OnlyBox

\* What Recover makes of a record continues it.
LEMMA RecoverFacts ==
  ASSUME NEW t \in Ids, NEW x, WellFormed(t, x), NEW s \in Snaps
  PROVE  LET a == Expire(KeepTimeout(Apply(x, s, TRUE), x))
             y == IF Settled(a) THEN SuppressTimeouts(a) ELSE a
         IN Carries(t, x, s, y) /\ y.renewals = x.renewals
<1> DEFINE k == KeepTimeout(Apply(x, s, TRUE), x)
           a == Expire(k)
<1>1. Carries(t, x, s, k) /\ k.renewals = x.renewals
  BY ObservedAgainFacts
<1> HIDE DEF k
<1>2. Carries(t, k, s, a) /\ a.renewals = k.renewals
  BY <1>1, ExpireFacts DEF Carries
<1> HIDE DEF a
<1>3. Carries(t, x, s, a) /\ a.renewals = x.renewals
  BY <1>1, <1>2, CarriesTwice
<1>4. Carries(t, x, s, SuppressTimeouts(a)) /\ SuppressTimeouts(a).renewals = a.renewals
  BY <1>3, SuppressedFacts
<1> QED
  BY <1>3, <1>4 DEF a, k

\* A renewal observes the task again.
LEMMA ResumedFacts ==
  ASSUME NEW t, NEW x, NEW s, WellFormed(t, x), x.turn # None, x.renewals < MaxTroubles
  PROVE  LET y == Resumed(x) IN Carries(t, x, s, y) /\ y.renewals = x.renewals + 1
<1> DEFINE status == "watching"
           flag == FALSE
           r == [x EXCEPT !.renewals = x.renewals + 1, !.due = flag, !.unwatched = flag,
                          !.status = status]
<1>1. x \in RecordType /\ x.renewals + 1 \in 0 .. MaxTroubles
  BY NativeAssumption DEF WellFormed, RecordType
<1>2. Resumed(x) = SuppressTimeouts(r)
  BY <1>1 DEF Resumed, RecordType
<1>3. status \in Statuses /\ flag \in BOOLEAN
  BY DEF Statuses
<1> HIDE DEF status, flag
<1>4. /\ r \in RecordType /\ r.turn = x.turn /\ r.intent = x.intent /\ r.status = status
      /\ r.box = x.box /\ r.pending = x.pending /\ r.renewals = x.renewals + 1
      /\ r.closed = x.closed
  BY <1>1, <1>3 DEF RecordType
<1> HIDE DEF r
<1>5. WellFormed(t, r)
  BY <1>4 DEF WellFormed
<1>6. Passed(x.box, r.box)
  BY <1>4 DEF Passed, Passive
<1>7. Carries(t, x, s, r)
  BY <1>4, <1>5, <1>6 DEF Carries, UnresolvedSend, Has
<1> QED
  BY <1>2, <1>4, <1>7, SuppressedFacts

\* Nobody watches a task any more, or its send is given up.
LEMMA StopFacts ==
  ASSUME NEW t, NEW x, NEW s, WellFormed(t, x)
  PROVE  /\ Carries(t, x, s, Suppress([x EXCEPT !.unwatched = TRUE]))
         /\ t \in Messages => Carries(t, x, s, Suppress([x EXCEPT !.closed = TRUE]))
         /\ Suppress([x EXCEPT !.unwatched = TRUE]).renewals = x.renewals
         /\ Suppress([x EXCEPT !.closed = TRUE]).renewals = x.renewals
         /\ Carries(t, x, s, [x EXCEPT !.due = TRUE])
         /\ [x EXCEPT !.due = TRUE].box = x.box /\ [x EXCEPT !.due = TRUE].renewals = x.renewals
<1> DEFINE flag == TRUE
           u == [x EXCEPT !.unwatched = flag]
           c == [x EXCEPT !.closed = flag]
           d == [x EXCEPT !.due = flag]
           Same(y) == /\ y.turn = x.turn /\ y.intent = x.intent /\ y.status = x.status
                      /\ y.box = x.box /\ y.pending = x.pending /\ y.renewals = x.renewals
<1>1. x \in RecordType /\ flag \in BOOLEAN /\ flag
  BY DEF WellFormed
<1> HIDE DEF flag
<1>2. /\ u \in RecordType /\ u.closed = x.closed /\ Same(u)
      /\ c \in RecordType /\ c.closed = flag /\ Same(c)
      /\ d \in RecordType /\ d.closed = x.closed /\ Same(d)
  BY <1>1 DEF RecordType
<1> HIDE DEF u, c, d
<1>3. WellFormed(t, u) /\ WellFormed(t, d) /\ (t \in Messages => WellFormed(t, c))
  BY <1>1, <1>2 DEF WellFormed
<1>4. Passed(x.box, u.box) /\ Passed(x.box, c.box) /\ Passed(x.box, d.box)
  BY <1>2 DEF Passed, Passive
<1>5. Carries(t, x, s, u) /\ Carries(t, x, s, d) /\ (t \in Messages => Carries(t, x, s, c))
  BY <1>1, <1>2, <1>3, <1>4 DEF Carries, UnresolvedSend, Has
<1>6. /\ Carries(t, x, s, Suppress(u)) /\ Suppress(u).renewals = u.renewals
      /\ t \in Messages => Carries(t, x, s, Suppress(c))
  BY <1>5, SuppressedFacts
<1>7. Suppress(c).renewals = c.renewals
  BY <1>2 DEF Suppress, EachNote, RecordType
<1> QED
  BY <1>2, <1>5, <1>6, <1>7 DEF u, c, d, flag

\* One notification is exchanged.
LEMMA CellFacts ==
  ASSUME NEW t, NEW x, WellFormed(t, x), NEW i \in DOMAIN x.box, NEW n \in Notes,
         n.key = x.box[i].key, n.attempts <= Budget(n)
  PROVE  LET y == [x EXCEPT !.box[i] = n]
         IN /\ WellFormed(t, y) /\ OnlyBox(x, y) /\ DOMAIN y.box = DOMAIN x.box
            /\ y.box[i] = n /\ \A k \in DOMAIN x.box \ {i} : y.box[k] = x.box[k]
            /\ Passive(x.box[i], n) => \A s : Carries(t, x, s, y)
<1> DEFINE box == [x.box EXCEPT ![i] = n]
           y == [x EXCEPT !.box = box]
<1>1. x \in RecordType /\ x.box \in Seq(Notes) /\ Orderly(x.box)
  BY DEF WellFormed, RecordType
<1>2. /\ box \in [DOMAIN x.box -> Notes] /\ box[i] = n
      /\ \A k \in DOMAIN x.box \ {i} : box[k] = x.box[k]
  BY <1>1
<1> HIDE DEF box
<1>3. \A k \in DOMAIN x.box : box[k].key = x.box[k].key /\ box[k].attempts <= Budget(box[k])
  BY <1>1, <1>2 DEF Orderly
<1>4. WellFormed(t, y) /\ y.box = box /\ OnlyBox(x, y)
  BY <1>2, <1>3, MappedFacts
<1>5. ASSUME Passive(x.box[i], n), NEW s
      PROVE  Carries(t, x, s, y)
  <2>1. Passed(x.box, y.box)
    BY <1>2, <1>4, <1>5 DEF Passed, Passive
  <2>2. \A q \in Questions : Has(y, Asked(q)) => Has(x, Asked(q))
    BY <1>2, <1>3, <1>4 DEF Has
  <2> HIDE DEF y
  <2> QED
    BY <1>4, <2>1, <2>2, CarriesBox
<1>6. [x EXCEPT !.box[i] = n] = y
  BY DEF box
<1> HIDE DEF y
<1> QED
  BY <1>2, <1>4, <1>5, <1>6

\* An attempt that is granted stays within the budget.
LEMMA AuthorizeFacts ==
  ASSUME NEW n \in Notes, Retryable(n), n.attempts <= Budget(n)
  PROVE  /\ Authorize(n) \in Notes /\ Passive(n, Authorize(n)) /\ Authorize(n).key = n.key
         /\ Authorize(n).attempts <= Budget(Authorize(n))
<1> DEFINE granted == IF n.granted > n.attempts THEN n.granted ELSE n.attempts + 1
           a == [n EXCEPT !.granted = granted, !.status = "ready"]
<1>1. granted \in Nat /\ granted > n.attempts
  BY DEF Notes
<1>2. Authorize(n) = a
  BY DEF Authorize, Notes
<1> HIDE DEF granted
<1>3. /\ a \in Notes /\ a.key = n.key /\ a.attempts = n.attempts /\ a.granted = granted
      /\ a.status = "ready"
  BY <1>1 DEF Notes
<1> HIDE DEF a
<1>4. a.attempts <= Budget(a)
  BY <1>1, <1>3, NativeAssumption DEF Budget, Notes
<1>5. Passive(n, a)
  BY <1>3 DEF Passive, Unexposed, InFlight, Retryable
<1> QED
  BY <1>2, <1>3, <1>4, <1>5

\* A lease that runs out changes its notification passively.
LEMMA LapseFacts ==
  ASSUME NEW n \in Notes, n.status = "leased"
  PROVE  LET o == [n EXCEPT !.lapsed = TRUE]
         IN /\ o \in Notes /\ Passive(n, o) /\ o.key = n.key
            /\ n.attempts <= Budget(n) => o.attempts <= Budget(o)
<1> DEFINE flag == TRUE
           o == [n EXCEPT !.lapsed = flag]
<1>1. flag \in BOOLEAN
  OBVIOUS
<1> HIDE DEF flag
<1>2. /\ o \in Notes /\ o.key = n.key /\ o.attempts = n.attempts /\ o.granted = n.granted
      /\ o.status = n.status /\ o.outcome = n.outcome
  BY <1>1 DEF Notes
<1> HIDE DEF o
<1> QED
  BY <1>2 DEF Passive, Unexposed, InFlight, Budget, o, flag

\* A new record, of a reserved message or of a Watch.
LEMMA RecordFacts ==
  ASSUME NEW t \in Ids, NEW status \in Statuses, NEW intent \in Intents,
         NEW u \in Turns \cup {None}
  PROVE  LET x == Record(status, intent, u)
         IN /\ x \in RecordType /\ x.status = status /\ x.intent = intent /\ x.turn = u
            /\ x.renewals = 0 /\ ~x.closed /\ DOMAIN x.box = {} /\ x.pending = {}
            /\ t \in Messages /\ intent \in {"reserved", "not_sent"} /\ u = None
                 /\ status \notin {"watching", "completed"} => WellFormed(t, x)
            /\ t \in Watches /\ intent = "none" /\ u # None => WellFormed(t, x)
<1> DEFINE flag == FALSE
           zero == 0
           box == <<>>
           x == [status |-> status, intent |-> intent, turn |-> u, receipt |-> flag,
                 closed |-> flag, unwatched |-> flag, due |-> flag, renewals |-> zero,
                 pending |-> {}, box |-> box]
<1>1. /\ flag \in BOOLEAN /\ ~flag /\ zero \in 0 .. MaxTroubles /\ zero = 0
      /\ box \in Seq(Notes) /\ DOMAIN box = {} /\ Orderly(box)
  BY NativeAssumption DEF Orderly
<1>2. Record(status, intent, u) = x
  BY DEF Record
<1> HIDE DEF flag, zero, box
<1>3. /\ x \in RecordType /\ x.status = status /\ x.intent = intent /\ x.turn = u
      /\ x.renewals = zero /\ x.closed = flag /\ x.box = box /\ x.pending = {}
  BY <1>1 DEF RecordType
<1> HIDE DEF x
<1>4. t \in Messages => t \notin Watches
  BY NativeAssumption
<1>5. t \in Messages /\ intent \in {"reserved", "not_sent"} /\ u = None
        /\ status \notin {"watching", "completed"} => WellFormed(t, x)
  BY <1>1, <1>3, <1>4 DEF WellFormed
<1>6. t \in Watches /\ intent = "none" /\ u # None => WellFormed(t, x)
  BY <1>1, <1>3, <1>4 DEF WellFormed
<1> QED
  BY <1>1, <1>2, <1>3, <1>5, <1>6

\* What the answer to a submission changes.
LEMMA SubmittedFacts ==
  ASSUME NEW t \in Messages, NEW x, WellFormed(t, x),
         NEW outcome \in {"receipt", "not_sent", "unknown"}
  PROVE  LET y == Submitted(x, outcome)
         IN /\ WellFormed(t, y) /\ Passed(x.box, y.box) /\ y.turn = x.turn
            /\ y.pending = x.pending /\ y.renewals = x.renewals
            /\ \A q \in Questions : Has(y, Asked(q)) => Has(x, Asked(q))
            /\ y.intent = "not_sent" => x.intent = "not_sent" \/ outcome = "not_sent"
            /\ UnresolvedSend(y) => UnresolvedSend(x) \/ x.intent = "not_sent"
<1> DEFINE y == Submitted(x, outcome)
           Good(z) == /\ WellFormed(t, z) /\ z.turn = x.turn /\ z.pending = x.pending
                      /\ z.renewals = x.renewals /\ z.closed = x.closed
                      /\ z.intent = "not_sent" => x.intent = "not_sent" \/ outcome = "not_sent"
                      /\ z.intent = "uncertain" /\ z.turn = None =>
                           x.intent \in {"reserved", "uncertain", "not_sent"}
                      /\ z.intent = "reserved" => x.intent = "reserved"
<1>1. x \in RecordType /\ t \notin Watches
  BY NativeAssumption DEF WellFormed
<1>2. x.turn = None => x.intent \in {"reserved", "uncertain", "not_sent"}
  BY <1>1 DEF WellFormed, RecordType, Intents, Ids
<1>3. \A z : Good(z) => (UnresolvedSend(z) => UnresolvedSend(x) \/ x.intent = "not_sent")
  BY DEF UnresolvedSend
<1>4. ASSUME NEW flag \in BOOLEAN, NEW intent \in Intents \ {"none", "reserved"},
             x.turn # None => intent = "accepted", x.turn = None => intent # "accepted",
             intent = "not_sent" => outcome = "not_sent"
      PROVE  LET z == [x EXCEPT !.receipt = flag, !.intent = intent]
             IN Good(z) /\ z.box = x.box /\ z.status = x.status
  <2> DEFINE z == [x EXCEPT !.receipt = flag, !.intent = intent]
  <2>1. /\ z \in RecordType /\ z.turn = x.turn /\ z.pending = x.pending /\ z.box = x.box
        /\ z.renewals = x.renewals /\ z.closed = x.closed /\ z.status = x.status
        /\ z.intent = intent
    BY <1>1, <1>4 DEF RecordType
  <2> HIDE DEF z
  <2>2. WellFormed(t, z)
    BY <1>1, <1>4, <2>1 DEF WellFormed
  <2> QED
    BY <1>2, <1>4, <2>1, <2>2 DEF z
<1>5. \A z : z.box = x.box => Passed(x.box, z.box) /\ \A q : Has(z, Asked(q)) => Has(x, Asked(q))
  BY DEF Passed, Passive, Has
<1>6. CASE outcome = "receipt"
  <2> DEFINE flag == TRUE
             intent == IF x.turn # None THEN "accepted" ELSE "uncertain"
             z == [x EXCEPT !.receipt = flag, !.intent = intent]
  <2>1. y = z
    BY <1>6 DEF Submitted
  <2>2. /\ flag \in BOOLEAN /\ intent \in Intents \ {"none", "reserved"} /\ intent # "not_sent"
        /\ x.turn # None => intent = "accepted"
        /\ x.turn = None => intent # "accepted"
    BY DEF Intents
  <2> HIDE DEF flag, intent
  <2>3. Good(z) /\ z.box = x.box
    BY <1>4, <2>2
  <2> HIDE DEF z
  <2> QED
    BY <1>3, <1>5, <2>1, <2>3
<1>7. CASE outcome # "receipt" /\ x.turn # None
  <2>1. y = x
    BY <1>7 DEF Submitted
  <2> QED
    BY <1>5, <2>1
<1>8. CASE outcome = "unknown" /\ x.turn = None
  <2> DEFINE intent == "uncertain"
             z == [x EXCEPT !.receipt = x.receipt, !.intent = intent]
  <2>1. y = [x EXCEPT !.intent = intent]
    BY <1>8 DEF Submitted
  <2>2. y = z
    BY <1>1, <2>1 DEF RecordType
  <2>3. x.receipt \in BOOLEAN /\ intent \in Intents \ {"none", "reserved"}
        /\ intent \notin {"accepted", "not_sent"}
    BY <1>1 DEF Intents, RecordType
  <2> HIDE DEF intent
  <2>4. Good(z) /\ z.box = x.box
    BY <1>4, <1>8, <2>3
  <2> HIDE DEF z
  <2> QED
    BY <1>3, <1>5, <2>2, <2>4
<1>9. CASE outcome = "not_sent" /\ x.turn = None
  <2> DEFINE intent == "not_sent"
             z == [x EXCEPT !.receipt = x.receipt, !.intent = intent]
             status == "failed"
             w == [z EXCEPT !.status = status]
             keys == {[kind |-> "settled"]}
             v == Notify(w, keys)
  <2>1. [x EXCEPT !.intent = intent] = z
    BY <1>1 DEF RecordType
  <2>2. y = IF Live(x) THEN v ELSE z
    BY <1>9, <2>1 DEF Submitted
  <2>3. x.receipt \in BOOLEAN /\ intent \in Intents \ {"none", "reserved"} /\ intent # "accepted"
    BY <1>1 DEF Intents, RecordType
  <2> HIDE DEF intent
  <2>4. Good(z) /\ z.box = x.box
    BY <1>4, <1>9, <2>3
  <2> HIDE DEF z
  <2>5. status \in Statuses /\ status \notin {"watching", "completed"}
    BY DEF Statuses
  <2> HIDE DEF status
  <2>6. Carries(t, z, Unavailable, w) /\ w.renewals = z.renewals /\ w.turn = z.turn
        /\ w.pending = z.pending /\ w.box = z.box /\ w.intent = z.intent
    BY <2>4, <2>5, StatusFacts
  <2>7. WellFormed(t, w)
    BY <2>6 DEF Carries
  <2>8. /\ keys \in SUBSET Keys /\ IsFiniteSet(keys) /\ \A q : Asked(q) \notin keys
    BY <2>7, OtherKeys DEF WellFormed
  <2> HIDE DEF keys, w
  <2>9. /\ WellFormed(t, v) /\ OnlyBox(w, v) /\ Passed(w.box, v.box)
        /\ \A k : Has(v, k) => Has(w, k) \/ k \in keys
    BY <2>7, <2>8, NotifyFacts
  <2> HIDE DEF v
  <2>10. v.turn = x.turn /\ v.pending = x.pending /\ v.renewals = x.renewals
         /\ Passed(x.box, v.box) /\ v.intent = z.intent
    BY <2>4, <2>6, <2>9 DEF OnlyBox
  <2>11. \A q \in Questions : Has(v, Asked(q)) => Has(x, Asked(q))
    BY <1>5, <2>4, <2>6, <2>8, <2>9
  <2>12. UnresolvedSend(v) => UnresolvedSend(x) \/ x.intent = "not_sent"
    BY <2>3, <2>4, <2>6, <2>9 DEF UnresolvedSend, OnlyBox, Carries
  <2>13. CASE Live(x)
    BY <1>9, <2>2, <2>9, <2>10, <2>11, <2>12, <2>13
  <2>14. CASE ~Live(x)
    BY <1>3, <1>5, <2>2, <2>4, <2>14
  <2> QED
    BY <2>13, <2>14
<1> QED
  BY <1>6, <1>7, <1>8, <1>9

-----------------------------------------------------------------------------
(* ------------------------- saves and other steps --------------------- *)

\* The program counters are disjoint where the proofs need it.
LEMMA NotIdle ==
  /\ "idle" \notin Sending /\ "idle" \notin Calls /\ "idle" \in Pcs
  /\ "observed" \notin Sending /\ "observed" \notin Calls /\ "observed" \in Pcs
  /\ \A pc \in {"preflight", "settle", "reconcile", "deliver"} :
       pc \in Pcs /\ pc \notin Sending /\ pc \notin Calls /\ pc \notin {"idle", "observed"}
  /\ Sending \cap Calls = {} /\ Sending \subseteq Pcs /\ Calls \subseteq Pcs
  BY DEF Sending, Calls, Pcs

\* Process r goes on unaware of a save of task t, or learns that it is late.
Others(r, t) ==
  /\ job'[r].pc = job[r].pc
  /\ job[r].pc # "idle" => job'[r].id = job[r].id
  /\ job'[r] = job[r] \/
       /\ job[r].pc = "observed" /\ job[r].id = t
       /\ job'[r].fresh = FALSE /\ job'[r].snap = Unavailable
       /\ job'[r].why = job[r].why /\ job'[r] \in ObservedType
  /\ job[r].pc = "observed" /\ job[r].id = t => job'[r].fresh = FALSE

\* What a save does to the records and to the other processes.
LEMMA SaveFacts ==
  ASSUME TypeInv, NEW p \in Procs, NEW t \in Ids, NEW x, NEW after, SaveBy(p, t, x, after)
  PROVE  /\ DOMAIN task' = Ids /\ task'[t] = x /\ \A u \in Ids \ {t} : task'[u] = task[u]
         /\ DOMAIN job' = Procs /\ job'[p] = after
         /\ \A r \in Procs \ {p} : Others(r, t)
<1>1. DOMAIN task = Ids /\ DOMAIN job = Procs /\ \A r \in Procs : JobOK(r)
  BY DEF TypeInv
<1>2. /\ DOMAIN task' = Ids /\ task'[t] = x /\ \A u \in Ids \ {t} : task'[u] = task[u]
      /\ DOMAIN job' = Procs /\ job'[p] = after
  BY <1>1 DEF SaveBy
<1>3. ASSUME NEW r \in Procs \ {p}
      PROVE  Others(r, t)
  <2>1. CASE job[r].pc = "observed" /\ job[r].id = t
    <3>1. job[r] \in ObservedType
      BY <1>1, <2>1 DEF JobOK
    <3> DEFINE flag == FALSE
               o == [job[r] EXCEPT !.fresh = flag, !.snap = Unavailable]
    <3>2. job'[r] = o
      BY <2>1 DEF SaveBy
    <3>3. flag \in BOOLEAN /\ Unavailable \in Snaps /\ flag = FALSE
      BY DEF Snaps
    <3> HIDE DEF flag
    <3>4. /\ o \in ObservedType /\ o.pc = job[r].pc /\ o.id = job[r].id /\ o.fresh = flag
          /\ o.snap = Unavailable /\ o.why = job[r].why
      BY <3>1, <3>3 DEF ObservedType
    <3> QED
      BY <2>1, <3>2, <3>3, <3>4 DEF Others
  <2>2. CASE ~(job[r].pc = "observed" /\ job[r].id = t)
    <3>1. job'[r] = job[r]
      BY <2>2 DEF SaveBy
    <3> QED
      BY <2>2, <3>1 DEF Others
  <2> QED
    BY <2>1, <2>2
<1> QED
  BY <1>2, <1>3

\* A process that is where it was, and its record as it was.
LEMMA JobStays ==
  ASSUME NEW r, JobOK(r), job'[r] = job[r], task' = task
  PROVE  JobOK(r)'
  BY DEF JobOK, Stored, Refused, Retryable

\* What a step does that saves nothing.
LEMMA GotoFacts ==
  ASSUME TypeInv, NEW p \in Procs, NEW after, Goto(p, after)
  PROVE  /\ task' = task /\ DOMAIN job' = Procs /\ job'[p] = after
         /\ \A r \in Procs \ {p} : job'[r] = job[r]
  BY DEF TypeInv, Goto

\* A record is not absent.
LEMMA NotAbsent ==
  ASSUME NEW t, NEW x, WellFormed(t, x) PROVE x # Absent
  BY DEF WellFormed, RecordType, Statuses, Absent

\* A save of a well-formed record keeps the types.
LEMMA SaveType ==
  ASSUME TypeInv, NEW p \in Procs, NEW t \in Ids, NEW x, NEW after, SaveBy(p, t, x, after),
         UNCHANGED native, WellFormed(t, x), Stored(t) => Keyed(task[t].box, x.box), JobOK(p)',
         heard' \in [Notices -> Nat], exposed' \subseteq Notices, troubles' \in 0 .. MaxTroubles
  PROVE  TypeInv'
<1>1. /\ DOMAIN task' = Ids /\ task'[t] = x /\ \A u \in Ids \ {t} : task'[u] = task[u]
      /\ DOMAIN job' = Procs /\ job'[p] = after
      /\ \A r \in Procs \ {p} : Others(r, t)
  BY SaveFacts
<1>2. x # Absent
  BY NotAbsent
<1>3. \A u \in Ids : Stored(u)' => WellFormed(u, task'[u])
  BY <1>1 DEF TypeInv, Stored
<1>4. \A u \in Ids : Stored(u) => Stored(u)' /\ Keyed(task[u].box, task'[u].box)
  BY <1>1, <1>2 DEF Stored, Keyed
<1>5. ASSUME NEW r \in Procs \ {p}
      PROVE  JobOK(r)'
  <2>1. JobOK(r) /\ Others(r, t)
    BY <1>1 DEF TypeInv
  <2>2. CASE job'[r] = job[r]
    <3>1. job[r].pc # "idle" => job[r].id \in Ids
      BY <2>1 DEF JobOK
    <3>2. job[r].pc \in Calls => job[r].note \in DOMAIN task'[job[r].id].box
      BY <1>4, <2>1, <3>1, NotIdle DEF JobOK, Keyed
    <3>3. job[r].pc = "observed" /\ job[r].why = "retry" /\ job[r].fresh =>
            Refused(task'[job[r].id], job[r].only)
      BY <1>1, <2>1, <2>2, <3>1, NotIdle DEF JobOK, Others
    <3>4. job[r].pc \notin {"idle", "preflight"} /\ ~(job[r].pc = "observed" /\ job[r].why = "watch")
            => task'[job[r].id] # Absent
      BY <1>4, <2>1, <3>1 DEF JobOK, Stored
    <3> QED
      BY <2>1, <2>2, <3>2, <3>3, <3>4 DEF JobOK, Stored
  <2>3. CASE job'[r] # job[r]
    <3>1. /\ job[r].pc = "observed" /\ job'[r].pc = "observed" /\ job'[r].fresh = FALSE
          /\ job'[r].id = t /\ job'[r] \in ObservedType
      BY <2>1, <2>3 DEF Others
    <3>2. Stored(t)'
      BY <1>1, <1>2 DEF Stored
    <3> QED
      BY <3>1, <3>2, NotIdle DEF JobOK
  <2> QED
    BY <2>2, <2>3
<1>6. \A r \in Procs : JobOK(r)'
  BY <1>5
<1> QED
  BY <1>1, <1>3, <1>6 DEF TypeInv, native

\* A save of a record whose turn has begun keeps what is known of the turns.
LEMMA SaveTurn ==
  ASSUME TypeInv, TurnInv, NEW p \in Procs, NEW t \in Ids, NEW x, NEW after,
         SaveBy(p, t, x, after), UNCHANGED native,
         x.turn # None => turn[x.turn] # "none" /\ (t \in Messages => starts[t] > 0)
  PROVE  TurnInv'
<1>1. task'[t] = x /\ \A u \in Ids \ {t} : task'[u] = task[u]
  BY SaveFacts
<1> QED
  BY <1>1 DEF TurnInv, native, Running, Pending, Stored

\* A save keeps what is known of the sends, if it respects those under way.
LEMMA SaveSend ==
  ASSUME TypeInv, SendInv, NEW p \in Procs, NEW t \in Ids, NEW x, NEW after,
         SaveBy(p, t, x, after), UNCHANGED native, x # Absent,
         t \in Messages /\ x.intent = "not_sent" =>
           ~Sent(t) /\ \A r \in Procs \ {p} : job[r].pc \in Sending => job[r].id # t,
         after.pc \in Sending =>
           /\ after.id = t /\ t \in Messages /\ x.intent # "not_sent"
           /\ \A r \in Procs \ {p} : job[r].pc \in Sending => job[r].id # t
           /\ after.pc \in {"start", "dispatch"} => ~Sent(t)
           /\ after.pc = "result" /\ after.outcome = "not_sent" => ~Sent(t),
         t \in Messages /\ UnresolvedSend(x) /\ Engaged(t)' =>
           \/ Stored(t) /\ UnresolvedSend(task[t]) /\ Engaged(t)
           \/ \A n \in Messages \ {t} : ~(Stored(n) /\ UnresolvedSend(task[n]))
  PROVE  SendInv'
<1>1. /\ task'[t] = x /\ \A u \in Ids \ {t} : task'[u] = task[u] /\ (Stored(u)' <=> Stored(u))
      /\ job'[p] = after /\ \A r \in Procs \ {p} : Others(r, t)
  BY SaveFacts DEF Stored
<1>2. Stored(t)'
  BY <1>1 DEF Stored
<1>3. \A r \in Procs \ {p} :
        /\ job'[r].pc = job[r].pc
        /\ job[r].pc \in Sending => job'[r] = job[r] /\ job[r].id \in Messages
  BY <1>1, NotIdle DEF Others, TypeInv, JobOK
<1>4. \A m \in Messages : Sent(m)' <=> Sent(m)
  BY DEF Sent, native
<1>5. wire' = wire /\ starts' = starts
  BY DEF native
<1>6. \A m \in Messages : m \in Ids
  BY DEF Ids
<1>7. ASSUME NEW m \in Messages
      PROVE  /\ starts'[m] + (IF m \in wire' THEN 1 ELSE 0) <= 1
             /\ Sent(m)' => Stored(m)'
             /\ Stored(m)' /\ task'[m].intent = "not_sent" => ~Sent(m)'
  BY <1>1, <1>2, <1>4, <1>5, <1>6 DEF SendInv
<1>8. ASSUME NEW r \in Procs, NEW m, job'[r].pc \in Sending, job'[r].id = m
      PROVE  /\ m \in Messages /\ task'[m].intent # "not_sent"
             /\ job'[r].pc \in {"start", "dispatch"} => ~Sent(m)
             /\ job'[r].pc = "result" /\ job'[r].outcome = "not_sent" => ~Sent(m)
  <2>1. CASE r = p
    BY <1>1, <1>8, <2>1
  <2>2. CASE r # p
    <3>1. job[r].pc \in Sending /\ job'[r] = job[r] /\ m \in Messages /\ job[r].id = m
      BY <1>3, <1>8, <2>2
    <3>2. /\ task[m].intent # "not_sent"
          /\ job'[r].pc \in {"start", "dispatch"} => ~Sent(m)
          /\ job'[r].pc = "result" /\ job'[r].outcome = "not_sent" => ~Sent(m)
      BY <3>1 DEF SendInv
    <3>3. CASE m = t
      BY <1>1, <2>2, <3>1, <3>2, <3>3
    <3>4. CASE m # t
      BY <1>1, <1>6, <3>1, <3>2, <3>4
    <3> QED
      BY <3>3, <3>4
  <2> QED
    BY <2>1, <2>2
<1>9. ASSUME NEW r \in Procs, NEW q \in Procs,
             job'[r].pc \in Sending, job'[q].pc \in Sending, job'[r].id = job'[q].id
      PROVE  r = q
  BY <1>1, <1>3, <1>9 DEF SendInv
<1>10. ASSUME NEW n \in Messages \ {t}, Engaged(n)'
       PROVE  Engaged(n)
  <2>1. \A pc : pc \in {"start", "dispatch", "wait"} => pc \in Sending
    BY DEF Sending
  <2> QED
    BY <1>1, <1>3, <1>4, <1>10, <2>1 DEF Engaged
<1>11. ASSUME NEW m \in Messages, NEW n \in Messages,
              Engaged(m)', Stored(m)', UnresolvedSend(task'[m]),
              Engaged(n)', Stored(n)', UnresolvedSend(task'[n])
       PROVE  m = n
  <2>1. ASSUME NEW k \in Messages \ {t}, Engaged(k)', Stored(k)', UnresolvedSend(task'[k])
        PROVE  Engaged(k) /\ Stored(k) /\ UnresolvedSend(task[k])
    BY <1>1, <1>6, <1>10, <2>1
  <2>2. CASE m # t /\ n # t
    BY <1>11, <2>1, <2>2 DEF SendInv
  <2>3. CASE m = t /\ n # t
    BY <1>1, <1>11, <2>1, <2>3 DEF SendInv
  <2>4. CASE m # t /\ n = t
    BY <1>1, <1>11, <2>1, <2>4 DEF SendInv
  <2> QED
    BY <2>2, <2>3, <2>4
<1>12. ASSUME NEW r \in Procs, job'[r].pc \in Sending
       PROVE  /\ task'[job'[r].id].intent # "not_sent"
              /\ job'[r].pc \in {"start", "dispatch"} => ~Sent(job[r].id)'
              /\ job'[r].pc = "result" /\ job'[r].outcome = "not_sent" => ~Sent(job[r].id)'
  <2> DEFINE m == job'[r].id
  <2>1. /\ m \in Messages /\ task'[m].intent # "not_sent"
        /\ job'[r].pc \in {"start", "dispatch"} => ~Sent(m)
        /\ job'[r].pc = "result" /\ job'[r].outcome = "not_sent" => ~Sent(m)
    BY <1>8, <1>12
  <2> QED
    BY <1>5, <2>1 DEF Sent
<1> QED
  BY <1>7, <1>9, <1>11, <1>12 DEF SendInv

\* A save keeps the Watches that are being created and the count of the renewals.
LEMMA SaveWatch ==
  ASSUME TypeInv, WatchInv, RenewInv, NEW p \in Procs, NEW t \in Ids, NEW x, NEW after,
         SaveBy(p, t, x, after), after.pc # "observed",
         after.pc # "idle" => after.id = t,
         t \in Messages \/ Stored(t) \/
           (\A r \in Procs \ {p} : job[r].pc # "idle" => job[r].id # t),
         x.renewals <= troubles', troubles' >= troubles, troubles' \in Nat
  PROVE  WatchInv' /\ RenewInv'
<1>1. /\ task'[t] = x /\ \A u \in Ids \ {t} : task'[u] = task[u]
      /\ job'[p] = after /\ \A r \in Procs \ {p} : Others(r, t)
  BY SaveFacts
<1>2. \A r \in Procs : job[r].pc # "idle" => job[r].id \in Ids
  BY DEF TypeInv, JobOK
<1>3. WatchInv'
  <2> SUFFICES ASSUME NEW r \in Procs, job'[r].pc = "observed", job'[r].why = "watch"
               PROVE  /\ job'[r].id \in Watches /\ task'[job'[r].id] = Absent /\ job'[r].fresh
                      /\ job'[r].snap # Unavailable /\ job'[r].snap.bind # None
                      /\ \A q \in Procs \ {r} : job'[q].pc # "idle" => job'[q].id # job'[r].id
    BY DEF WatchInv, Stored, Unavailable
  <2>1. r # p /\ job[r].pc = "observed" /\ job[r].why = "watch" /\ job'[r].id = job[r].id
    BY <1>1 DEF Others
  <2>2. /\ job[r].id \in Watches /\ task[job[r].id] = Absent /\ job[r].fresh
        /\ job[r].snap # Unavailable /\ job[r].snap.bind # None
        /\ \A q \in Procs \ {r} : job[q].pc # "idle" => job[q].id # job[r].id
    BY <2>1 DEF WatchInv, Stored
  <2>3. job[r].id # t
    BY <2>1, <2>2, NativeAssumption DEF Stored
  <2>4. job'[r] = job[r]
    BY <1>1, <2>1, <2>3 DEF Others
  <2>5. task'[job[r].id] = Absent
    BY <1>1, <1>2, <2>1, <2>2, <2>3
  <2>6. ASSUME NEW q \in Procs \ {r}, job'[q].pc # "idle"
        PROVE  job'[q].id # job[r].id
    <3>1. CASE q = p
      BY <1>1, <2>3, <2>6, <3>1
    <3>2. CASE q # p
      BY <1>1, <2>2, <2>6, <3>2 DEF Others
    <3> QED
      BY <3>1, <3>2
  <2> QED
    BY <2>2, <2>4, <2>5, <2>6
<1>4. RenewInv'
  <2>1. ASSUME NEW u \in Ids, Stored(u)'
        PROVE  task'[u].renewals <= troubles'
    <3>1. CASE u = t
      BY <1>1, <3>1
    <3>2. CASE u # t
      <4>1. Stored(u) /\ task'[u] = task[u] /\ WellFormed(u, task[u])
        BY <1>1, <2>1, <3>2 DEF Stored, TypeInv
      <4>2. task[u].renewals \in Nat /\ troubles \in Nat
        BY <4>1 DEF TypeInv, WellFormed, RecordType
      <4> QED
        BY <4>1, <4>2 DEF RenewInv
    <3> QED
      BY <3>1, <3>2
  <2>2. ASSUME NEW r \in Procs, job'[r].pc = "observed", job'[r].why = "renew", job'[r].fresh
        PROVE  task'[job'[r].id].renewals < troubles'
    <3>1. r # p /\ Others(r, t) /\ job[r].pc = "observed"
      BY <1>1, <2>2 DEF Others
    <3>2. job[r].id # t
      BY <2>2, <3>1 DEF Others
    <3>3. job'[r] = job[r]
      BY <3>1, <3>2 DEF Others
    <3>4. job[r].id \in Ids /\ task'[job[r].id] = task[job[r].id] /\ Stored(job[r].id)
      BY <1>1, <1>2, <2>2, <3>1, <3>2, <3>3 DEF TypeInv, JobOK
    <3>5. task[job[r].id].renewals \in Nat /\ troubles \in Nat
      BY <3>4 DEF TypeInv, WellFormed, RecordType
    <3>6. task[job[r].id].renewals < troubles
      BY <2>2, <3>3 DEF RenewInv
    <3> QED
      BY <3>3, <3>4, <3>5, <3>6
  <2> QED
    BY <2>1, <2>2 DEF RenewInv
<1> QED
  BY <1>3, <1>4

\* A save of a record that announced what was asked keeps what is known of it.
LEMMA SaveAsk ==
  ASSUME TypeInv, AskInv, NEW p \in Procs, NEW t \in Ids, NEW x, NEW after,
         SaveBy(p, t, x, after), UNCHANGED native, after.pc # "observed", Announced(x)
  PROVE  AskInv'
<1>1. /\ task'[t] = x /\ \A u \in Ids \ {t} : task'[u] = task[u]
      /\ job'[p] = after /\ \A r \in Procs \ {p} : Others(r, t)
  BY SaveFacts
<1>2. turn' = turn /\ asking' = asking /\ starts' = starts
  BY DEF native
<1>3. ASSUME NEW u \in Ids, Stored(u)'
      PROVE  Announced(task[u])' 
  <2> DEFINE y == task'[u]
  <2>1. Announced(y)
    BY <1>1, <1>3 DEF AskInv, Stored
  <2> HIDE DEF y
  <2>2. \A q \in Questions : Has(y, Asked(q)) =>
          /\ asking'[q] # "unasked"
          /\ q \notin y.pending => asking'[q] = "done"
          /\ asking'[q] = "open" => y.turn # None /\ y.turn \in {v \in Turns : turn'[v] = "running"}
    BY <1>2, <2>1 DEF Announced, Running
  <2> QED
    BY <2>2 DEF Announced, Running, y, Has, Asked
<1>4. ASSUME NEW r \in Procs, job'[r].pc = "observed"
      PROVE  /\ Seen(job[r].id, job[r].snap)'
             /\ job'[r].fresh /\ job'[r].why # "watch" => Fits(task[job[r].id], job[r].snap)'
  <2>1. r # p /\ Others(r, t) /\ job[r].pc = "observed"
    BY <1>1, <1>4 DEF Others
  <2>2. CASE job'[r] # job[r]
    <3>1. job'[r].snap = Unavailable /\ ~job'[r].fresh
      BY <2>1, <2>2 DEF Others
    <3> QED
      BY <3>1 DEF Seen, Unavailable
  <2>3. CASE job'[r] = job[r]
    <3> DEFINE k == job[r].id
               s == job[r].snap
               y == task[k]
    <3>1. Seen(k, s) /\ (job[r].fresh /\ job[r].why # "watch" => Fits(y, s)) /\ k \in Ids
      BY <2>1 DEF AskInv, TypeInv, JobOK
    <3>2. job'[r].fresh => k # t
      BY <2>1, <2>3 DEF Others
    <3>3. job'[r].fresh => task'[k] = y
      BY <1>1, <3>1, <3>2
    <3> HIDE DEF k, s, y
    <3>4. s # Unavailable =>
            /\ s.bind # None => turn'[s.bind] # "none" /\ (k \in Messages => starts'[k] > 0)
            /\ \A q \in s.pending :
                 asking'[q] # "unasked" /\ (asking'[q] = "open" => s.bind \in {v \in Turns : turn'[v] = "running"})
      BY <1>2, <3>1 DEF Seen, Running
    <3>5. Seen(job[r].id, job[r].snap)'
      BY <2>3, <3>4 DEF Seen, Running, Unavailable, k, s
    <3>6. ASSUME job'[r].fresh, job'[r].why # "watch"
          PROVE  Fits(task[job[r].id], job[r].snap)'
      <4>1. Fits(y, s) /\ task'[k] = y /\ job'[r].id = k /\ job'[r].snap = s
        BY <2>3, <3>1, <3>3, <3>6 DEF k, s
      <4>2. s # Unavailable =>
              /\ y.turn # None => s.bind = y.turn
              /\ \A q \in Questions : Has(y, Asked(q)) =>
                   IF q \in s.pending THEN q \in y.pending ELSE asking'[q] = "done"
        BY <1>2, <4>1 DEF Fits
      <4> QED
        BY <4>1, <4>2 DEF Fits, Unavailable, Has, Asked
    <3> QED
      BY <3>5, <3>6
  <2> QED
    BY <2>2, <2>3
<1> QED
  BY <1>3, <1>4 DEF AskInv

\* A save that delivers nothing.
LEMMA SaveOutbox ==
  ASSUME TypeInv, OutboxInv, NEW p \in Procs, NEW t \in Ids, NEW x, NEW after,
         SaveBy(p, t, x, after), UNCHANGED <<heard, exposed>>, WellFormed(t, x),
         after.pc \notin Calls,
         Stored(t) => Passed(task[t].box, x.box),
         ~Stored(t) => \A i \in DOMAIN x.box : x.box[i].status # "accepted"
  PROVE  OutboxInv'
<1>1. /\ task'[t] = x /\ \A u \in Ids \ {t} : task'[u] = task[u]
      /\ job'[p] = after /\ \A r \in Procs \ {p} : Others(r, t)
  BY SaveFacts
<1>2. x # Absent
  BY NotAbsent
<1>3. \A r \in Procs : job'[r].pc \in Calls => r # p /\ job'[r] = job[r]
  BY <1>1, NotIdle DEF Others
<1>4. ASSUME NEW c \in exposed
      PROVE  Stored(c[1])' /\ Has(task'[c[1]], c[2])
  <2>1. c[1] \in Ids /\ Stored(c[1]) /\ Has(task[c[1]], c[2])
    BY <1>4 DEF OutboxInv, TypeInv, Notices
  <2> QED
    BY <1>1, <1>2, <2>1 DEF Stored, Has, Passed, Passive
<1>5. ASSUME NEW i \in DOMAIN x.box
      PROVE  /\ Unexposed(x.box[i]) => <<t, x.box[i].key>> \notin exposed
             /\ x.box[i].status = "accepted" => heard[<<t, x.box[i].key>>] = 1
  <2>1. CASE Stored(t) /\ i \in DOMAIN task[t].box
    <3>1. Passive(task[t].box[i], x.box[i]) /\ BoxOK(t, task[t].box)
      BY <2>1 DEF Passed, OutboxInv
    <3>2. /\ Unexposed(task[t].box[i]) => <<t, task[t].box[i].key>> \notin exposed
          /\ task[t].box[i].status = "accepted" => heard[<<t, task[t].box[i].key>>] = 1
      BY <2>1, <3>1 DEF BoxOK
    <3> QED
      BY <3>1, <3>2 DEF Passive
  <2>2. CASE ~(Stored(t) /\ i \in DOMAIN task[t].box)
    <3>1. x.box[i].status # "accepted"
      BY <2>2 DEF Passed
    <3>2. ~(Stored(t) /\ Has(task[t], x.box[i].key))
      BY <2>2 DEF Has, Passed, Passive, WellFormed, Orderly
    <3>3. <<t, x.box[i].key>> \notin exposed
      BY <3>2 DEF OutboxInv
    <3> QED
      BY <3>1, <3>3
  <2> QED
    BY <2>1, <2>2
<1>6. ASSUME NEW u \in Ids, Stored(u)'
      PROVE  BoxOK(u, task[u].box)'
  <2>1. CASE u = t
    BY <1>1, <1>5, <2>1 DEF BoxOK
  <2>2. CASE u # t
    <3> DEFINE box == task[u].box
    <3>1. task'[u].box = box /\ BoxOK(u, box)
      BY <1>1, <1>6, <2>2 DEF OutboxInv, Stored
    <3> HIDE DEF box
    <3> QED
      BY <3>1 DEF BoxOK
  <2> QED
    BY <2>1, <2>2
<1>7. ASSUME NEW r \in Procs, job'[r].pc \in Calls
      PROVE  CallOK(r)'
  <2> DEFINE j == job[r]
             n == task[j.id].box[j.note]
             o == task'[j.id].box[j.note]
  <2>1. r # p /\ job'[r] = j /\ j.pc \in Calls
    BY <1>3, <1>7
  <2>2. CallOK(r) /\ JobOK(r)
    BY <2>1 DEF OutboxInv, TypeInv
  <2>3. j.id \in Ids /\ Stored(j.id) /\ j.note \in DOMAIN task[j.id].box
    BY <2>1, <2>2, NotIdle DEF JobOK
  <2>4. Passive(n, o)
    <3>1. CASE j.id = t
      BY <1>1, <2>3, <3>1 DEF Passed
    <3>2. CASE j.id # t
      BY <1>1, <2>3, <3>2 DEF Passive
    <3> QED
      BY <3>1, <3>2
  <2>5. Notice(r)' = <<j.id, o.key>> /\ Notice(r) = <<j.id, n.key>>
    BY <2>1 DEF Notice
  <2>6. /\ n.attempts = j.attempt
        /\ IF j.pc = "reported" THEN n.status = "accepted" ELSE InFlight(n)
        /\ j.pc = "claimed" => Notice(r) \notin exposed
        /\ j.pc = "calling" => Notice(r) \in exposed /\ heard[Notice(r)] = 0
        /\ j.pc \in {"reached", "reported"} => heard[Notice(r)] = 1
    BY <2>2 DEF CallOK
  <2>7. Notice(r)' = Notice(r) /\ o.attempts = n.attempts
        /\ (o.status = "accepted" <=> n.status = "accepted") /\ (InFlight(n) => InFlight(o))
    BY <2>4, <2>5 DEF Passive
  <2>8. /\ o.attempts = j.attempt
        /\ IF j.pc = "reported" THEN o.status = "accepted" ELSE InFlight(o)
        /\ j.pc = "claimed" => Notice(r)' \notin exposed
        /\ j.pc = "calling" => Notice(r)' \in exposed /\ heard[Notice(r)'] = 0
        /\ j.pc \in {"reached", "reported"} => heard[Notice(r)'] = 1
    BY <2>6, <2>7
  <2>9. task'[job'[r].id].box[job'[r].note] = o
    BY <2>1
  <2> HIDE DEF o, n, j
  <2> QED
    BY <2>1, <2>8, <2>9 DEF CallOK, InFlight
<1>8. ASSUME NEW r \in Procs, NEW q \in Procs, job'[r].pc \in Calls, job'[q].pc \in Calls,
             job'[r].id = job'[q].id, job'[r].note = job'[q].note
      PROVE  r = q
  BY <1>3, <1>8 DEF OutboxInv
<1> QED
  BY <1>4, <1>6, <1>7, <1>8 DEF OutboxInv

-----------------------------------------------------------------------------
(* ------------------ what a step shows to the outside ------------------ *)

\* What is recorded with one of the given statuses, before and after a step.
LEMMA RecordedFacts ==
  ASSUME NEW S
  PROVE  /\ \A c : c \in Recorded(S) <=>
              \E t \in Ids : Stored(t) /\ \E i \in DOMAIN task[t].box :
                task[t].box[i].status \in S /\ c = <<t, task[t].box[i].key>>
         /\ \A c : c \in Recorded(S)' <=>
              \E t \in Ids : task'[t] # Absent /\ \E i \in DOMAIN task'[t].box :
                task'[t].box[i].status \in S /\ c = <<t, task'[t].box[i].key>>
  BY DEF Recorded, Stored

\* Notifications stay recorded, and nothing becomes known of a delivery.
Noted(box, later) ==
  /\ \A i \in DOMAIN box :
       /\ i \in DOMAIN later /\ later[i].key = box[i].key
       /\ later[i].status = "accepted" <=> box[i].status = "accepted"
  /\ \A i \in DOMAIN later : i \notin DOMAIN box => later[i].status # "accepted"

\* What was announced and found answered is not asked again.
Steady ==
  \A t \in Ids : Stored(t) =>
    \A q \in Questions :
      Has(task[t], Asked(q)) /\ q \in task'[t].pending => q \in task[t].pending

\* A step keeps the invariant, the answers and what the outbox promises.
Advances == IInv' /\ Steady /\ Promise!Next

\* A passive change keeps what is noted.
LEMMA PassedNoted ==
  ASSUME NEW box, NEW later, Passed(box, later)
  PROVE  Noted(box, later)
  BY DEF Passed, Noted, Passive

\* What the outbox has offered, and what it knows.
LEMMA OfferedFacts ==
  ASSUME TypeInv
  PROVE  /\ \A c : c \in Offered <=>
              \E t \in Ids : Stored(t) /\ \E i \in DOMAIN task[t].box : c = <<t, task[t].box[i].key>>
         /\ \A c : c \in Known <=>
              \E t \in Ids : Stored(t) /\ \E i \in DOMAIN task[t].box :
                task[t].box[i].status = "accepted" /\ c = <<t, task[t].box[i].key>>
         /\ Offered \subseteq Notices
<1>1. \A t \in Ids : Stored(t) => \A i \in DOMAIN task[t].box : task[t].box[i] \in Notes
  BY NotesOf DEF TypeInv
<1>2. \A n \in Notes : n.key \in Keys
        /\ n.status \in {"ready", "leased", "retry_wait", "accepted", "failed", "uncertain"}
  BY DEF Notes
<1>3. \A c : c \in Offered <=>
        \E t \in Ids : Stored(t) /\ \E i \in DOMAIN task[t].box : c = <<t, task[t].box[i].key>>
  BY <1>1, <1>2, RecordedFacts DEF Offered
<1>4. \A c : c \in Known <=>
        \E t \in Ids : Stored(t) /\ \E i \in DOMAIN task[t].box :
          task[t].box[i].status = "accepted" /\ c = <<t, task[t].box[i].key>>
  BY RecordedFacts DEF Known
<1> QED
  BY <1>1, <1>2, <1>3, <1>4 DEF Notices

\* The same, after a step.
LEMMA OfferedNext ==
  ASSUME TypeInv'
  PROVE  /\ \A c : c \in Offered' <=>
              \E t \in Ids : task'[t] # Absent /\ \E i \in DOMAIN task'[t].box :
                c = <<t, task'[t].box[i].key>>
         /\ \A c : c \in Known' <=>
              \E t \in Ids : task'[t] # Absent /\ \E i \in DOMAIN task'[t].box :
                task'[t].box[i].status = "accepted" /\ c = <<t, task'[t].box[i].key>>
         /\ Offered' \subseteq Notices
<1>1. \A t \in Ids : task'[t] # Absent => \A i \in DOMAIN task'[t].box : task'[t].box[i] \in Notes
  BY NotesOf DEF TypeInv, Stored
<1>2. \A n \in Notes : n.key \in Keys
        /\ n.status \in {"ready", "leased", "retry_wait", "accepted", "failed", "uncertain"}
  BY DEF Notes
<1>3. \A c : c \in Offered' <=>
        \E t \in Ids : task'[t] # Absent /\ \E i \in DOMAIN task'[t].box : c = <<t, task'[t].box[i].key>>
  BY <1>1, <1>2, RecordedFacts DEF Offered
<1>4. \A c : c \in Known' <=>
        \E t \in Ids : task'[t] # Absent /\ \E i \in DOMAIN task'[t].box :
          task'[t].box[i].status = "accepted" /\ c = <<t, task'[t].box[i].key>>
  BY RecordedFacts DEF Known
<1> QED
  BY <1>1, <1>2, <1>3, <1>4 DEF Notices

\* A save of task t, seen from the outside.
LEMMA SaveShown ==
  ASSUME TypeInv, TypeInv', NEW t \in Ids, NEW y, y # Absent, task'[t] = y,
         \A u \in Ids \ {t} : task'[u] = task[u],
         Stored(t) => Noted(task[t].box, y.box),
         ~Stored(t) => \A i \in DOMAIN y.box : y.box[i].status # "accepted"
  PROVE  Offered \subseteq Offered' /\ Offered' \subseteq Notices /\ Known' = Known
<1>1. Offered \subseteq Offered'
  BY SMTT(40), OfferedFacts, OfferedNext DEF Noted, Stored
<1>2. \A c : c \in Known => c \in Known'
  BY SMTT(40), OfferedFacts, OfferedNext DEF Noted, Stored
<1>3. ASSUME NEW c, c \in Known' PROVE c \in Known
  <2>1. PICK u \in Ids : task'[u] # Absent /\ \E i \in DOMAIN task'[u].box :
          task'[u].box[i].status = "accepted" /\ c = <<u, task'[u].box[i].key>>
    BY <1>3, OfferedNext
  <2>2. PICK i \in DOMAIN task'[u].box :
          task'[u].box[i].status = "accepted" /\ c = <<u, task'[u].box[i].key>>
    BY <2>1
  <2>3. /\ Stored(u) /\ i \in DOMAIN task[u].box
        /\ task[u].box[i].status = "accepted" /\ task[u].box[i].key = task'[u].box[i].key
    <3>1. CASE u = t
      BY <2>1, <2>2, <3>1 DEF Noted
    <3>2. CASE u # t
      BY <2>1, <2>2, <3>2 DEF Stored
    <3> QED
      BY <3>1, <3>2
  <2> QED
    BY <2>2, <2>3, OfferedFacts
<1> QED
  BY <1>1, <1>2, <1>3, OfferedNext

\* A save that tells the controller nothing.
LEMMA SaveAdvances ==
  ASSUME IInv, IInv', NEW t \in Ids, NEW y, y # Absent, task'[t] = y,
         \A u \in Ids \ {t} : task'[u] = task[u], UNCHANGED <<heard, exposed>>,
         Stored(t) => Noted(task[t].box, y.box),
         Stored(t) => \A q \in Questions :
           Has(task[t], Asked(q)) /\ q \in y.pending => q \in task[t].pending,
         ~Stored(t) => \A i \in DOMAIN y.box : y.box[i].status # "accepted"
  PROVE  Advances
<1>1. Promise!Offer
  <2>1. Offered \subseteq Offered' /\ Offered' \subseteq Notices /\ Known' = Known
    BY SaveShown DEF IInv
  <2> QED
    BY <2>1 DEF Promise!Offer
<1>2. Steady
  BY DEF Steady
<1> QED
  BY <1>1, <1>2 DEF Advances, Promise!Next

\* A step that saves nothing and tells the controller nothing.
LEMMA SilentAdvances ==
  ASSUME IInv, IInv', UNCHANGED <<task, heard, exposed>>
  PROVE  Advances
<1>1. Promise!Offer
  <2>1. Offered' = Offered /\ Known' = Known
    BY DEF Offered, Known, Recorded, Stored
  <2>2. Offered \subseteq Notices
    BY OfferedFacts DEF IInv
  <2> QED
    BY <2>1, <2>2 DEF Promise!Offer
<1>2. Steady
  BY DEF Steady
<1> QED
  BY <1>1, <1>2 DEF Advances, Promise!Next

\* Two places of two records are recorded under different notices.
LEMMA NoticesDiffer ==
  ASSUME TypeInv, NEW u \in Ids, Stored(u), NEW k \in DOMAIN task[u].box,
         NEW t \in Ids, Stored(t), NEW i \in DOMAIN task[t].box,
         <<u, task[u].box[k].key>> = <<t, task[t].box[i].key>>
  PROVE  u = t /\ k = i
  BY DEF TypeInv, WellFormed, Orderly

\* A save of task t that changes one notification, seen from the outside.
LEMMA CellShown ==
  ASSUME TypeInv, TypeInv', NEW t \in Ids, Stored(t), NEW y, y # Absent, task'[t] = y,
         \A u \in Ids \ {t} : task'[u] = task[u],
         DOMAIN y.box = DOMAIN task[t].box, NEW i \in DOMAIN y.box,
         y.box[i].key = task[t].box[i].key,
         \A k \in DOMAIN y.box \ {i} : y.box[k] = task[t].box[k],
         NEW c, c = <<t, y.box[i].key>>
  PROVE  /\ Offered' = Offered /\ Offered \subseteq Notices
         /\ \A d : d # c => (d \in Known' <=> d \in Known)
         /\ c \in Known <=> task[t].box[i].status = "accepted"
         /\ c \in Known' <=> y.box[i].status = "accepted"
<1>1. \A u \in Ids :
        /\ task'[u] # Absent <=> Stored(u)
        /\ Stored(u) => /\ DOMAIN task'[u].box = DOMAIN task[u].box
                        /\ \A k \in DOMAIN task[u].box :
                             /\ task'[u].box[k].key = task[u].box[k].key
                             /\ (u = t /\ k = i) \/ task'[u].box[k] = task[u].box[k]
  <2> TAKE u \in Ids
  <2>1. CASE u = t
    BY <2>1
  <2>2. CASE u # t
    BY <2>2 DEF Stored
  <2> QED
    BY <2>1, <2>2
<1>2. ASSUME NEW d
      PROVE  d \in Offered' <=> d \in Offered
  <2>1. d \in Offered <=>
          \E u \in Ids : Stored(u) /\ \E k \in DOMAIN task[u].box : d = <<u, task[u].box[k].key>>
    BY OfferedFacts
  <2>2. d \in Offered' <=>
          \E u \in Ids : task'[u] # Absent /\ \E k \in DOMAIN task'[u].box : d = <<u, task'[u].box[k].key>>
    BY OfferedNext
  <2>3. ASSUME NEW u \in Ids, Stored(u)
        PROVE  (\E k \in DOMAIN task'[u].box : d = <<u, task'[u].box[k].key>>)
                 <=> \E k \in DOMAIN task[u].box : d = <<u, task[u].box[k].key>>
    BY <1>1, <2>3
  <2> QED
    BY <1>1, <2>1, <2>2, <2>3
<1>3. ASSUME NEW d
      PROVE  /\ d # c => (d \in Known' <=> d \in Known)
  <2>1. d \in Known <=>
          \E u \in Ids : Stored(u) /\ \E k \in DOMAIN task[u].box :
            task[u].box[k].status = "accepted" /\ d = <<u, task[u].box[k].key>>
    BY OfferedFacts
  <2>2. d \in Known' <=>
          \E u \in Ids : task'[u] # Absent /\ \E k \in DOMAIN task'[u].box :
            task'[u].box[k].status = "accepted" /\ d = <<u, task'[u].box[k].key>>
    BY OfferedNext
  <2>3. ASSUME NEW u \in Ids, Stored(u), d # c, NEW k \in DOMAIN task[u].box
        PROVE  (task'[u].box[k].status = "accepted" /\ d = <<u, task'[u].box[k].key>>)
                 <=> task[u].box[k].status = "accepted" /\ d = <<u, task[u].box[k].key>>
    BY <1>1, <2>3
  <2> QED
    BY <1>1, <2>1, <2>2, <2>3
<1>4. c \in Known <=> task[t].box[i].status = "accepted"
  <2>1. c \in Known <=>
          \E u \in Ids : Stored(u) /\ \E k \in DOMAIN task[u].box :
            task[u].box[k].status = "accepted" /\ c = <<u, task[u].box[k].key>>
    BY OfferedFacts
  <2>2. \A u \in Ids : Stored(u) => \A k \in DOMAIN task[u].box :
          c = <<u, task[u].box[k].key>> => u = t /\ k = i
    BY NoticesDiffer
  <2> QED
    BY <2>1, <2>2
<1>5. c \in Known' <=> y.box[i].status = "accepted"
  <2>1. c \in Known' <=>
          \E u \in Ids : task'[u] # Absent /\ \E k \in DOMAIN task'[u].box :
            task'[u].box[k].status = "accepted" /\ c = <<u, task'[u].box[k].key>>
    BY OfferedNext
  <2>2. \A u \in Ids : Stored(u) => \A k \in DOMAIN task[u].box :
          c = <<u, task[u].box[k].key>> => u = t /\ k = i
    BY NoticesDiffer
  <2> QED
    BY <1>1, <2>1, <2>2
<1> QED
  BY <1>2, <1>3, <1>4, <1>5, OfferedFacts

=============================================================================

------------------------ MODULE TerminalWatchProofs ------------------------
(***************************************************************************)
(* Proofs about Terminal Watches, for every number of Watches, processes,  *)
(* questions, failures and crashes: no used prompt is answered again,      *)
(* settled Watches are quiet, controllers hear of a thing once unless a    *)
(* lease lapsed, and the retention removes nothing that is still owed.     *)
(***************************************************************************)
EXTENDS TerminalWatch, SequenceTheorems, WellFoundedInduction, TLAPS

BudgetType ==
  [shows : Nat, claims : Nat, replies : Nat, fails : Nat, lapses : Nat,
   crashes : Nat]

\* A stored record.  An active Watch has not been found idle twice.
RecordType ==
  [kind : Kinds, status : Outcomes \cup {"active"},
   question : Questions \cup {None},
   state : Resolved \cup {"none", "pending", "reserved"},
   exec : BOOLEAN, box : Seq(Notes), offset : 0..MaxProgress,
   armed : BOOLEAN, idle : 0..3]

Sane(x) ==
  /\ (x.state = "none") = (x.question = None)
  /\ x.status = "active" => x.idle <= 1

ScreenType ==
  [show : {"working", "idle", "gone"} \cup Prompts, by : SUBSET Watches]

JobType == Observations \cup Deliveries \cup {NoJob}

\* What the second idle observation concludes.
Conclusive(o) ==
  o.kind = "observe" => o.idle <= 2 /\ (o.idle = 2 => o.seen = "completed")

TypeInv ==
  /\ watch \in [Watches -> RecordType]
  /\ \A w \in Watches : Sane(watch[w])
  /\ due \subseteq Watches
  /\ collected \subseteq Watches
  /\ job \in [Procs -> JobType]
  /\ \A p \in Procs : Conclusive(job[p])
  /\ reply \in [watch : Watches, stage : {"reserved", "typed"}] \cup {NoReply}
  /\ screen \in ScreenType
  /\ task \in [progress : 0..MaxProgress, ended : BOOLEAN]
  /\ managed \in ManagedTurns \cup {None}
  /\ heard \in [Watches -> [Keys -> Nat]]
  /\ budget \in BudgetType

-----------------------------------------------------------------------------
(* The outbox of a Watch, its jobs and what its controller has heard *)

Distinct(b) == \A i, j \in DOMAIN b : b[i].key = b[j].key => i = j

\* Nothing before the notification in flight is still to be delivered.
InOrder(b) ==
  \A i \in DOMAIN b : b[i].status = "delivering" =>
    \A j \in 1..(i - 1) : ~Unsettled(b[j])

\* What a notification says of the controller that heard of it h times.
Truthful(n, h) ==
  /\ n.lapsed => n.ever
  /\ n.status = "superseded" => Attention(n)
  /\ n.status = "delivered" => h > 0
  /\ ~n.ever => h <= 1
  /\ ~n.ever /\ n.status \in {"pending", "failed"} => h = 0

\* The process of job j carries the attempt in flight, unless it lapsed.
Carries(j, n, h) ==
  /\ j.sent => h > 0
  /\ j.told => j.sent
  /\ ~n.ever =>
       /\ n.attempt = j.attempt
       /\ n.status \in {"delivering", "delivered"}
       /\ n.status = "delivered" => j.sent
       /\ ~j.sent => h = 0

Holds(j, w) == j.kind = "deliver" /\ j.watch = w

\* b is the outbox of Watch w, J the jobs and H what its controller heard.
Carried(w, b, J, H) ==
  /\ Distinct(b)
  /\ InOrder(b)
  /\ \A i \in DOMAIN b : Truthful(b[i], H[b[i].key])
  /\ \A k \in Keys : H[k] > 0 => \E i \in DOMAIN b : b[i].key = k
  /\ \A p \in Procs : Holds(J[p], w) =>
       /\ J[p].note \in DOMAIN b
       /\ Carries(J[p], b[J[p].note], H[b[J[p].note].key])
  /\ \A p, q \in Procs :
       (/\ Holds(J[p], w) /\ Holds(J[q], w)
        /\ J[p].note = J[q].note /\ ~b[J[p].note].ever) => p = q

CarriedInv == \A w \in Watches : Carried(w, watch[w].box, job, heard[w])

\* What the status of a Watch says of its outbox.
Reports(s, b) ==
  IF s = "active"
  THEN \A i \in DOMAIN b : Attention(b[i])
  ELSE /\ \E i \in DOMAIN b : b[i].key = [kind |-> "outcome", ev |-> s]
       /\ \A i \in DOMAIN b : Attention(b[i]) => b[i].status \notin {"pending", "failed"}

ReportsInv == \A w \in Watches : Reports(watch[w].status, watch[w].box)

\* What was removed was over, and its controller knew.
CollectedInv ==
  \A w \in collected :
    /\ watch[w].status = "completed"
    /\ watch[w].state \in {"none", "consumed", "superseded"}
    /\ heard[w][[kind |-> "outcome", ev |-> "completed"]] > 0

-----------------------------------------------------------------------------
(* Who has answered the prompt on display *)

\* The responder works for a Watch that may answer, at a prompt not yet used.
ReplyInv ==
  reply # NoReply =>
    /\ watch[reply.watch].state = "reserved"
    /\ watch[reply.watch].kind # "activity"
    /\ reply.stage = "reserved" => \A v \in screen.by : ~Active(v)

\* v, still active, has typed into the prompt s.
Used(v, s) ==
  /\ watch[v].kind # "activity"
  /\ watch[v].question = s
  /\ watch[v].state \in {"reserved", "consumed", "uncertain"}

\* No observation that could replace the question of v saw anything else.
Abreast(v, s) ==
  watch[v].state \in Resolved =>
    \A p \in Procs :
      job[p].kind = "observe" /\ job[p].watch = v /\ ~job[p].late
        /\ job[p].seen \in Questions => job[p].seen = s

AnswerInv ==
  \A v \in screen.by : Active(v) => Used(v, screen.show) /\ Abreast(v, screen.show)

WatchInv ==
  TypeInv /\ CarriedInv /\ ReportsInv /\ CollectedInv /\ ReplyInv /\ AnswerInv

-----------------------------------------------------------------------------
(* Lemmas about sequences and the outbox *)

\* A nonempty set of natural numbers has a least element.
LEMMA LeastNatural ==
  ASSUME NEW S \in SUBSET Nat, S # {}
  PROVE  \E m \in S : \A k \in S : m <= k
<1> DEFINE R == {ss \in Nat \X Nat : ss[1] < ss[2]}
<1>1. IsWellFoundedOn(R, Nat)
  BY NatLessThanWellFounded DEF OpToRel
<1> HIDE DEF R
<1>2. PICK m \in S : \A k \in S : ~ (<<k, m>> \in R)
  BY <1>1, WFMin
<1>3. \A k \in S : ~(k < m)
  BY <1>2 DEF R
<1> QED BY <1>3

\* HeadOf is the first notification that is still to be settled.
LEMMA HeadIsFirst ==
  ASSUME NEW b \in Seq(Notes)
  PROVE  /\ HeadOf(b) \in Nat
         /\ HeadOf(b) > 0 =>
              /\ HeadOf(b) \in DOMAIN b
              /\ Unsettled(b[HeadOf(b)])
              /\ \A j \in 1..(HeadOf(b) - 1) : ~Unsettled(b[j])
<1> DEFINE I == {i \in 1..Len(b) : Unsettled(b[i])}

<1>1. HeadOf(b) = IF I # {} THEN Min(I) ELSE 0
  BY DEF HeadOf, SelectInSeq
<1>2. I \in SUBSET Nat /\ Len(b) \in Nat /\ DOMAIN b = 1..Len(b)
  BY LenProperties
<1>3. CASE I = {}
  BY <1>1, <1>3
<1>4. CASE I # {}
  <2>1. Min(I) \in I /\ \A k \in I : Min(I) <= k
    <3> HIDE DEF I
    <3>1. \E m \in I : \A k \in I : m <= k
      BY <1>2, <1>4, LeastNatural
    <3> QED BY <3>1 DEF Min
  <2> DEFINE m == Min(I)
  <2>2. HeadOf(b) = m
    BY <1>1, <1>4
  <2>3. m \in I /\ \A k \in I : m <= k
    BY <2>1
  <2> HIDE DEF m
  <2>4. m \in 1..Len(b) /\ Unsettled(b[m])
    BY <2>3
  <2>5. ASSUME NEW j \in 1..(m - 1)
        PROVE  ~Unsettled(b[j])
    BY <2>3, <2>4, <1>2
  <2> QED BY <2>2, <2>4, <2>5, <1>2
<1> QED BY <1>3, <1>4

LEMMA BoxTyped ==
  ASSUME NEW b \in Seq(Notes)
  PROVE  /\ Len(b) \in Nat
         /\ DOMAIN b = 1..Len(b)
         /\ \A i \in DOMAIN b : b[i] \in Notes
BY LenProperties, ElementOfSeq

\* A change of one notification of an outbox.
LEMMA OneChanged ==
  ASSUME NEW b \in Seq(Notes), NEW i \in DOMAIN b, NEW n \in Notes
  PROVE  /\ [b EXCEPT ![i] = n] \in Seq(Notes)
         /\ DOMAIN [b EXCEPT ![i] = n] = DOMAIN b
         /\ [b EXCEPT ![i] = n][i] = n
         /\ \A j \in DOMAIN b : j # i => [b EXCEPT ![i] = n][j] = b[j]
BY LenProperties, ExceptSeq

Fresh(n) == n.status = "pending" /\ n.attempt = 0 /\ ~n.lapsed /\ ~n.ever

Superseded(n) == [n EXCEPT !.status = "superseded"]

Dropped(n) ==
  Attention(n) /\ n.status \in {"pending", "failed", "dead"}

\* What a save may do to an outbox: drop attention, add one notification.
Tidies(b, c) ==
  /\ c \in Seq(Notes)
  /\ Len(c) = Len(b) \/ Len(c) = Len(b) + 1
  /\ \A i \in DOMAIN b :
       c[i] = b[i] \/ (Dropped(b[i]) /\ c[i] = Superseded(b[i]))
  /\ Len(c) = Len(b) + 1 =>
       /\ Fresh(c[Len(c)])
       /\ \A i \in DOMAIN b : b[i].key # c[Len(c)].key

LEMMA SameTidies ==
  ASSUME NEW b \in Seq(Notes)
  PROVE  Tidies(b, b)
<1>1. Len(b) # Len(b) + 1
  BY LenProperties
<1>2. \A i \in DOMAIN b :
        b[i] = b[i] \/ (Dropped(b[i]) /\ b[i] = Superseded(b[i]))
  OBVIOUS
<1> QED BY <1>1, <1>2 DEF Tidies

\* What a change to a note of the outbox leaves of it.
LEMMA SupersededNote ==
  ASSUME NEW n \in Notes
  PROVE  /\ Superseded(n) \in Notes
         /\ Superseded(n).key = n.key
         /\ Superseded(n).status = "superseded"
         /\ Superseded(n).attempt = n.attempt
         /\ Superseded(n).lapsed = n.lapsed
         /\ Superseded(n).ever = n.ever
BY DEF Notes, Superseded

LEMMA DropTidies ==
  ASSUME NEW b \in Seq(Notes)
  PROVE  /\ Tidies(b, DropUndelivered(b))
         /\ DropUndelivered(b) \in Seq(Notes)
         /\ Len(DropUndelivered(b)) = Len(b)
         /\ \A i \in DOMAIN b :
              /\ DropUndelivered(b)[i].key = b[i].key
              /\ ~Attention(b[i]) => DropUndelivered(b)[i] = b[i]
              /\ Attention(b[i]) =>
                   DropUndelivered(b)[i].status \notin {"pending", "failed"}
<1> DEFINE d == DropUndelivered(b)
<1>1. Len(b) \in Nat /\ DOMAIN b = 1..Len(b) /\ \A i \in DOMAIN b : b[i] \in Notes
  BY BoxTyped
<1>2. d = [i \in 1..Len(b) |->
            IF Dropped(b[i]) THEN Superseded(b[i]) ELSE b[i]]
  BY <1>1 DEF DropUndelivered, Dropped, Superseded
<1> HIDE DEF d
<1>3. \A i \in 1..Len(b) : d[i] \in Notes
  BY <1>1, <1>2, SupersededNote
<1>4. d \in Seq(Notes) /\ Len(d) = Len(b)
  <2>1. d \in [1..Len(b) -> Notes]
    BY <1>2, <1>3
  <2>2. d \in Seq(Notes)
    BY <2>1, <1>1, SeqDef
  <2>3. DOMAIN d = 1..Len(b) /\ DOMAIN d = 1..Len(d) /\ Len(d) \in Nat
    BY <2>1, <2>2, LenProperties
  <2> QED BY <2>2, <2>3, <1>1
<1>5. ASSUME NEW i \in DOMAIN b
      PROVE  /\ d[i] = b[i] \/ (Dropped(b[i]) /\ d[i] = Superseded(b[i]))
             /\ d[i].key = b[i].key
             /\ ~Attention(b[i]) => d[i] = b[i]
             /\ Attention(b[i]) => d[i].status \notin {"pending", "failed"}
  <2>1. d[i] = IF Dropped(b[i]) THEN Superseded(b[i]) ELSE b[i]
    BY <1>1, <1>2
  <2>2. b[i] \in Notes
    BY <1>1
  <2>3. CASE Dropped(b[i])
    <3>1. d[i] = Superseded(b[i])
      BY <2>1, <2>3
    <3>2. d[i].key = b[i].key /\ d[i].status = "superseded"
      BY <3>1, <2>2, SupersededNote
    <3> QED BY <3>1, <3>2, <2>3 DEF Dropped
  <2>4. CASE ~Dropped(b[i])
    <3>1. d[i] = b[i]
      BY <2>1, <2>4
    <3> QED BY <3>1, <2>4 DEF Dropped
  <2> QED BY <2>3, <2>4
<1>6. Tidies(b, d)
  <2>1. Len(d) # Len(b) + 1
    BY <1>4, LenProperties
  <2>2. \A i \in DOMAIN b :
          d[i] = b[i] \/ (Dropped(b[i]) /\ d[i] = Superseded(b[i]))
    BY <1>5
  <2> QED BY <1>4, <2>1, <2>2, Zenon DEF Tidies
<1> QED BY <1>4, <1>5, <1>6 DEF d

LEMMA AppendTidies ==
  ASSUME NEW b \in Seq(Notes), NEW d \in Seq(Notes), Tidies(b, d), Len(d) = Len(b),
         NEW n \in Notes, Fresh(n), \A i \in DOMAIN b : b[i].key # n.key
  PROVE  /\ Tidies(b, Append(d, n))
         /\ Len(Append(d, n)) = Len(b) + 1
         /\ Append(d, n)[Len(b) + 1] = n
         /\ \A i \in DOMAIN b : Append(d, n)[i] = d[i]
<1> DEFINE c == Append(d, n)
<1>1. Len(b) \in Nat /\ DOMAIN b = 1..Len(b)
  BY BoxTyped
<1>2. c \in Seq(Notes) /\ Len(c) = Len(b) + 1 /\ c[Len(b) + 1] = n
      /\ \A i \in 1..Len(b) : c[i] = d[i]
  BY AppendProperties, <1>1
<1> HIDE DEF c
<1>3. Tidies(b, c)
  BY <1>1, <1>2 DEF Tidies
<1> QED BY <1>1, <1>2, <1>3 DEF c

\* What tidying an outbox keeps of each of its notifications.
LEMMA TidiedNote ==
  ASSUME NEW b \in Seq(Notes), NEW c, Tidies(b, c), NEW i \in DOMAIN b
  PROVE  /\ c[i].key = b[i].key /\ c[i].attempt = b[i].attempt
         /\ c[i].lapsed = b[i].lapsed /\ c[i].ever = b[i].ever
         /\ c[i].status = b[i].status \/ (Dropped(b[i]) /\ c[i].status = "superseded")
<1>1. b[i] \in Notes
  BY BoxTyped
<1>2. c[i] = b[i] \/ (Dropped(b[i]) /\ c[i] = Superseded(b[i]))
  BY DEF Tidies
<1>3. CASE c[i] = b[i]
  BY <1>3
<1>4. CASE Dropped(b[i]) /\ c[i] = Superseded(b[i])
  BY <1>1, <1>4, SupersededNote
<1> QED BY <1>2, <1>3, <1>4

\* The jobs at Watch w of K are jobs of J.
SameJobs(w, J, K) == \A p \in Procs : Holds(K[p], w) => K[p] = J[p]

\* Tidying an outbox, or ending jobs, disturbs nothing that is in flight.
LEMMA TidiedCarried ==
  ASSUME NEW w, NEW b \in Seq(Notes), NEW c, NEW J, NEW K, NEW H \in [Keys -> Nat],
         Carried(w, b, J, H), Tidies(b, c), SameJobs(w, J, K)
  PROVE  Carried(w, c, K, H)
<1>0. Len(b) \in Nat /\ DOMAIN b = 1..Len(b) /\ DOMAIN c = 1..Len(c)
  BY BoxTyped DEF Tidies
<1>1. /\ Len(b) \in Nat /\ DOMAIN b = 1..Len(b) /\ DOMAIN c = 1..Len(c)
      /\ \A i \in DOMAIN b : b[i] \in Notes
      /\ \A i \in DOMAIN c : c[i] \in Notes
  BY <1>0, BoxTyped DEF Tidies
<1>2. Len(c) = Len(b) \/ Len(c) = Len(b) + 1
  BY DEF Tidies
<1>13. Len(b) \in Nat /\ Len(c) \in Nat
  BY LenProperties DEF Tidies
<1>3. ASSUME NEW i \in DOMAIN c
      PROVE  i \in DOMAIN b \/ (Len(c) = Len(b) + 1 /\ i = Len(c))
  <2>1. i \in 1..Len(c)
    BY <1>0
  <2>2. i \in 1..Len(b) \/ (Len(c) = Len(b) + 1 /\ i = Len(c))
    BY <1>13, <1>2, <2>1
  <2> QED BY <1>0, <2>2
<1>4. ASSUME NEW i \in DOMAIN b
      PROVE  i \in DOMAIN c
  <2>1. i \in 1..Len(b)
    BY <1>0
  <2>2. i \in 1..Len(c)
    BY <1>13, <1>2, <2>1
  <2> QED BY <1>0, <2>2
<1>5. \A i \in DOMAIN b :
        /\ c[i].key = b[i].key /\ c[i].attempt = b[i].attempt
        /\ c[i].lapsed = b[i].lapsed /\ c[i].ever = b[i].ever
        /\ c[i].status = b[i].status \/ (Dropped(b[i]) /\ c[i].status = "superseded")
  BY TidiedNote
<1>6. ASSUME Len(c) = Len(b) + 1
      PROVE  /\ Fresh(c[Len(c)]) /\ c[Len(c)].key \in Keys
             /\ \A i \in DOMAIN b : b[i].key # c[Len(c)].key
  <2>1. Len(c) \in DOMAIN c
    BY <1>1, <1>6
  <2>2. c[Len(c)] \in Notes
    BY <1>1, <2>1
  <2> QED BY <1>6, <2>2 DEF Tidies, Notes
<1>7. Distinct(c)
  <2> SUFFICES ASSUME NEW i \in DOMAIN c, NEW j \in DOMAIN c, c[i].key = c[j].key
               PROVE  i = j
    BY DEF Distinct
  <2>1. CASE i \in DOMAIN b /\ j \in DOMAIN b
    BY <1>5, <2>1 DEF Carried, Distinct
  <2>2. CASE i \notin DOMAIN b \/ j \notin DOMAIN b
    <3>1. Len(c) = Len(b) + 1
      BY <1>3, <2>2
    <3>2. \A k \in DOMAIN b : c[k].key # c[Len(c)].key
      BY <1>5, <1>6, <3>1
    <3> QED BY <1>3, <2>2, <3>2
  <2> QED BY <2>1, <2>2
<1>8. InOrder(c)
  <2> SUFFICES ASSUME NEW i \in DOMAIN c, c[i].status = "delivering",
                      NEW j \in 1..(i - 1)
               PROVE  ~Unsettled(c[j])
    BY DEF InOrder
  <2>1. i \in DOMAIN b
    BY <1>3, <1>6 DEF Fresh
  <2>2. b[i].status = "delivering"
    BY <1>5, <2>1
  <2>3. j \in DOMAIN b
    BY <1>1, <2>1
  <2>4. ~Unsettled(b[j])
    BY <2>1, <2>2 DEF Carried, InOrder
  <2> QED BY <1>5, <2>3, <2>4 DEF Unsettled, Dropped
<1>9. ASSUME NEW i \in DOMAIN c
      PROVE  Truthful(c[i], H[c[i].key])
  <2>1. CASE i \in DOMAIN b
    <3>1. Truthful(b[i], H[b[i].key])
      BY <2>1 DEF Carried
    <3>2. CASE c[i].status = b[i].status
      <4>1. Attention(c[i]) <=> Attention(b[i])
        BY <1>5, <2>1 DEF Attention
      <4> QED BY <1>5, <2>1, <3>1, <3>2, <4>1 DEF Truthful
    <3>3. CASE Dropped(b[i]) /\ c[i].status = "superseded"
      <4>1. Attention(c[i])
        BY <1>5, <2>1, <3>3 DEF Attention, Dropped
      <4> QED BY <1>5, <2>1, <3>1, <3>3, <4>1 DEF Truthful
    <3> QED BY <1>5, <2>1, <3>2, <3>3
  <2>2. CASE i \notin DOMAIN b
    <3>1. Len(c) = Len(b) + 1 /\ i = Len(c)
      BY <1>3, <2>2
    <3>2. Fresh(c[i]) /\ c[i].key \in Keys /\ \A j \in DOMAIN b : b[j].key # c[i].key
      BY <1>6, <3>1
    <3>3. ~(H[c[i].key] > 0)
      BY <3>2 DEF Carried
    <3>4. H[c[i].key] = 0
      BY <3>2, <3>3
    <3> QED BY <3>2, <3>4 DEF Truthful, Fresh
  <2> QED BY <2>1, <2>2
<1>10. ASSUME NEW k \in Keys, H[k] > 0
       PROVE  \E i \in DOMAIN c : c[i].key = k
  <2>1. PICK i \in DOMAIN b : b[i].key = k
    BY <1>10 DEF Carried
  <2> QED BY <1>4, <1>5, <2>1
<1>11. ASSUME NEW p \in Procs, Holds(K[p], w)
       PROVE  /\ K[p].note \in DOMAIN c
              /\ Carries(K[p], c[K[p].note], H[c[K[p].note].key])
  <2>1. K[p] = J[p]
    BY <1>11 DEF SameJobs
  <2> DEFINE i == J[p].note
  <2>2. i \in DOMAIN b /\ Carries(J[p], b[i], H[b[i].key])
    BY <1>11, <2>1 DEF Carried
  <2> HIDE DEF i
  <2>3. Carries(J[p], c[i], H[c[i].key])
    <3>1. CASE c[i].status = b[i].status
      BY <1>5, <2>2, <3>1 DEF Carries
    <3>2. CASE Dropped(b[i]) /\ c[i].status = "superseded"
      BY <1>5, <2>2, <3>2 DEF Carries, Dropped
    <3> QED BY <1>5, <2>2, <3>1, <3>2
  <2> QED BY <1>4, <2>1, <2>2, <2>3 DEF i
<1>12. ASSUME NEW p \in Procs, NEW q \in Procs, Holds(K[p], w), Holds(K[q], w),
              K[p].note = K[q].note, ~c[K[p].note].ever
       PROVE  p = q
  <2>1. K[p] = J[p] /\ K[q] = J[q]
    BY <1>12 DEF SameJobs
  <2>2. J[p].note \in DOMAIN b
    BY <1>12, <2>1 DEF Carried
  <2>3. ~b[J[p].note].ever
    BY <1>5, <1>12, <2>1, <2>2
  <2> QED BY <1>12, <2>1, <2>3 DEF Carried
<1> QED BY <1>7, <1>8, <1>9, <1>10, <1>11, <1>12 DEF Carried

LEMMA FrameCarried ==
  ASSUME NEW w, NEW b \in Seq(Notes), NEW J, NEW K, NEW H \in [Keys -> Nat],
         Carried(w, b, J, H), SameJobs(w, J, K)
  PROVE  Carried(w, b, K, H)
BY SameTidies, TidiedCarried

\* One notification is taken up, marked or settled.
LEMMA RewrittenCarried ==
  ASSUME NEW w, NEW b \in Seq(Notes), NEW J, NEW K, NEW H \in [Keys -> Nat],
         Carried(w, b, J, H),
         NEW i \in DOMAIN b, NEW n \in Notes,
         n.key = b[i].key, Truthful(n, H[n.key]),
         Unsettled(n) => Unsettled(b[i]),
         n.status = "delivering" => \A j \in 1..(i - 1) : ~Unsettled(b[j]),
         b[i].ever => n.ever,
         \A p \in Procs : Holds(K[p], w) =>
            /\ K[p].note \in DOMAIN b
            /\ K[p].note # i => K[p] = J[p]
            /\ K[p].note = i => Carries(K[p], n, H[n.key]),
         \A p, q \in Procs :
            Holds(K[p], w) /\ Holds(K[q], w) /\ K[p].note = i /\ K[q].note = i /\ ~n.ever
              => p = q
  PROVE  Carried(w, [b EXCEPT ![i] = n], K, H)
<1> DEFINE c == [b EXCEPT ![i] = n]
<1>1. Len(b) \in Nat /\ DOMAIN b = 1..Len(b)
  BY BoxTyped
<1>2. DOMAIN c = DOMAIN b /\ c[i] = n /\ \A j \in DOMAIN b : j # i => c[j] = b[j]
  BY OneChanged
<1> HIDE DEF c
<1>3. \A j \in DOMAIN b : c[j].key = b[j].key
  BY <1>2
<1>4. Distinct(c)
  BY <1>2, <1>3 DEF Distinct, Carried
<1>5. InOrder(c)
  <2> SUFFICES ASSUME NEW k \in DOMAIN c, c[k].status = "delivering",
                      NEW j \in 1..(k - 1)
               PROVE  ~Unsettled(c[j])
    BY DEF InOrder
  <2>1. j \in DOMAIN b /\ k \in DOMAIN b
    BY <1>1, <1>2
  <2>2. ~Unsettled(b[j])
    <3>1. CASE k = i
      BY <1>2, <3>1
    <3>2. CASE k # i
      BY <1>2, <2>1, <3>2 DEF Carried, InOrder
    <3> QED BY <3>1, <3>2
  <2>3. CASE j = i
    BY <1>2, <2>2, <2>3
  <2>4. CASE j # i
    BY <1>2, <2>1, <2>2, <2>4
  <2> QED BY <2>3, <2>4
<1>6. ASSUME NEW j \in DOMAIN c
      PROVE  Truthful(c[j], H[c[j].key])
  BY <1>2 DEF Carried
<1>7. ASSUME NEW k \in Keys, H[k] > 0
      PROVE  \E j \in DOMAIN c : c[j].key = k
  BY <1>2, <1>3, <1>7 DEF Carried
<1>8. ASSUME NEW p \in Procs, Holds(K[p], w)
      PROVE  /\ K[p].note \in DOMAIN c
             /\ Carries(K[p], c[K[p].note], H[c[K[p].note].key])
  <2>1. K[p].note \in DOMAIN b
    BY <1>8
  <2>2. CASE K[p].note = i
    BY <1>2, <1>8, <2>1, <2>2
  <2>3. CASE K[p].note # i
    <3>1. K[p] = J[p]
      BY <1>8, <2>3
    <3>2. Carries(K[p], b[K[p].note], H[b[K[p].note].key])
      BY <1>8, <3>1 DEF Carried
    <3> QED BY <1>2, <2>1, <2>3, <3>2
  <2> QED BY <2>2, <2>3
<1>9. ASSUME NEW p \in Procs, NEW q \in Procs, Holds(K[p], w), Holds(K[q], w),
             K[p].note = K[q].note, ~c[K[p].note].ever
      PROVE  p = q
  <2>1. K[p].note \in DOMAIN b
    BY <1>9
  <2>2. CASE K[p].note = i
    BY <1>2, <1>9, <2>2
  <2>3. CASE K[p].note # i
    <3>1. K[p] = J[p] /\ K[q] = J[q]
      BY <1>9, <2>3
    <3> QED BY <1>2, <1>9, <2>1, <2>3, <3>1 DEF Carried
  <2> QED BY <2>2, <2>3
<1> QED BY <1>4, <1>5, <1>6, <1>7, <1>8, <1>9 DEF Carried, c

-----------------------------------------------------------------------------
(* Jobs, budgets and saves *)

LEMMA SpendTyped ==
  ASSUME budget \in BudgetType,
         NEW what \in {"shows", "claims", "replies", "fails", "lapses", "crashes"},
         Spend(what)
  PROVE  budget' \in BudgetType
BY DEF Spend, BudgetType

LEMMA BudgetKept ==
  ASSUME budget \in BudgetType, UNCHANGED budget
  PROVE  budget' \in BudgetType
OBVIOUS

\* A job is what its kind says.
LEMMA JobKinds ==
  ASSUME NEW j \in JobType
  PROVE  /\ j.kind = "observe" => j \in Observations
         /\ j.kind = "deliver" => j \in Deliveries
         /\ j.kind \notin {"observe", "deliver"} => j = NoJob
BY DEF JobType, Observations, Deliveries, NoJob

Late(o) == [o EXCEPT !.late = TRUE]

LEMMA LateTyped ==
  ASSUME NEW o \in Observations
  PROVE  /\ Late(o) \in Observations
         /\ Late(o).kind = "observe" /\ Late(o).watch = o.watch /\ Late(o).late
         /\ Late(o).seen = o.seen /\ Late(o).idle = o.idle
<1> DEFINE l == TRUE
<1>1. Late(o) = [o EXCEPT !.late = l]
  BY DEF Late
<1>2. l \in BOOLEAN /\ l
  OBVIOUS
<1> HIDE DEF l
<1> QED BY <1>1, <1>2 DEF Observations

\* What a save of the record of w makes of a job.
Resumed(w, j, k) ==
  \/ k = NoJob
  \/ k = j
  \/ j.kind = "observe" /\ j.watch = w /\ k = Late(j)

LEMMA ResumedTyped ==
  ASSUME NEW w, NEW j \in JobType, NEW k, Resumed(w, j, k)
  PROVE  /\ k \in JobType
         /\ Conclusive(j) => Conclusive(k)
         /\ \A v : Holds(k, v) => k = j
         /\ \A v : k.kind = "observe" /\ k.watch = v /\ ~k.late => k = j
<1>1. CASE k = NoJob
  BY <1>1 DEF JobType, Conclusive, Holds, NoJob
<1>2. CASE k = j
  BY <1>2
<1>3. CASE j.kind = "observe" /\ j.watch = w /\ k = Late(j)
  <2>1. j \in Observations
    BY <1>3, JobKinds
  <2>2. k \in Observations /\ k.kind = "observe" /\ k.late /\ k.seen = j.seen /\ k.idle = j.idle
    BY <1>3, <2>1, LateTyped
  <2> QED BY <1>3, <2>2 DEF JobType, Conclusive, Holds
<1> QED BY <1>1, <1>2, <1>3 DEF Resumed

\* The jobs after a save: only observations of w change, and those that a
\* resolution overtakes are late.
LEMMA SavedJobs ==
  ASSUME TypeInv, NEW p, NEW w \in Watches, NEW x, SaveBy(p, w, x)
  PROVE  /\ job' \in [Procs -> JobType]
         /\ \A r \in Procs : Resumed(w, job[r], job'[r])
         /\ \A r \in Procs : Conclusive(job'[r])
         /\ \A v : SameJobs(v, job, job')
         /\ p \in Procs => job'[p] = NoJob
         /\ x.state \in Resolved /\ watch[w].state \notin Resolved =>
              \A r \in Procs : job'[r].kind = "observe" /\ job'[r].watch = w => job'[r].late
<1>1. job \in [Procs -> JobType] /\ \A r \in Procs : Conclusive(job[r])
  BY DEF TypeInv
<1>2. job' = [r \in Procs |->
               CASE r = p -> NoJob
                 [] r # p /\ job[r].kind = "observe" /\ job[r].watch = w ->
                      Overtaken(w, x, job[r])
                 [] OTHER -> job[r]]
  BY DEF SaveBy
<1>3. ASSUME NEW r \in Procs
      PROVE  /\ r = p => job'[r] = NoJob
             /\ r # p /\ job[r].kind = "observe" /\ job[r].watch = w =>
                  job'[r] = Overtaken(w, x, job[r])
             /\ r # p /\ ~(job[r].kind = "observe" /\ job[r].watch = w) =>
                  job'[r] = job[r]
  <2> DEFINE o == Overtaken(w, x, job[r])
  <2>1. job'[r] = CASE r = p -> NoJob
                    [] r # p /\ job[r].kind = "observe" /\ job[r].watch = w -> o
                    [] OTHER -> job[r]
    BY <1>2
  <2> HIDE DEF o
  <2>2. r = p => job'[r] = NoJob
    BY <2>1
  <2>3. r # p /\ job[r].kind = "observe" /\ job[r].watch = w => job'[r] = o
    BY <2>1
  <2>4. r # p /\ ~(job[r].kind = "observe" /\ job[r].watch = w) => job'[r] = job[r]
    BY <2>1
  <2> QED BY <2>2, <2>3, <2>4 DEF o
<1>4. ASSUME NEW r \in Procs
      PROVE  Resumed(w, job[r], job'[r])
  <2>1. CASE r # p /\ job[r].kind = "observe" /\ job[r].watch = w
    <3>1. job'[r] = Overtaken(w, x, job[r])
      BY <1>3, <2>1
    <3>2. job'[r] = Late(job[r]) \/ job'[r] = job[r]
      BY <3>1 DEF Overtaken, Late
    <3> QED BY <2>1, <3>2 DEF Resumed
  <2>2. CASE ~(r # p /\ job[r].kind = "observe" /\ job[r].watch = w)
    <3>1. job'[r] = NoJob \/ job'[r] = job[r]
      BY <1>3, <2>2
    <3> QED BY <3>1 DEF Resumed
  <2> QED BY <2>1, <2>2
<1>5. ASSUME NEW r \in Procs
      PROVE  /\ job'[r] \in JobType /\ Conclusive(job'[r])
             /\ \A v : Holds(job'[r], v) => job'[r] = job[r]
  BY <1>1, <1>4, ResumedTyped
<1>6. job' \in [Procs -> JobType]
  BY <1>2, <1>5
<1>7. \A v : SameJobs(v, job, job')
  BY <1>5 DEF SameJobs
<1>8. ASSUME x.state \in Resolved, watch[w].state \notin Resolved, NEW r \in Procs,
             job'[r].kind = "observe", job'[r].watch = w
      PROVE  job'[r].late
  <2>1. r # p
    BY <1>3, <1>8 DEF NoJob
  <2>2. job[r].kind = "observe" /\ job[r].watch = w
    BY <1>3, <1>8, <2>1
  <2>3. job'[r] = Late(job[r])
    <3>1. job'[r] = Overtaken(w, x, job[r])
      BY <1>3, <2>1, <2>2
    <3> QED BY <1>8, <3>1 DEF Overtaken, Late
  <2>4. job[r] \in Observations
    BY <1>1, <2>2, JobKinds
  <2> QED BY <2>3, <2>4, LateTyped
<1>9. p \in Procs => job'[p] = NoJob
  BY <1>3
<1> QED BY <1>4, <1>5, <1>6, <1>7, <1>8, <1>9

\* What the record x must be for a save of it to leave w as it should be.
Improves(w, x) ==
  /\ x \in RecordType
  /\ Sane(x)
  /\ x.kind = watch[w].kind
  /\ Tidies(watch[w].box, x.box)
  /\ Reports(x.status, x.box)

\* What any change of the record of w leaves of the other records.
LEMMA OneSaved ==
  ASSUME TypeInv, NEW w \in Watches, NEW x \in RecordType, Sane(x),
         watch' = [watch EXCEPT ![w] = x]
  PROVE  /\ watch' \in [Watches -> RecordType]
         /\ watch'[w] = x
         /\ \A v \in Watches : v # w => watch'[v] = watch[v]
         /\ \A v \in Watches : Sane(watch'[v])
BY DEF TypeInv

LEMMA SavedBox ==
  ASSUME TypeInv, CarriedInv, ReportsInv, NEW p, NEW w \in Watches, NEW x,
         SaveBy(p, w, x), Improves(w, x), UNCHANGED heard
  PROVE  CarriedInv' /\ ReportsInv'
<1>1. watch \in [Watches -> RecordType] /\ heard \in [Watches -> [Keys -> Nat]]
  BY DEF TypeInv
<1>2. watch' = [watch EXCEPT ![w] = x]
  BY DEF SaveBy
<1>3. watch'[w] = x /\ \A v \in Watches : v # w => watch'[v] = watch[v]
  BY <1>1, <1>2
<1>4. \A v : SameJobs(v, job, job')
  BY SavedJobs
<1>5. \A v \in Watches : watch[v].box \in Seq(Notes) /\ heard[v] \in [Keys -> Nat]
  BY <1>1 DEF RecordType
<1>6. ASSUME NEW v \in Watches
      PROVE  Carried(v, watch'[v].box, job', heard'[v])
  <2> DEFINE b == watch[v].box
             c == watch'[v].box
             H == heard[v]
             K == job'
  <2>1. Carried(v, b, job, H)
    BY DEF CarriedInv
  <2>2. Tidies(b, c)
    <3>1. CASE v = w
      BY <1>3, <3>1 DEF Improves
    <3>2. CASE v # w
      BY <1>3, <1>5, <3>2, SameTidies
    <3> QED BY <3>1, <3>2
  <2>3. b \in Seq(Notes) /\ H \in [Keys -> Nat] /\ SameJobs(v, job, K)
    BY <1>4, <1>5
  <2>4. heard'[v] = H
    OBVIOUS
  <2> HIDE DEF b, c, H, K
  <2>5. Carried(v, c, K, H)
    BY <2>1, <2>2, <2>3, TidiedCarried
  <2> QED BY <2>4, <2>5 DEF c, K
<1>7. ASSUME NEW v \in Watches
      PROVE  Reports(watch'[v].status, watch'[v].box)
  <2>1. CASE v = w
    BY <1>3, <2>1 DEF Improves
  <2>2. CASE v # w
    BY <1>3, <2>2 DEF ReportsInv
  <2> QED BY <2>1, <2>2
<1> QED BY <1>6, <1>7 DEF CarriedInv, ReportsInv

-----------------------------------------------------------------------------
(* Kinds of steps *)

\* A save under a free lease.
LEMMA FreeSave ==
  ASSUME WatchInv, NEW p, NEW w \in Watches, NEW x, LeaseIsFree, Active(w),
         SaveBy(p, w, x), Improves(w, x),
         w \in screen.by /\ x.status = "active" =>
           x.state = watch[w].state /\ x.question = watch[w].question,
         UNCHANGED <<due, collected, reply, screen, task, managed, heard>>,
         budget' \in BudgetType
  PROVE  WatchInv'
<1>0. TypeInv /\ CarriedInv /\ ReportsInv /\ CollectedInv /\ ReplyInv /\ AnswerInv
  BY DEF WatchInv
<1>1. watch' = [watch EXCEPT ![w] = x] /\ x \in RecordType /\ Sane(x)
  BY DEF SaveBy, Improves
<1>2. /\ watch' \in [Watches -> RecordType]
      /\ watch'[w] = x
      /\ \A v \in Watches : v # w => watch'[v] = watch[v]
      /\ \A v \in Watches : Sane(watch'[v])
  BY <1>0, <1>1, OneSaved
<1>3. /\ job' \in [Procs -> JobType]
      /\ \A r \in Procs : Resumed(w, job[r], job'[r])
      /\ \A r \in Procs : Conclusive(job'[r])
  BY <1>0, SavedJobs
<1>4. TypeInv'
  BY <1>0, <1>2, <1>3 DEF TypeInv
<1>5. CarriedInv' /\ ReportsInv'
  BY <1>0, SavedBox
<1>6. CollectedInv'
  <2> SUFFICES ASSUME NEW v \in collected
               PROVE  /\ watch'[v].status = "completed"
                      /\ watch'[v].state \in {"none", "consumed", "superseded"}
                      /\ heard[v][[kind |-> "outcome", ev |-> "completed"]] > 0
    BY DEF CollectedInv
  <2>1. v # w /\ v \in Watches
    BY <1>0 DEF CollectedInv, Active, TypeInv
  <2> QED BY <1>0, <1>2, <2>1 DEF CollectedInv
<1>7. ReplyInv'
  BY DEF ReplyInv, LeaseIsFree
<1>8. AnswerInv'
  <2> SUFFICES ASSUME NEW v \in screen.by, watch'[v].status = "active"
               PROVE  Used(v, screen.show)' /\ Abreast(v, screen.show)'
    BY DEF AnswerInv, Active
  <2>1. v \in Watches
    BY <1>0 DEF TypeInv, ScreenType
  <2>2. /\ Active(v)
        /\ watch'[v].kind = watch[v].kind
        /\ watch'[v].state = watch[v].state
        /\ watch'[v].question = watch[v].question
    <3>1. CASE v = w
      BY <1>2, <3>1 DEF Improves
    <3>2. CASE v # w
      BY <1>2, <2>1, <3>2 DEF Active
    <3> QED BY <3>1, <3>2
  <2>3. Used(v, screen.show) /\ Abreast(v, screen.show)
    BY <1>0, <2>2 DEF AnswerInv
  <2>4. Used(v, screen.show)'
    BY <2>2, <2>3 DEF Used
  <2>5. ASSUME watch[v].state \in Resolved, NEW r \in Procs,
               job'[r].kind = "observe", job'[r].watch = v, ~job'[r].late,
               job'[r].seen \in Questions
        PROVE  job'[r].seen = screen.show
    <3>1. job[r] \in JobType
      BY <1>0 DEF TypeInv
    <3>2. job'[r] = job[r]
      BY <1>3, <2>5, <3>1, ResumedTyped
    <3> QED BY <2>3, <2>5, <3>2 DEF Abreast
  <2>6. Abreast(v, screen.show)'
    BY <2>2, <2>5 DEF Abreast
  <2> QED BY <2>4, <2>6
<1> QED BY <1>4, <1>5, <1>6, <1>7, <1>8 DEF WatchInv

\* Jobs that end, or a deadline or a removal, with nothing written.
LEMMA JobsEnd ==
  ASSUME WatchInv, job' \in [Procs -> JobType],
         \A r \in Procs : job'[r] = job[r] \/ job'[r] = NoJob,
         UNCHANGED <<watch, due, collected, reply, screen, task, managed, heard>>,
         budget' \in BudgetType
  PROVE  WatchInv'
<1>0. TypeInv /\ CarriedInv /\ ReportsInv /\ CollectedInv /\ ReplyInv /\ AnswerInv
  BY DEF WatchInv
<1>1. \A r \in Procs : Conclusive(job'[r])
  BY <1>0 DEF TypeInv, Conclusive, NoJob
<1>2. TypeInv'
  BY <1>0, <1>1 DEF TypeInv
<1>3. \A v : SameJobs(v, job, job')
  BY DEF SameJobs, Holds, NoJob
<1>4. ASSUME NEW v \in Watches
      PROVE  Carried(v, watch[v].box, job', heard[v])
  <2> DEFINE K == job'
  <2>1. watch[v].box \in Seq(Notes) /\ heard[v] \in [Keys -> Nat]
    BY <1>0 DEF TypeInv, RecordType
  <2>2. Carried(v, watch[v].box, job, heard[v]) /\ SameJobs(v, job, K)
    BY <1>0, <1>3 DEF CarriedInv
  <2> HIDE DEF K
  <2>3. Carried(v, watch[v].box, K, heard[v])
    BY <2>1, <2>2, FrameCarried
  <2> QED BY <2>3 DEF K
<1>5. CarriedInv'
  BY <1>4 DEF CarriedInv
<1>6. ReportsInv' /\ CollectedInv'
  BY <1>0 DEF ReportsInv, CollectedInv
<1>7. ReplyInv'
  BY <1>0 DEF ReplyInv, Active
<1>8. AnswerInv'
  <2> SUFFICES ASSUME NEW v \in screen.by, Active(v)
               PROVE  Used(v, screen.show) /\ Abreast(v, screen.show)'
    BY DEF AnswerInv, Active, Used
  <2>1. Used(v, screen.show) /\ Abreast(v, screen.show)
    BY <1>0 DEF AnswerInv
  <2>2. ASSUME watch[v].state \in Resolved, NEW r \in Procs,
               job'[r].kind = "observe", job'[r].watch = v, ~job'[r].late,
               job'[r].seen \in Questions
        PROVE  job'[r].seen = screen.show
    <3>1. job'[r] = job[r]
      BY <2>2 DEF NoJob
    <3> QED BY <2>1, <2>2, <3>1 DEF Abreast
  <2> QED BY <2>1, <2>2 DEF Abreast
<1> QED BY <1>2, <1>5, <1>6, <1>7, <1>8 DEF WatchInv

LEMMA DoneKeeps ==
  ASSUME WatchInv, NEW p \in Procs, job' = [job EXCEPT ![p] = NoJob],
         UNCHANGED <<watch, due, collected, reply, screen, task, managed, heard>>,
         budget' \in BudgetType
  PROVE  WatchInv'
<1>1. job \in [Procs -> JobType] /\ NoJob \in JobType
  BY DEF WatchInv, TypeInv, JobType
<1>2. job' \in [Procs -> JobType] /\ \A r \in Procs : job'[r] = job[r] \/ job'[r] = NoJob
  BY <1>1
<1> QED BY <1>2, JobsEnd

-----------------------------------------------------------------------------
(* Observations *)

\* An idle terminal is counted up to the second time.
LEMMA IdleCounted ==
  ASSUME TypeInv, NEW w \in Watches, Active(w)
  PROVE  /\ watch[w].idle \in 0..1
         /\ IdleCount(w) \in 0..2
         /\ IdleCount(w) # 0 => screen.show = "idle"
<1>1. watch[w] \in RecordType /\ Sane(watch[w])
  BY DEF TypeInv
<1>2. watch[w].idle \in 0..1
  BY <1>1 DEF RecordType, Sane, Active
<1> QED BY <1>2 DEF IdleCount

\* What is seen is a question only if it is on display.
LEMMA SeenTyped ==
  ASSUME TypeInv, NEW w \in Watches, Active(w)
  PROVE  /\ SeenByActivity(w) \in Prompts \cup {"pending", "completed", "invalidated"}
         /\ SeenByActivity(w) \in Questions => SeenByActivity(w) = screen.show
         /\ IdleCount(w) = 2 => SeenByActivity(w) = "completed"
         /\ SeenByTask(w) \in Prompts \cup {"pending", "completed", "invalidated"}
         /\ SeenByTask(w) \in Questions => SeenByTask(w) = screen.show
<1> DEFINE s == screen.show
           a == SeenByActivity(w)
           t == SeenByTask(w)
<1>1. {"working", "idle", "gone", "pending", "completed", "invalidated"} \cap Prompts = {}
  BY PromptAssumption DEF Prompts
<1>2. /\ s = "gone" => a = "invalidated"
      /\ s \in Prompts => a = s
      /\ s = "idle" => a = IF IdleCount(w) >= 2 THEN "completed" ELSE "pending"
      /\ s \notin Prompts \cup {"gone", "idle"} => a = "pending"
  BY <1>1 DEF SeenByActivity
<1>3. /\ task.ended => t = "completed"
      /\ ~task.ended /\ s = "gone" => t = "invalidated"
      /\ ~task.ended /\ s \in Prompts => t = s
      /\ ~task.ended /\ s \notin Prompts \cup {"gone"} => t = "pending"
  BY <1>1 DEF SeenByTask
<1>4. Questions \subseteq Prompts
  BY DEF Prompts
<1>5. IdleCount(w) \in 0..2 /\ (IdleCount(w) # 0 => s = "idle")
  BY IdleCounted
<1> HIDE DEF s, a, t
<1>6. a \in Prompts \cup {"pending", "completed", "invalidated"}
  BY <1>2
<1>7. a \in Questions => a = s
  <2>1. SUFFICES ASSUME a \in Questions PROVE a = s
    OBVIOUS
  <2>2. a \notin {"pending", "completed", "invalidated"}
    BY <1>1, <1>4, <2>1
  <2> QED BY <1>2, <2>2
<1>8. IdleCount(w) = 2 => a = "completed"
  BY <1>2, <1>5
<1>9. t \in Prompts \cup {"pending", "completed", "invalidated"}
  BY <1>3
<1>10. t \in Questions => t = s
  <2>1. SUFFICES ASSUME t \in Questions PROVE t = s
    OBVIOUS
  <2>2. t \notin {"pending", "completed", "invalidated"}
    BY <1>1, <1>4, <2>1
  <2> QED BY <1>3, <2>2
<1> QED BY <1>6, <1>7, <1>8, <1>9, <1>10 DEF s, a, t

LEMMA ObservationTyped ==
  ASSUME TypeInv, NEW w \in Watches, Active(w)
  PROVE  /\ Observation(w) \in Observations
         /\ Observation(w).kind = "observe"
         /\ Conclusive(Observation(w))
         /\ Observation(w).seen \in Questions => Observation(w).seen = screen.show
<1> DEFINE activity == w \in Activity
           question == screen.show \in Questions
           active == screen.show = "working" \/ screen.show \in Approvals
           no == FALSE
           seen == IF activity THEN SeenByActivity(w) ELSE SeenByTask(w)
           offset == IF activity THEN 0 ELSE task.progress
           armed == activity /\ (watch[w].armed \/ active)
           idle == IF activity THEN IF question THEN watch[w].idle ELSE IdleCount(w)
                   ELSE 0
           exec == question /\ Executable(w, screen.show)
           mute == question /\ Suppressed(w, screen.show)
           o == Observation(w)
<1>1. o = [kind |-> "observe", watch |-> w, late |-> no, seen |-> seen,
           offset |-> offset, armed |-> armed, idle |-> idle, exec |-> exec,
           mute |-> mute]
  BY DEF Observation
<1>2. /\ seen \in Prompts \cup {"pending", "completed", "invalidated"}
      /\ seen \in Questions => seen = screen.show
  BY SeenTyped
<1>3. offset \in 0..MaxProgress
  BY BoundAssumption DEF TypeInv
<1>4. no \in BOOLEAN /\ armed \in BOOLEAN /\ exec \in BOOLEAN /\ mute \in BOOLEAN
  OBVIOUS
<1>5. idle \in 0..2
  BY IdleCounted
<1>6. idle = 2 => seen = "completed"
  <2>1. SUFFICES ASSUME idle = 2 PROVE seen = "completed"
    OBVIOUS
  <2>2. activity /\ IdleCount(w) = 2
    BY <2>1, IdleCounted
  <2> QED BY <2>2, SeenTyped
<1> HIDE DEF seen, offset, armed, idle, exec, mute, o, no
<1>7. o \in Observations
  BY <1>1, <1>2, <1>3, <1>4, <1>5 DEF Observations
<1>8. o.kind = "observe" /\ o.seen = seen /\ o.idle = idle
  BY <1>1
<1>9. Conclusive(o)
  BY <1>5, <1>6, <1>8 DEF Conclusive
<1> QED BY <1>2, <1>7, <1>8, <1>9 DEF o

LEMMA ObserveKeeps ==
  ASSUME WatchInv, NEW p \in Procs, NEW w \in Watches, Observe(p, w)
  PROVE  WatchInv'
<1>0. TypeInv /\ CarriedInv /\ ReportsInv /\ CollectedInv /\ ReplyInv /\ AnswerInv
  BY DEF WatchInv
<1> DEFINE o == Observation(w)
<1>1. /\ job' = [job EXCEPT ![p] = o]
      /\ UNCHANGED <<watch, due, collected, reply, screen, task, managed, heard, budget>>
      /\ Active(w)
  BY DEF Observe
<1>2. /\ o \in JobType /\ o.kind = "observe" /\ Conclusive(o)
      /\ o.seen \in Questions => o.seen = screen.show
  BY <1>0, <1>1, ObservationTyped DEF JobType
<1> HIDE DEF o
<1>3. /\ job' \in [Procs -> JobType] /\ job'[p] = o
      /\ \A r \in Procs : r # p => job'[r] = job[r]
  BY <1>0, <1>1, <1>2 DEF TypeInv
<1>4. \A r \in Procs : Conclusive(job'[r])
  BY <1>0, <1>2, <1>3 DEF TypeInv
<1>5. TypeInv'
  BY <1>0, <1>1, <1>3, <1>4 DEF TypeInv
<1>6. \A v : SameJobs(v, job, job')
  <2> SUFFICES ASSUME NEW v, NEW r \in Procs, Holds(job'[r], v)
               PROVE  job'[r] = job[r]
    BY DEF SameJobs
  <2> QED BY <1>2, <1>3 DEF Holds
<1>7. ASSUME NEW v \in Watches
      PROVE  Carried(v, watch[v].box, job', heard[v])
  <2> DEFINE K == job'
  <2>1. watch[v].box \in Seq(Notes) /\ heard[v] \in [Keys -> Nat]
    BY <1>0 DEF TypeInv, RecordType
  <2>2. Carried(v, watch[v].box, job, heard[v]) /\ SameJobs(v, job, K)
    BY <1>0, <1>6 DEF CarriedInv
  <2> HIDE DEF K
  <2>3. Carried(v, watch[v].box, K, heard[v])
    BY <2>1, <2>2, FrameCarried
  <2> QED BY <2>3 DEF K
<1>8. CarriedInv'
  BY <1>1, <1>7 DEF CarriedInv
<1>9. ReportsInv' /\ CollectedInv' /\ ReplyInv'
  BY <1>0, <1>1 DEF ReportsInv, CollectedInv, ReplyInv, Active
<1>10. AnswerInv'
  <2> SUFFICES ASSUME NEW v \in screen.by, Active(v)
               PROVE  Used(v, screen.show) /\ Abreast(v, screen.show)'
    BY <1>1 DEF AnswerInv, Active, Used
  <2>1. Used(v, screen.show) /\ Abreast(v, screen.show)
    BY <1>0 DEF AnswerInv
  <2>2. ASSUME watch[v].state \in Resolved, NEW r \in Procs,
               job'[r].kind = "observe", job'[r].watch = v, ~job'[r].late,
               job'[r].seen \in Questions
        PROVE  job'[r].seen = screen.show
    <3>1. CASE r = p
      BY <1>2, <1>3, <2>2, <3>1
    <3>2. CASE r # p
      BY <1>3, <2>1, <2>2, <3>2 DEF Abreast
    <3> QED BY <3>1, <3>2
  <2> QED BY <1>1, <2>1, <2>2 DEF Abreast
<1> QED BY <1>5, <1>8, <1>9, <1>10 DEF WatchInv

-----------------------------------------------------------------------------
(* Records *)

LEMMA NoteTyped ==
  ASSUME NEW kind, NEW ev, [kind |-> kind, ev |-> ev] \in Keys
  PROVE  /\ Note(kind, ev) \in Notes
         /\ Fresh(Note(kind, ev))
         /\ Note(kind, ev).key = [kind |-> kind, ev |-> ev]
<1> DEFINE k == [kind |-> kind, ev |-> ev]
           no == FALSE
           s == "pending"
           n == Note(kind, ev)
<1>1. n = [key |-> k, status |-> s, attempt |-> 0, lapsed |-> no, ever |-> no]
  BY DEF Note
<1>2. k \in Keys /\ no \in BOOLEAN /\ ~no /\ s = "pending"
  OBVIOUS
<1> HIDE DEF k, no, n, s
<1>3. n \in Notes
  BY <1>1, <1>2 DEF Notes
<1>4. n.key = k /\ n.status = s /\ n.attempt = 0 /\ n.lapsed = no /\ n.ever = no
  BY <1>1
<1>5. Fresh(n)
  BY <1>2, <1>4 DEF Fresh
<1> QED BY <1>3, <1>4, <1>5 DEF n, k

\* A pending question withdrawn, the rest left as it is.
LEMMA WithdrawnTyped ==
  ASSUME NEW x \in RecordType, (x.state = "none") = (x.question = None)
  PROVE  /\ Withdrawn(x) \in RecordType
         /\ Withdrawn(x).kind = x.kind /\ Withdrawn(x).status = x.status
         /\ Withdrawn(x).question = x.question /\ Withdrawn(x).idle = x.idle
         /\ (Withdrawn(x).state = "none") = (Withdrawn(x).question = None)
         /\ Withdrawn(x).state # "pending"
         /\ x.state # "pending" => Withdrawn(x) = x
         /\ Withdrawn(x).box = x.box \/ Withdrawn(x).box = DropUndelivered(x.box)
<1> DEFINE s == "superseded"
           b == DropUndelivered(x.box)
           y == Withdrawn(x)
<1>1. b \in Seq(Notes)
  BY DropTidies DEF RecordType
<1>2. CASE x.state = "pending"
  <2>1. y = [x EXCEPT !.state = s, !.box = b]
    BY <1>2 DEF Withdrawn
  <2>2. s \in Resolved \cup {"none", "pending", "reserved"} /\ s # "pending" /\ s # "none"
    BY DEF Resolved
  <2> HIDE DEF s, b, y
  <2>3. y \in RecordType
    BY <1>1, <2>1, <2>2 DEF RecordType
  <2>4. /\ y.kind = x.kind /\ y.status = x.status /\ y.question = x.question
        /\ y.idle = x.idle /\ y.state = s /\ y.box = b
    BY <2>1 DEF RecordType
  <2>5. x.question # None
    BY <1>2
  <2> QED BY <1>2, <2>2, <2>3, <2>4, <2>5 DEF y, b
<1>3. CASE x.state # "pending"
  <2>1. y = x
    BY <1>3 DEF Withdrawn
  <2> HIDE DEF y
  <2> QED BY <1>3, <2>1 DEF y
<1> QED BY <1>2, <1>3

\* Attention that is dropped remains attention.
LEMMA DropReports ==
  ASSUME NEW b \in Seq(Notes), NEW s, s = "active", Reports(s, b)
  PROVE  Reports(s, DropUndelivered(b))
<1> DEFINE d == DropUndelivered(b)
<1>1. DOMAIN d = DOMAIN b /\ \A i \in DOMAIN b : d[i].key = b[i].key
  BY DropTidies, BoxTyped
<1> HIDE DEF d
<1>2. \A i \in DOMAIN d : Attention(d[i])
  BY <1>1 DEF Reports, Attention
<1> QED BY <1>2 DEF Reports, d

LEMMA WithdrawnImproves ==
  ASSUME TypeInv, ReportsInv, NEW w \in Watches, Active(w)
  PROVE  Improves(w, Withdrawn(watch[w]))
<1> DEFINE x == watch[w]
           y == Withdrawn(x)
<1>1. x \in RecordType /\ Sane(x) /\ x.status = "active" /\ Reports(x.status, x.box)
  BY DEF TypeInv, ReportsInv, Active
<1>2. x.box \in Seq(Notes)
  BY <1>1 DEF RecordType
<1> HIDE DEF x
<1>3. /\ y \in RecordType /\ y.kind = x.kind /\ y.status = x.status /\ y.idle = x.idle
      /\ (y.state = "none") = (y.question = None)
      /\ y.box = x.box \/ y.box = DropUndelivered(x.box)
  BY <1>1, WithdrawnTyped DEF Sane
<1> HIDE DEF y
<1>4. Sane(y)
  BY <1>1, <1>3 DEF Sane
<1>5. Tidies(x.box, y.box)
  BY <1>2, <1>3, SameTidies, DropTidies
<1>6. Reports(y.status, y.box)
  BY <1>1, <1>2, <1>3, DropReports
<1> QED BY <1>3, <1>4, <1>5, <1>6 DEF Improves, x, y

\* Settlement adds the outcome behind the attention it drops.
LEMMA SettledImproves ==
  ASSUME TypeInv, ReportsInv, NEW w \in Watches, Active(w),
         NEW x \in RecordType, (x.state = "none") = (x.question = None),
         x.kind = watch[w].kind, x.box = watch[w].box,
         NEW outcome \in Outcomes
  PROVE  /\ Improves(w, Settled(x, outcome))
         /\ Settled(x, outcome).status = outcome
<1> DEFINE b == x.box
           d == DropUndelivered(b)
           n == Note("outcome", outcome)
           k == [kind |-> "outcome", ev |-> outcome]
           c == Append(d, n)
           y == Withdrawn(x)
           z == Settled(x, outcome)
<1>1. b \in Seq(Notes) /\ \A i \in DOMAIN b : Attention(b[i])
  BY DEF RecordType, ReportsInv, Reports, Active
<1>2. k \in Keys /\ k.kind = "outcome"
  BY DEF Keys
<1>3. n \in Notes /\ Fresh(n) /\ n.key = k
  BY <1>2, NoteTyped
<1>4. \A i \in DOMAIN b : b[i].key # n.key
  BY <1>1, <1>2, <1>3 DEF Attention
<1>5. /\ y \in RecordType /\ y.kind = x.kind
      /\ (y.state = "none") = (y.question = None)
  BY WithdrawnTyped
<1>6. z = [y EXCEPT !.status = outcome, !.box = c]
  BY DEF Settled
<1>7. /\ Tidies(b, d) /\ d \in Seq(Notes) /\ Len(d) = Len(b)
      /\ \A i \in DOMAIN b : Attention(b[i]) => d[i].status \notin {"pending", "failed"}
  BY <1>1, DropTidies
<1> HIDE DEF b, d, n, k, y, z
<1>8. /\ Tidies(b, c) /\ Len(c) = Len(b) + 1 /\ c[Len(b) + 1] = n
      /\ \A i \in DOMAIN b : c[i] = d[i]
  BY <1>1, <1>3, <1>4, <1>7, AppendTidies
<1>9. c \in Seq(Notes)
  BY <1>8 DEF Tidies
<1> HIDE DEF c
<1>10. /\ z \in RecordType /\ z.kind = x.kind /\ z.status = outcome /\ z.box = c
       /\ (z.state = "none") = (z.question = None)
  BY <1>5, <1>6, <1>9 DEF RecordType
<1>11. outcome # "active"
  BY DEF Outcomes
<1>12. Sane(z)
  BY <1>10, <1>11 DEF Sane
<1>13. /\ Len(b) \in Nat /\ DOMAIN b = 1..Len(b) /\ DOMAIN c = 1..Len(c)
  BY <1>1, <1>9, BoxTyped
<1>14. \A i \in DOMAIN c : i \in DOMAIN b \/ i = Len(b) + 1
  BY <1>8, <1>13
<1>15. Len(b) + 1 \in DOMAIN c
  BY <1>8, <1>13
<1>16. ~Attention(n)
  BY <1>2, <1>3 DEF Attention
<1>17. ASSUME NEW i \in DOMAIN c, Attention(c[i])
       PROVE  c[i].status \notin {"pending", "failed"}
  <2>1. i \in DOMAIN b
    BY <1>8, <1>14, <1>16, <1>17
  <2> QED BY <1>1, <1>7, <1>8, <2>1
<1>18. Reports(outcome, c)
  BY <1>3, <1>8, <1>11, <1>15, <1>17 DEF Reports, k
<1> QED BY <1>8, <1>10, <1>12, <1>18 DEF Improves, z, b

\* A record saved with a checkpoint that may be saved.
LEMMA CheckpointTyped ==
  ASSUME NEW x \in RecordType, NEW o \in Observations
  PROVE  /\ Checkpointed(x, o) \in RecordType
         /\ Checkpointed(x, o).kind = x.kind /\ Checkpointed(x, o).status = x.status
         /\ Checkpointed(x, o).question = x.question /\ Checkpointed(x, o).state = x.state
         /\ Checkpointed(x, o).box = x.box /\ Checkpointed(x, o).idle = o.idle
<1>1. o.offset \in 0..MaxProgress /\ o.armed \in BOOLEAN /\ o.idle \in 0..3
  BY DEF Observations
<1> QED BY <1>1 DEF Checkpointed, RecordType

LEMMA CheckpointImproves ==
  ASSUME NEW w \in Watches, NEW x, Improves(w, x), NEW o \in Observations, o.idle <= 1
  PROVE  /\ Improves(w, Checkpointed(x, o))
         /\ Checkpointed(x, o).status = x.status
         /\ Checkpointed(x, o).state = x.state
         /\ Checkpointed(x, o).question = x.question
BY CheckpointTyped DEF Improves, Sane

\* A record that is not changed is one that may be saved.
LEMMA SameImproves ==
  ASSUME TypeInv, ReportsInv, NEW w \in Watches
  PROVE  Improves(w, watch[w])
<1>1. watch[w].box \in Seq(Notes)
  BY DEF TypeInv, RecordType
<1> QED BY <1>1, SameTidies DEF TypeInv, ReportsInv, Improves

\* Attention that is new to the outbox of an active Watch.
LEMMA AttentionAdded ==
  ASSUME NEW b \in Seq(Notes), NEW d \in Seq(Notes), d = b \/ d = DropUndelivered(b),
         Reports("active", b),
         NEW kind, NEW ev, [kind |-> kind, ev |-> ev] \in Keys, kind # "outcome",
         ~Has(b, kind, ev)
  PROVE  /\ Tidies(b, Append(d, Note(kind, ev)))
         /\ Reports("active", Append(d, Note(kind, ev)))
<1> DEFINE n == Note(kind, ev)
           k == [kind |-> kind, ev |-> ev]
           c == Append(d, n)
           s == "active"
<1>1. n \in Notes /\ Fresh(n) /\ n.key = k
  BY NoteTyped
<1>2. \A i \in DOMAIN b : b[i].key # k
  BY DEF Has
<1>3. Attention(n)
  BY <1>1 DEF Attention
<1>4. Tidies(b, d) /\ Len(d) = Len(b) /\ \A i \in DOMAIN b : d[i].key = b[i].key
  BY SameTidies, DropTidies
<1>5. Reports(s, b) /\ s = "active"
  OBVIOUS
<1> HIDE DEF n, k, c, s
<1>6. \A i \in DOMAIN b : b[i].key # n.key
  BY <1>1, <1>2
<1>7. /\ Tidies(b, c) /\ Len(c) = Len(b) + 1 /\ c[Len(b) + 1] = n
      /\ \A i \in DOMAIN b : c[i] = d[i]
  BY <1>1, <1>4, <1>6, AppendTidies DEF c
<1>8. c \in Seq(Notes)
  BY <1>7 DEF Tidies
<1>9. Len(b) \in Nat /\ DOMAIN b = 1..Len(b) /\ DOMAIN c = 1..Len(c)
  BY <1>8, BoxTyped
<1>10. ASSUME NEW i \in DOMAIN c
       PROVE  Attention(c[i])
  <2>1. i \in DOMAIN b \/ i = Len(b) + 1
    BY <1>7, <1>9
  <2>2. CASE i \in DOMAIN b
    <3>1. Attention(b[i]) /\ c[i].key = b[i].key
      BY <1>4, <1>5, <1>7, <2>2 DEF Reports
    <3> QED BY <3>1 DEF Attention
  <2>3. CASE i = Len(b) + 1
    BY <1>3, <1>7, <2>3
  <2> QED BY <2>1, <2>2, <2>3
<1>11. Reports(s, c)
  BY <1>5, <1>10 DEF Reports
<1> QED BY <1>7, <1>11 DEF c, n, s

LEMMA AnnouncedTidies ==
  ASSUME NEW b \in Seq(Notes), Reports("active", b), NEW q \in Questions,
         NEW exec \in BOOLEAN, NEW mute \in BOOLEAN
  PROVE  Tidies(b, Announced(b, q, exec, mute)) /\ Reports("active", Announced(b, q, exec, mute))
<1> DEFINE kind == IF exec THEN "required" ELSE "manual"
           c == Announced(b, q, exec, mute)
           s == "active"
<1>1. c = IF mute THEN DropUndelivered(b)
          ELSE IF Has(b, kind, q) THEN b
          ELSE Append(DropUndelivered(b), Note(kind, q))
  BY DEF Announced
<1>2. [kind |-> kind, ev |-> q] \in Keys /\ kind # "outcome"
  BY DEF Keys
<1>3. Reports(s, b) /\ s = "active"
  OBVIOUS
<1>4. CASE mute
  <2>1. c = DropUndelivered(b)
    BY <1>1, <1>4
  <2> HIDE DEF c, s
  <2>2. Tidies(b, c) /\ Reports(s, c)
    BY <1>3, <2>1, DropTidies, DropReports
  <2> QED BY <2>2 DEF c, s
<1>5. CASE ~mute /\ Has(b, kind, q)
  <2>1. c = b
    BY <1>1, <1>5
  <2> HIDE DEF c, s
  <2>2. Tidies(b, c) /\ Reports(s, c)
    BY <1>3, <2>1, SameTidies
  <2> QED BY <2>2 DEF c, s
<1>6. CASE ~mute /\ ~Has(b, kind, q)
  <2>1. c = Append(DropUndelivered(b), Note(kind, q))
    BY <1>1, <1>6
  <2>2. DropUndelivered(b) \in Seq(Notes)
    BY DropTidies
  <2> HIDE DEF c, kind
  <2>3. Tidies(b, c) /\ Reports("active", c)
    BY <1>2, <1>6, <2>1, <2>2, AttentionAdded
  <2> QED BY <2>3 DEF c
<1> QED BY <1>4, <1>5, <1>6

LEMMA AskedImproves ==
  ASSUME TypeInv, ReportsInv, NEW w \in Watches, Active(w),
         NEW o \in Observations, o.seen \in Questions
  PROVE  Improves(w, Asked(watch[w], o)) /\ Asked(watch[w], o).status = "active"
<1> DEFINE x == watch[w]
           b == x.box
           q == o.seen
           c == Announced(b, q, o.exec, o.mute)
           s == "pending"
           y == Asked(x, o)
<1>1. x \in RecordType /\ Sane(x) /\ x.status = "active" /\ Reports("active", b)
  BY DEF TypeInv, ReportsInv, Active
<1>2. b \in Seq(Notes)
  BY <1>1 DEF RecordType
<1>3. o.exec \in BOOLEAN /\ o.mute \in BOOLEAN
  BY DEF Observations
<1>4. Tidies(b, c) /\ Reports("active", c)
  BY <1>1, <1>2, <1>3, AnnouncedTidies
<1>5. c \in Seq(Notes)
  BY <1>4 DEF Tidies
<1>6. y = [x EXCEPT !.question = q, !.state = s, !.exec = o.exec, !.box = c]
  BY DEF Asked
<1>7. s \in Resolved \cup {"none", "pending", "reserved"} /\ s # "none"
  OBVIOUS
<1>8. q # None /\ q \in Questions
  BY PromptAssumption
<1> HIDE DEF b, q, c, s, y, x
<1>9. y \in RecordType
  BY <1>1, <1>3, <1>5, <1>6, <1>7, <1>8 DEF RecordType
<1>10. /\ y.kind = x.kind /\ y.status = x.status /\ y.question = q /\ y.state = s
       /\ y.box = c /\ y.idle = x.idle
  BY <1>1, <1>6 DEF RecordType
<1>11. Sane(y)
  BY <1>1, <1>7, <1>8, <1>10 DEF Sane
<1> QED BY <1>1, <1>4, <1>9, <1>10, <1>11 DEF Improves, b, x, y

\* The record an approval leaves.
LEMMA ApprovedImproves ==
  ASSUME TypeInv, ReportsInv, NEW w \in Watches, Active(w), NEW a \in Approvals,
         ~Has(watch[w].box, "approval", a),
         NEW y, y = [watch[w] EXCEPT !.box = Append(@, Note("approval", a))]
  PROVE  /\ Improves(w, y)
         /\ y.status = "active" /\ y.state = watch[w].state
         /\ y.question = watch[w].question
<1> DEFINE x == watch[w]
           b == x.box
           c == Append(b, Note("approval", a))
<1>1. x \in RecordType /\ Sane(x) /\ x.status = "active" /\ Reports("active", b)
  BY DEF TypeInv, ReportsInv, Active
<1>2. b \in Seq(Notes)
  BY <1>1 DEF RecordType
<1>3. [kind |-> "approval", ev |-> a] \in Keys
  BY DEF Keys
<1>4. Tidies(b, c) /\ Reports("active", c)
  BY <1>1, <1>2, <1>3, AttentionAdded
<1>5. c \in Seq(Notes)
  BY <1>4 DEF Tidies
<1>6. y = [x EXCEPT !.box = c]
  OBVIOUS
<1> HIDE DEF b, c, x
<1>7. y \in RecordType
  BY <1>1, <1>5, <1>6 DEF RecordType
<1>8. /\ y.kind = x.kind /\ y.status = x.status /\ y.question = x.question
      /\ y.state = x.state /\ y.box = c /\ y.idle = x.idle
  BY <1>1, <1>6 DEF RecordType
<1>9. Sane(y)
  BY <1>1, <1>8 DEF Sane
<1> QED BY <1>1, <1>4, <1>7, <1>8, <1>9 DEF Improves, b, x

-----------------------------------------------------------------------------
(* Applying what was observed *)

\* The observation that process p is about to apply.
LEMMA AppliesTyped ==
  ASSUME WatchInv, NEW p \in Procs, Observed(p)
  PROVE  /\ job[p] \in Observations /\ job[p].watch \in Watches /\ LeaseIsFree
         /\ job[p].idle <= 2
         /\ job[p].seen # "completed" => job[p].idle <= 1
<1>1. job[p] \in JobType /\ Conclusive(job[p]) /\ job[p].kind = "observe"
  BY DEF WatchInv, TypeInv, Observed
<1>2. job[p] \in Observations
  BY <1>1, JobKinds
<1>3. job[p].idle \in 0..3 /\ job[p].watch \in Watches
  BY <1>2 DEF Observations
<1> QED BY <1>1, <1>2, <1>3 DEF Conclusive, Observed

LEMMA CommitKeeps ==
  ASSUME WatchInv, NEW p \in Procs, Observed(p), Active(job[p].watch), job[p].idle <= 1,
         NEW x, Improves(job[p].watch, x), Commit(p, x),
         job[p].watch \in screen.by =>
           x.state = watch[job[p].watch].state /\ x.question = watch[job[p].watch].question,
         UNCHANGED <<due, collected, reply, screen, task, managed, heard, budget>>
  PROVE  WatchInv'
<1> DEFINE o == job[p]
           w == o.watch
           y == Checkpointed(x, o)
<1>1. o \in Observations /\ w \in Watches /\ LeaseIsFree
  BY AppliesTyped
<1>2. budget' \in BudgetType
  BY DEF WatchInv, TypeInv
<1>3. CASE Advances(watch[w], o)
  <2>1. SaveBy(p, w, y)
    BY <1>3 DEF Commit
  <2>2. Active(w) /\ Improves(w, x) /\ o.idle <= 1
    OBVIOUS
  <2>3. w \in screen.by => x.state = watch[w].state /\ x.question = watch[w].question
    OBVIOUS
  <2> HIDE DEF w, o
  <2>4. Improves(w, y) /\ y.state = x.state /\ y.question = x.question
    BY <1>1, <2>2, CheckpointImproves
  <2> HIDE DEF y
  <2> QED BY <1>1, <1>2, <2>1, <2>2, <2>3, <2>4, FreeSave
<1>4. CASE ~Advances(watch[w], o)
  <2>1. Done(p)
    BY <1>4 DEF Commit
  <2> QED BY <1>2, <2>1, DoneKeeps DEF Done
<1> QED BY <1>3, <1>4

LEMMA ApplyNothingKeeps ==
  ASSUME WatchInv, NEW p \in Procs, ApplyNothing(p)
  PROVE  WatchInv'
<1>1. budget' \in BudgetType
  BY DEF WatchInv, TypeInv, ApplyNothing
<1> QED BY <1>1, DoneKeeps DEF ApplyNothing, Done

LEMMA ApplyPendingKeeps ==
  ASSUME WatchInv, NEW p \in Procs, ApplyPending(p)
  PROVE  WatchInv'
<1> DEFINE w == job[p].watch
           x == watch[w]
<1>1. /\ Observed(p) /\ Active(w) /\ job[p].seen = "pending" /\ Commit(p, x)
      /\ UNCHANGED <<due, collected, reply, screen, task, managed, heard, budget>>
  BY DEF ApplyPending, Applies
<1>2. w \in Watches /\ job[p].idle <= 1
  BY <1>1, AppliesTyped
<1>3. Improves(w, x)
  BY <1>2, SameImproves DEF WatchInv
<1>4. w \in screen.by => x.state = watch[w].state /\ x.question = watch[w].question
  OBVIOUS
<1> HIDE DEF x
<1> QED BY <1>1, <1>2, <1>3, <1>4, CommitKeeps

LEMMA ApplyApprovalKeeps ==
  ASSUME WatchInv, NEW p \in Procs, ApplyApproval(p)
  PROVE  WatchInv'
<1> DEFINE w == job[p].watch
           a == job[p].seen
           y == [watch[w] EXCEPT !.box = Append(@, Note("approval", a))]
           x == IF Has(watch[w].box, "approval", a) THEN watch[w] ELSE y
<1>1. /\ Observed(p) /\ Active(w) /\ a \in Approvals /\ Commit(p, x)
      /\ UNCHANGED <<due, collected, reply, screen, task, managed, heard, budget>>
  BY DEF ApplyApproval, Applies
<1>2. a # "completed"
  BY <1>1, PromptAssumption
<1>3. w \in Watches /\ job[p].idle <= 1
  BY <1>1, <1>2, AppliesTyped
<1>4. TypeInv /\ ReportsInv
  BY DEF WatchInv
<1>5. Improves(w, x) /\ x.state = watch[w].state /\ x.question = watch[w].question
  <2>1. CASE Has(watch[w].box, "approval", a)
    BY <1>3, <1>4, <2>1, SameImproves
  <2>2. CASE ~Has(watch[w].box, "approval", a)
    <3>1. x = y /\ y = [watch[w] EXCEPT !.box = Append(@, Note("approval", a))]
      BY <2>2
    <3> HIDE DEF x, y, a, w
    <3> QED BY <1>1, <1>3, <1>4, <2>2, <3>1, ApprovedImproves
  <2> QED BY <2>1, <2>2
<1> HIDE DEF x
<1> QED BY <1>1, <1>3, <1>5, CommitKeeps

\* A Watch of which the prompt is used has no pending question.
LEMMA UsedState ==
  ASSUME WatchInv, NEW w, w \in screen.by, Active(w)
  PROVE  watch[w].state \in {"reserved", "consumed", "uncertain"} /\ watch[w].question = screen.show
         /\ Abreast(w, screen.show)
BY DEF WatchInv, AnswerInv, Used

LEMMA ApplyQuestionKeeps ==
  ASSUME WatchInv, NEW p \in Procs, ApplyQuestion(p)
  PROVE  WatchInv'
<1> DEFINE o == job[p]
           w == o.watch
           x == watch[w]
           y == Asked(x, o)
           same == x.question = o.seen
<1>1. /\ Observed(p) /\ Active(w) /\ o.seen \in Questions
      /\ UNCHANGED <<due, collected, reply, screen, task, managed, heard, budget>>
  BY DEF ApplyQuestion, Applies
<1>2. \/ x.state = "none" /\ Commit(p, y)
      \/ same /\ x.state = "pending" /\ Commit(p, y)
      \/ Done(p)
      \/ x.state = "pending" /\ SaveBy(p, w, Withdrawn(x))
      \/ ~same /\ x.state \in Resolved /\ ~o.late /\ Commit(p, y)
  BY DEF ApplyQuestion
<1>3. o.seen # "completed"
  BY <1>1, PromptAssumption
<1>4. w \in Watches /\ o \in Observations /\ o.idle <= 1 /\ LeaseIsFree
  BY <1>1, <1>3, AppliesTyped
<1>5. TypeInv /\ ReportsInv /\ budget' \in BudgetType
  BY <1>1 DEF WatchInv, TypeInv
<1>6. CASE Done(p)
  BY <1>1, <1>5, <1>6, DoneKeeps DEF Done
<1>7. CASE x.state = "pending" /\ SaveBy(p, w, Withdrawn(x))
  <2>1. Improves(w, Withdrawn(x))
    BY <1>1, <1>4, <1>5, WithdrawnImproves
  <2>2. w \notin screen.by
    BY <1>1, <1>7, UsedState
  <2> DEFINE z == Withdrawn(x)
  <2> HIDE DEF z
  <2>3. Improves(w, z) /\ SaveBy(p, w, z)
    BY <1>7, <2>1 DEF z
  <2> HIDE DEF x, w, o
  <2> QED BY <1>1, <1>4, <1>5, <2>2, <2>3, FreeSave
<1>8. CASE Commit(p, y) /\ w \notin screen.by
  <2>1. Improves(w, y)
    BY <1>1, <1>4, <1>5, AskedImproves
  <2> HIDE DEF y
  <2> QED BY <1>1, <1>4, <1>8, <2>1, CommitKeeps
<1>9. ASSUME w \in screen.by
      PROVE  /\ x.state \notin {"none", "pending"}
             /\ ~(~same /\ x.state \in Resolved /\ ~o.late)
  <2>1. /\ x.state \in {"reserved", "consumed", "uncertain"}
        /\ x.question = screen.show /\ Abreast(w, screen.show)
    BY <1>1, <1>9, UsedState
  <2>2. o.kind = "observe"
    BY <1>1 DEF Observed
  <2>3. x.state \in Resolved /\ ~o.late => o.seen = screen.show
    BY <1>1, <2>1, <2>2 DEF Abreast
  <2> QED BY <2>1, <2>3
<1> QED BY <1>2, <1>6, <1>7, <1>8, <1>9

\* A Watch that ends, in one save or in two.
LEMMA SettleKeeps ==
  ASSUME WatchInv, NEW p, NEW w \in Watches, LeaseIsFree, Active(w),
         NEW x \in RecordType, (x.state = "none") = (x.question = None),
         x.kind = watch[w].kind, x.box = watch[w].box, NEW outcome \in Outcomes,
         SettleBy(p, w, x, outcome),
         UNCHANGED <<due, collected, reply, screen, task, managed, heard>>
  PROVE  WatchInv'
<1>0. TypeInv /\ ReportsInv
  BY DEF WatchInv
<1>1. CASE SaveBy(p, w, Settled(x, outcome)) /\ UNCHANGED budget
  <2> DEFINE z == Settled(x, outcome)
  <2>1. Improves(w, z) /\ z.status = outcome /\ SaveBy(p, w, z)
    BY <1>0, <1>1, SettledImproves
  <2>2. z.status # "active"
    BY <2>1 DEF Outcomes
  <2>3. budget' \in BudgetType
    BY <1>0, <1>1 DEF TypeInv
  <2> HIDE DEF z
  <2> QED BY <2>1, <2>2, <2>3, FreeSave
<1>2. CASE /\ watch[w].state = "pending"
           /\ SaveBy(p, w, Withdrawn(watch[w]))
           /\ Spend("crashes")
  <2> DEFINE z == Withdrawn(watch[w])
  <2>1. Improves(w, z) /\ SaveBy(p, w, z)
    BY <1>0, <1>2, WithdrawnImproves
  <2>2. w \notin screen.by
    BY <1>2, UsedState
  <2>3. budget' \in BudgetType
    <3>1. budget \in BudgetType
      BY <1>0 DEF TypeInv
    <3>2. PICK what \in {"shows", "claims", "replies", "fails", "lapses", "crashes"} : Spend(what)
      BY <1>2
    <3> QED BY <3>1, <3>2, SpendTyped
  <2> HIDE DEF z
  <2> QED BY <2>1, <2>2, <2>3, FreeSave
<1> QED BY <1>1, <1>2 DEF SettleBy

LEMMA ApplyEndKeeps ==
  ASSUME WatchInv, NEW p \in Procs, ApplyEnd(p)
  PROVE  WatchInv'
<1> DEFINE o == job[p]
           w == o.watch
           x == Checkpointed(watch[w], o)
<1>1. /\ Observed(p) /\ Active(w) /\ o.seen \in Outcomes
      /\ UNCHANGED <<due, collected, reply, screen, task, managed, heard>>
      /\ IF Advances(watch[w], o)
         THEN SettleBy(p, w, x, o.seen)
         ELSE SaveBy(p, w, Withdrawn(watch[w])) /\ UNCHANGED budget
  BY DEF ApplyEnd, Applies
<1>2. w \in Watches /\ o \in Observations /\ LeaseIsFree
  BY <1>1, AppliesTyped
<1>3. TypeInv /\ ReportsInv
  BY DEF WatchInv
<1>4. watch[w] \in RecordType /\ Sane(watch[w])
  BY <1>2, <1>3 DEF TypeInv
<1>5. CASE Advances(watch[w], o)
  <2>1. /\ x \in RecordType /\ x.kind = watch[w].kind /\ x.box = watch[w].box
        /\ x.state = watch[w].state /\ x.question = watch[w].question
    BY <1>2, <1>4, CheckpointTyped
  <2>2. (x.state = "none") = (x.question = None)
    BY <1>4, <2>1 DEF Sane
  <2>3. SettleBy(p, w, x, o.seen) /\ o.seen \in Outcomes
    BY <1>1, <1>5
  <2> HIDE DEF x
  <2> QED BY <1>1, <1>2, <2>1, <2>2, <2>3, SettleKeeps
<1>6. CASE ~Advances(watch[w], o)
  <2> DEFINE z == Withdrawn(watch[w])
  <2>1. Improves(w, z) /\ SaveBy(p, w, z) /\ budget' \in BudgetType
    BY <1>1, <1>2, <1>3, <1>6, WithdrawnImproves DEF TypeInv
  <2>2. w \in screen.by => z.state = watch[w].state /\ z.question = watch[w].question
    <3>1. SUFFICES ASSUME w \in screen.by PROVE z = watch[w]
      OBVIOUS
    <3>2. watch[w].state # "pending"
      BY <1>1, <3>1, UsedState
    <3> QED BY <3>2 DEF Withdrawn
  <2> HIDE DEF z
  <2> QED BY <1>1, <1>2, <2>1, <2>2, FreeSave
<1> QED BY <1>5, <1>6

LEMMA TimeOutKeeps ==
  ASSUME WatchInv, NEW p, NEW w \in Watches, TimeOut(p, w)
  PROVE  WatchInv'
<1> DEFINE x == watch[w]
           s == "timed_out"
<1>1. /\ LeaseIsFree /\ Active(w) /\ SettleBy(p, w, x, s)
      /\ UNCHANGED <<due, collected, reply, screen, task, managed, heard>>
  BY DEF TimeOut
<1>2. x \in RecordType /\ (x.state = "none") = (x.question = None)
  BY DEF WatchInv, TypeInv, Sane
<1>3. x.kind = watch[w].kind /\ x.box = watch[w].box /\ s \in Outcomes
  BY DEF Outcomes
<1> HIDE DEF x, s
<1> QED BY <1>1, <1>2, <1>3, SettleKeeps

LEMMA CancelKeeps ==
  ASSUME WatchInv, NEW w \in Watches, Cancel(w)
  PROVE  WatchInv'
<1> DEFINE x == watch[w]
           s == "cancelled"
<1>1. /\ LeaseIsFree /\ Active(w) /\ SettleBy(None, w, x, s)
      /\ UNCHANGED <<due, collected, reply, screen, task, managed, heard>>
  BY DEF Cancel
<1>2. x \in RecordType /\ (x.state = "none") = (x.question = None)
  BY DEF WatchInv, TypeInv, Sane
<1>3. x.kind = watch[w].kind /\ x.box = watch[w].box /\ s \in Outcomes
  BY DEF Outcomes
<1> HIDE DEF x, s
<1> QED BY <1>1, <1>2, <1>3, SettleKeeps

-----------------------------------------------------------------------------
(* The responder *)

LEMMA StateImproves ==
  ASSUME TypeInv, ReportsInv, NEW w \in Watches,
         NEW s \in Resolved \cup {"pending", "reserved"}, watch[w].state # "none",
         NEW y, y = [watch[w] EXCEPT !.state = s]
  PROVE  /\ Improves(w, y)
         /\ y.state = s /\ y.status = watch[w].status
         /\ y.question = watch[w].question
<1> DEFINE x == watch[w]
<1>1. x \in RecordType /\ Sane(x) /\ Reports(x.status, x.box)
  BY DEF TypeInv, ReportsInv
<1>2. x.box \in Seq(Notes)
  BY <1>1 DEF RecordType
<1>3. s # "none" /\ s \in Resolved \cup {"none", "pending", "reserved"}
  BY DEF Resolved
<1>4. y = [x EXCEPT !.state = s] /\ x.state # "none"
  OBVIOUS
<1> HIDE DEF x
<1>5. y \in RecordType
  BY <1>1, <1>3, <1>4 DEF RecordType
<1>6. /\ y.kind = x.kind /\ y.status = x.status /\ y.question = x.question
      /\ y.state = s /\ y.box = x.box /\ y.idle = x.idle
  BY <1>1, <1>4 DEF RecordType
<1>7. Sane(y)
  BY <1>1, <1>3, <1>4, <1>6 DEF Sane
<1>8. Tidies(x.box, y.box)
  BY <1>2, <1>6, SameTidies
<1> QED BY <1>1, <1>5, <1>6, <1>7, <1>8 DEF Improves, x

LEMMA ConsumedImproves ==
  ASSUME TypeInv, ReportsInv, NEW w \in Watches, watch[w].state # "none"
  PROVE  /\ Improves(w, Consumed(watch[w]))
         /\ Consumed(watch[w]).state = "consumed"
         /\ Consumed(watch[w]).status = watch[w].status
         /\ Consumed(watch[w]).question = watch[w].question
<1> DEFINE x == watch[w]
           b == x.box
           drops(n) == /\ n.key = [kind |-> "required", ev |-> x.question]
                       /\ n.status \in {"pending", "failed", "dead"}
           c == [i \in DOMAIN b |-> IF drops(b[i]) THEN Superseded(b[i]) ELSE b[i]]
           s == "consumed"
           y == Consumed(x)
<1>1. x \in RecordType /\ Sane(x) /\ Reports(x.status, b) /\ x.state # "none"
  BY DEF TypeInv, ReportsInv
<1>2. b \in Seq(Notes)
  BY <1>1 DEF RecordType
<1>3. y = [x EXCEPT !.state = s, !.box = c]
  BY DEF Consumed, Superseded
<1>4. s \in Resolved \cup {"none", "pending", "reserved"} /\ s # "none" /\ s = "consumed"
  BY DEF Resolved
<1>5. /\ Len(b) \in Nat /\ DOMAIN b = 1..Len(b) /\ \A i \in DOMAIN b : b[i] \in Notes
  BY <1>2, BoxTyped
<1>6. \A i \in DOMAIN b :
        c[i] = b[i] \/ (drops(b[i]) /\ c[i] = Superseded(b[i]))
  OBVIOUS
<1>7. \A n : drops(n) => Dropped(n)
  BY DEF Dropped, Attention
<1>8. c \in [1..Len(b) -> Notes]
  BY <1>5, SupersededNote
<1> HIDE DEF c, drops, s, b, y, x
<1>9. \A i \in DOMAIN b :
        c[i] = b[i] \/ (Dropped(b[i]) /\ c[i] = Superseded(b[i]))
  BY <1>6, <1>7
<1>10. c \in Seq(Notes) /\ Len(c) = Len(b)
  <2>1. c \in Seq(Notes)
    BY <1>5, <1>8, SeqDef
  <2>2. DOMAIN c = 1..Len(b) /\ DOMAIN c = 1..Len(c) /\ Len(c) \in Nat
    BY <1>8, <2>1, LenProperties
  <2>3. Len(b) \in Nat
    BY <1>5
  <2> QED BY <2>1, <2>2, <2>3
<1>11. Len(c) # Len(b) + 1
  <2>1. Len(b) \in Nat
    BY <1>5
  <2> QED BY <1>10, <2>1
<1>12. Tidies(b, c)
  BY <1>9, <1>10, <1>11, Zenon DEF Tidies
<1>13. DOMAIN c = DOMAIN b
  BY <1>5, <1>8
<1>14. \A i \in DOMAIN b :
         /\ c[i].key = b[i].key
         /\ c[i].status = b[i].status \/ c[i].status = "superseded"
  BY <1>2, <1>12, TidiedNote
<1>15. Reports(x.status, c)
  <2>1. \A i \in DOMAIN b : Attention(c[i]) <=> Attention(b[i])
    BY <1>14 DEF Attention
  <2>2. CASE x.status = "active"
    BY <1>1, <1>13, <2>1, <2>2 DEF Reports
  <2>3. CASE x.status # "active"
    <3>1. \E i \in DOMAIN c : c[i].key = [kind |-> "outcome", ev |-> x.status]
      BY <1>1, <1>13, <1>14, <2>3 DEF Reports
    <3>2. ASSUME NEW i \in DOMAIN c, Attention(c[i])
          PROVE  c[i].status \notin {"pending", "failed"}
      BY <1>1, <1>13, <1>14, <2>1, <2>3, <3>2 DEF Reports
    <3> QED BY <2>3, <3>1, <3>2 DEF Reports
  <2> QED BY <2>2, <2>3
<1>16. y \in RecordType
  BY <1>1, <1>3, <1>4, <1>10 DEF RecordType
<1>17. /\ y.kind = x.kind /\ y.status = x.status /\ y.question = x.question
       /\ y.state = s /\ y.box = c /\ y.idle = x.idle
  BY <1>1, <1>3 DEF RecordType
<1>18. Sane(y)
  BY <1>1, <1>4, <1>17 DEF Sane
<1> QED BY <1>4, <1>12, <1>15, <1>16, <1>17, <1>18 DEF Improves, x, y, b

\* A save by the responder of a Watch that waits for its answer.
LEMMA ReplySave ==
  ASSUME WatchInv, NEW w \in Watches, watch[w].state \in {"pending", "reserved"},
         NEW x, SaveBy(None, w, x), Improves(w, x),
         reply' \in [watch : Watches, stage : {"reserved", "typed"}] \cup {NoReply},
         UNCHANGED <<due, collected, screen, task, managed, heard>>,
         budget' \in BudgetType
  PROVE  /\ TypeInv' /\ CarriedInv' /\ ReportsInv' /\ CollectedInv'
         /\ watch'[w] = x
         /\ \A v \in Watches : v # w => watch'[v] = watch[v]
<1>0. TypeInv /\ CarriedInv /\ ReportsInv /\ CollectedInv
  BY DEF WatchInv
<1>1. watch' = [watch EXCEPT ![w] = x] /\ x \in RecordType /\ Sane(x)
  BY DEF SaveBy, Improves
<1>2. /\ watch' \in [Watches -> RecordType]
      /\ watch'[w] = x
      /\ \A v \in Watches : v # w => watch'[v] = watch[v]
      /\ \A v \in Watches : Sane(watch'[v])
  BY <1>0, <1>1, OneSaved
<1>3. /\ job' \in [Procs -> JobType]
      /\ \A r \in Procs : Conclusive(job'[r])
  BY <1>0, SavedJobs
<1>4. TypeInv'
  BY <1>0, <1>2, <1>3 DEF TypeInv
<1>5. CarriedInv' /\ ReportsInv'
  BY <1>0, SavedBox
<1>6. CollectedInv'
  <2> SUFFICES ASSUME NEW v \in collected
               PROVE  /\ watch'[v].status = "completed"
                      /\ watch'[v].state \in {"none", "consumed", "superseded"}
                      /\ heard[v][[kind |-> "outcome", ev |-> "completed"]] > 0
    BY DEF CollectedInv
  <2>1. v # w /\ v \in Watches
    BY <1>0 DEF CollectedInv, TypeInv
  <2> QED BY <1>0, <1>2, <2>1 DEF CollectedInv
<1> QED BY <1>2, <1>4, <1>5, <1>6

\* At a prompt in use by a Watch no other Watch can answer.
LEMMA ReserveKeeps ==
  ASSUME WatchInv, NEW w \in Watches, Reserve(w)
  PROVE  WatchInv'
<1> DEFINE s == "reserved"
           x == [watch[w] EXCEPT !.state = s]
           t == "reserved"
<1>1. /\ Active(w) /\ watch[w].state = "pending"
      /\ screen.show = watch[w].question
      /\ Executable(w, watch[w].question)
      /\ Spend("replies") /\ SaveBy(None, w, x)
      /\ reply' = [watch |-> w, stage |-> t]
      /\ UNCHANGED <<due, collected, screen, task, managed, heard>>
  BY DEF Reserve
<1>2. s \in Resolved \cup {"pending", "reserved"} /\ watch[w].state # "none"
      /\ t \in {"reserved", "typed"} /\ s = "reserved"
  BY <1>1
<1> HIDE DEF s, t
<1>0. TypeInv /\ ReportsInv /\ AnswerInv
  BY DEF WatchInv
<1>3. Improves(w, x) /\ x.state = s /\ x.status = watch[w].status
  BY <1>0, <1>2, StateImproves
<1>4. reply' \in [watch : Watches, stage : {"reserved", "typed"}] \cup {NoReply}
  BY <1>1, <1>2
<1>5. budget' \in BudgetType
  <2>1. budget \in BudgetType
    BY <1>0 DEF TypeInv
  <2>2. PICK what \in {"shows", "claims", "replies", "fails", "lapses", "crashes"} : Spend(what)
    BY <1>1
  <2> QED BY <2>1, <2>2, SpendTyped
<1> HIDE DEF x
<1>6. /\ TypeInv' /\ CarriedInv' /\ ReportsInv' /\ CollectedInv'
      /\ watch'[w] = x
      /\ \A v \in Watches : v # w => watch'[v] = watch[v]
  BY <1>1, <1>3, <1>4, <1>5, ReplySave
<1>7. ASSUME NEW v \in screen.by
      PROVE  watch'[v].status # "active"
  <2>1. v \in Watches
    BY <1>0 DEF TypeInv, ScreenType
  <2>2. ~Active(v)
    <3>1. SUFFICES ASSUME Active(v) PROVE FALSE
      OBVIOUS
    <3>2. Used(v, screen.show)
      BY <1>0, <3>1 DEF AnswerInv
    <3>3. v \in Fenced(watch[w].question)
      BY <1>1, <2>1, <3>1, <3>2 DEF Fenced, Responsive, Used, Activity
    <3> QED BY <1>1, <3>3 DEF Executable
  <2>3. watch'[v].status = watch[v].status
    BY <1>3, <1>6, <2>1
  <2> QED BY <2>2, <2>3 DEF Active
<1>8. reply'.watch = w
  BY <1>1
<1>9. x.kind # "activity"
  BY <1>1, <1>3 DEF Executable, Responsive, Activity, Improves
<1>10. ReplyInv'
  <2>1. watch'[w].state = "reserved" /\ watch'[w].kind # "activity"
    BY <1>2, <1>3, <1>6, <1>9
  <2>2. \A v \in screen'.by : watch'[v].status # "active"
    BY <1>1, <1>7
  <2> QED BY <1>8, <2>1, <2>2 DEF ReplyInv, Active
<1>11. AnswerInv'
  BY <1>1, <1>7 DEF AnswerInv, Active
<1> QED BY <1>6, <1>10, <1>11 DEF WatchInv

\* What the responder holds.
LEMMA RepliesTyped ==
  ASSUME WatchInv, NEW w \in Watches, reply.watch = w
  PROVE  /\ reply # NoReply
         /\ watch[w].state = "reserved" /\ watch[w].kind # "activity"
         /\ reply.stage = "reserved" => \A v \in screen.by : ~Active(v)
<1>1. reply # NoReply
  BY PromptAssumption DEF NoReply
<1> QED BY <1>1 DEF WatchInv, ReplyInv

LEMMA ReleaseKeeps ==
  ASSUME WatchInv, NEW w \in Watches, Release(w)
  PROVE  WatchInv'
<1> DEFINE s == "pending"
           x == [watch[w] EXCEPT !.state = s]
<1>1. /\ reply = [watch |-> w, stage |-> "reserved"]
      /\ SaveBy(None, w, x) /\ reply' = NoReply
      /\ UNCHANGED <<due, collected, screen, task, managed, heard, budget>>
  BY DEF Release
<1>2. reply.watch = w /\ reply.stage = "reserved"
  BY <1>1
<1>3. watch[w].state = "reserved" /\ \A v \in screen.by : ~Active(v)
  BY <1>2, RepliesTyped
<1>4. s \in Resolved \cup {"pending", "reserved"} /\ watch[w].state # "none"
  BY <1>3
<1> HIDE DEF s
<1>0. TypeInv /\ ReportsInv /\ budget' \in BudgetType
  BY <1>1 DEF WatchInv, TypeInv
<1>5. Improves(w, x) /\ x.status = watch[w].status
  BY <1>0, <1>4, StateImproves
<1> HIDE DEF x
<1>6. /\ TypeInv' /\ CarriedInv' /\ ReportsInv' /\ CollectedInv'
      /\ watch'[w] = x
      /\ \A v \in Watches : v # w => watch'[v] = watch[v]
  BY <1>0, <1>1, <1>3, <1>5, ReplySave
<1>7. ReplyInv'
  BY <1>1 DEF ReplyInv
<1>8. AnswerInv'
  <2> SUFFICES ASSUME NEW v \in screen.by, watch'[v].status = "active"
               PROVE  FALSE
    BY <1>1 DEF AnswerInv, Active
  <2>1. v \in Watches
    BY <1>0 DEF TypeInv, ScreenType
  <2> QED BY <1>3, <1>5, <1>6, <2>1 DEF Active
<1> QED BY <1>6, <1>7, <1>8 DEF WatchInv

LEMMA TypeKeeps ==
  ASSUME WatchInv, NEW w \in Watches, Type(w)
  PROVE  WatchInv'
<1> DEFINE t == "typed"
           s == screen.by \cup {w}
<1>0. TypeInv /\ CarriedInv /\ ReportsInv /\ CollectedInv /\ ReplyInv /\ AnswerInv
  BY DEF WatchInv
<1>1. /\ reply = [watch |-> w, stage |-> "reserved"]
      /\ screen.show = watch[w].question
      /\ screen' = [screen EXCEPT !.by = s]
      /\ reply' = [reply EXCEPT !.stage = t]
      /\ UNCHANGED <<watch, due, collected, job, task, managed, heard, budget>>
  BY DEF Type
<1>2. reply.watch = w /\ reply.stage = "reserved"
  BY <1>1
<1>3. /\ watch[w].state = "reserved" /\ watch[w].kind # "activity"
      /\ \A v \in screen.by : ~Active(v)
  BY <1>2, RepliesTyped
<1>4. t \in {"reserved", "typed"} /\ t # "reserved"
  OBVIOUS
<1>5. s \in SUBSET Watches
  BY <1>0 DEF TypeInv, ScreenType
<1> HIDE DEF t
<1>6. /\ reply' \in [watch : Watches, stage : {"reserved", "typed"}]
      /\ reply'.watch = w /\ reply'.stage = t
  BY <1>1, <1>4
<1> HIDE DEF s
<1>7. screen' \in ScreenType /\ screen'.show = screen.show /\ screen'.by = s
  BY <1>0, <1>1, <1>5 DEF TypeInv, ScreenType
<1>8. TypeInv'
  BY <1>0, <1>1, <1>6, <1>7 DEF TypeInv
<1>9. CarriedInv' /\ ReportsInv' /\ CollectedInv'
  BY <1>0, <1>1 DEF CarriedInv, ReportsInv, CollectedInv
<1>10. ReplyInv'
  BY <1>1, <1>3, <1>4, <1>6 DEF ReplyInv
<1>11. AnswerInv'
  <2> SUFFICES ASSUME NEW v \in s, Active(v)
               PROVE  Used(v, screen.show) /\ watch[v].state \notin Resolved
    BY <1>1, <1>7 DEF AnswerInv, Active, Used, Abreast
  <2>1. v = w
    BY <1>3 DEF s
  <2> QED BY <1>1, <1>3, <2>1 DEF Used, Resolved
<1> QED BY <1>8, <1>9, <1>10, <1>11 DEF WatchInv

\* The answer is resolved, so every observation under way is late.
LEMMA ResolveKeeps ==
  ASSUME WatchInv, NEW w \in Watches, reply.watch = w, reply' = NoReply,
         NEW x, SaveBy(None, w, x), Improves(w, x),
         x.state \in {"consumed", "uncertain"}, x.status = watch[w].status,
         x.question = watch[w].question,
         UNCHANGED <<due, collected, screen, task, managed, heard, budget>>
  PROVE  WatchInv'
<1>0. TypeInv /\ ReportsInv /\ AnswerInv /\ budget' \in BudgetType
  BY DEF WatchInv, TypeInv
<1>1. watch[w].state = "reserved"
  BY RepliesTyped
<1>2. /\ TypeInv' /\ CarriedInv' /\ ReportsInv' /\ CollectedInv'
      /\ watch'[w] = x
      /\ \A v \in Watches : v # w => watch'[v] = watch[v]
  BY <1>0, <1>1, ReplySave
<1>3. ReplyInv'
  BY DEF ReplyInv
<1>4. x.state \in Resolved /\ watch[w].state \notin Resolved
  BY <1>1 DEF Resolved
<1>5. /\ \A r \in Procs : Resumed(w, job[r], job'[r])
      /\ \A r \in Procs : job'[r].kind = "observe" /\ job'[r].watch = w => job'[r].late
  BY <1>0, <1>4, SavedJobs
<1>6. AnswerInv'
  <2> SUFFICES ASSUME NEW v \in screen.by, watch'[v].status = "active"
               PROVE  Used(v, screen.show)' /\ Abreast(v, screen.show)'
    BY DEF AnswerInv, Active
  <2>1. v \in Watches
    BY <1>0 DEF TypeInv, ScreenType
  <2>2. Active(v)
    BY <1>2, <2>1 DEF Active
  <2>3. Used(v, screen.show) /\ Abreast(v, screen.show)
    BY <1>0, <2>2 DEF AnswerInv
  <2>4. CASE v = w
    <3>1. Used(v, screen.show)'
      BY <1>2, <2>3, <2>4 DEF Used, Improves
    <3>2. Abreast(v, screen.show)'
      BY <1>5, <2>4 DEF Abreast
    <3> QED BY <3>1, <3>2
  <2>5. CASE v # w
    <3>1. watch'[v] = watch[v]
      BY <1>2, <2>1, <2>5
    <3>2. Used(v, screen.show)'
      BY <2>3, <3>1 DEF Used
    <3>3. ASSUME watch[v].state \in Resolved, NEW r \in Procs,
                 job'[r].kind = "observe", job'[r].watch = v, ~job'[r].late,
                 job'[r].seen \in Questions
          PROVE  job'[r].seen = screen.show
      <4>1. job[r] \in JobType
        BY <1>0 DEF TypeInv
      <4>2. job'[r] = job[r]
        BY <1>5, <3>3, <4>1, ResumedTyped
      <4> QED BY <2>3, <3>3, <4>2 DEF Abreast
    <3>4. Abreast(v, screen.show)'
      BY <3>1, <3>3 DEF Abreast
    <3> QED BY <3>2, <3>4
  <2> QED BY <2>4, <2>5
<1> QED BY <1>2, <1>3, <1>6 DEF WatchInv

LEMMA ConsumeKeeps ==
  ASSUME WatchInv, NEW w \in Watches, Consume(w)
  PROVE  WatchInv'
<1> DEFINE x == Consumed(watch[w])
<1>1. /\ reply = [watch |-> w, stage |-> "typed"]
      /\ SaveBy(None, w, x) /\ reply' = NoReply
      /\ UNCHANGED <<due, collected, screen, task, managed, heard, budget>>
  BY DEF Consume
<1>2. reply.watch = w
  BY <1>1
<1>3. watch[w].state # "none" /\ TypeInv /\ ReportsInv
  BY <1>2, RepliesTyped DEF WatchInv
<1>4. /\ Improves(w, x) /\ x.state = "consumed" /\ x.status = watch[w].status
      /\ x.question = watch[w].question
  BY <1>3, ConsumedImproves
<1> HIDE DEF x
<1> QED BY <1>1, <1>2, <1>4, ResolveKeeps

LEMMA UncertainKeeps ==
  ASSUME WatchInv, NEW w \in Watches, Uncertain(w)
  PROVE  WatchInv'
<1> DEFINE s == "uncertain"
           x == [watch[w] EXCEPT !.state = s]
<1>1. /\ reply.watch = w
      /\ SaveBy(None, w, x) /\ reply' = NoReply
      /\ UNCHANGED <<due, collected, screen, task, managed, heard, budget>>
  BY DEF Uncertain
<1>2. watch[w].state # "none" /\ TypeInv /\ ReportsInv
  BY <1>1, RepliesTyped DEF WatchInv
<1>3. s \in Resolved \cup {"pending", "reserved"} /\ s = "uncertain"
  BY DEF Resolved
<1> HIDE DEF s
<1>4. /\ Improves(w, x) /\ x.state = s /\ x.status = watch[w].status
      /\ x.question = watch[w].question
  BY <1>2, <1>3, StateImproves
<1> HIDE DEF x
<1> QED BY <1>1, <1>3, <1>4, ResolveKeeps

-----------------------------------------------------------------------------
(* Deliveries *)

\* A step that rewrites the outbox of w and touches no observation.
LEMMA OutboxStep ==
  ASSUME WatchInv, NEW w \in Watches, NEW c \in Seq(Notes), Outbox(w, c),
         job' \in [Procs -> JobType],
         \A r \in Procs : job'[r] = job[r] \/ job'[r].kind # "observe",
         \A v \in Watches : v # w => SameJobs(v, job, job'),
         Carried(w, c, job', heard[w]),
         Reports(watch[w].status, c),
         UNCHANGED <<due, collected, reply, screen, task, managed, heard>>,
         budget' \in BudgetType
  PROVE  WatchInv'
<1>0. TypeInv /\ CarriedInv /\ ReportsInv /\ CollectedInv /\ ReplyInv /\ AnswerInv
  BY DEF WatchInv
<1> DEFINE x == [watch[w] EXCEPT !.box = c]
<1>1. watch[w] \in RecordType /\ Sane(watch[w]) /\ watch \in [Watches -> RecordType]
  BY <1>0 DEF TypeInv
<1>2. watch' = [watch EXCEPT ![w] = x]
  BY DEF Outbox
<1>3. /\ x \in RecordType /\ x.box = c /\ x.status = watch[w].status
      /\ x.state = watch[w].state /\ x.question = watch[w].question
      /\ x.kind = watch[w].kind /\ x.idle = watch[w].idle
  BY <1>1 DEF RecordType
<1> HIDE DEF x
<1>4. Sane(x)
  BY <1>1, <1>3 DEF Sane
<1>5. /\ watch' \in [Watches -> RecordType]
      /\ watch'[w] = x
      /\ \A v \in Watches : v # w => watch'[v] = watch[v]
      /\ \A v \in Watches : Sane(watch'[v])
  BY <1>0, <1>2, <1>3, <1>4, OneSaved
<1>6. ASSUME NEW v \in Watches
      PROVE  /\ watch'[v].status = watch[v].status /\ watch'[v].state = watch[v].state
             /\ watch'[v].question = watch[v].question /\ watch'[v].kind = watch[v].kind
  <2>1. CASE v = w
    BY <1>3, <1>5, <2>1
  <2>2. CASE v # w
    BY <1>5, <2>2
  <2> QED BY <2>1, <2>2
<1>7. \A r \in Procs : Conclusive(job'[r])
  BY <1>0 DEF TypeInv, Conclusive
<1>8. TypeInv'
  BY <1>0, <1>5, <1>7 DEF TypeInv
<1>9. ASSUME NEW v \in Watches
      PROVE  Carried(v, watch'[v].box, job', heard[v])
  <2> DEFINE K == job'
  <2>1. CASE v = w
    BY <1>3, <1>5, <2>1
  <2>2. CASE v # w
    <3>1. watch[v].box \in Seq(Notes) /\ heard[v] \in [Keys -> Nat]
      BY <1>0 DEF TypeInv, RecordType
    <3>2. Carried(v, watch[v].box, job, heard[v]) /\ SameJobs(v, job, K)
      BY <1>0, <2>2 DEF CarriedInv
    <3>3. watch'[v] = watch[v]
      BY <1>5, <2>2
    <3> HIDE DEF K
    <3>4. Carried(v, watch[v].box, K, heard[v])
      BY <3>1, <3>2, FrameCarried
    <3> QED BY <3>3, <3>4 DEF K
  <2> QED BY <2>1, <2>2
<1>10. CarriedInv'
  BY <1>9 DEF CarriedInv
<1>11. ASSUME NEW v \in Watches
       PROVE  Reports(watch'[v].status, watch'[v].box)
  <2>1. CASE v = w
    BY <1>3, <1>5, <2>1
  <2>2. CASE v # w
    BY <1>0, <1>5, <2>2 DEF ReportsInv
  <2> QED BY <2>1, <2>2
<1>12. ReportsInv'
  BY <1>11 DEF ReportsInv
<1>13. collected \subseteq Watches /\ screen.by \subseteq Watches
       /\ (reply # NoReply => reply.watch \in Watches)
  BY <1>0 DEF TypeInv, ScreenType
<1>14. CollectedInv'
  BY <1>0, <1>6, <1>13 DEF CollectedInv
<1>15. ReplyInv'
  BY <1>0, <1>6, <1>13 DEF ReplyInv, Active
<1>16. AnswerInv'
  <2> SUFFICES ASSUME NEW v \in screen.by, watch'[v].status = "active"
               PROVE  Used(v, screen.show)' /\ Abreast(v, screen.show)'
    BY DEF AnswerInv, Active
  <2>1. Active(v) /\ v \in Watches
    BY <1>6, <1>13 DEF Active
  <2>2. Used(v, screen.show) /\ Abreast(v, screen.show)
    BY <1>0, <2>1 DEF AnswerInv
  <2>3. Used(v, screen.show)'
    BY <1>6, <2>1, <2>2 DEF Used
  <2>4. Abreast(v, screen.show)'
    BY <1>6, <2>1, <2>2 DEF Abreast
  <2> QED BY <2>3, <2>4
<1> QED BY <1>8, <1>10, <1>12, <1>14, <1>15, <1>16 DEF WatchInv

\* Outcomes stay reported while a note that is not one changes, or while a
\* change keeps its key, and nothing is offered again.
LEMMA RewrittenReports ==
  ASSUME NEW s, NEW b \in Seq(Notes), Reports(s, b),
         NEW i \in DOMAIN b, NEW n \in Notes, n.key = b[i].key,
         s # "active" /\ Attention(n) => n.status \notin {"pending", "failed"}
  PROVE  Reports(s, [b EXCEPT ![i] = n])
<1> DEFINE c == [b EXCEPT ![i] = n]
<1>1. DOMAIN c = DOMAIN b /\ c[i] = n /\ \A j \in DOMAIN b : j # i => c[j] = b[j]
  BY OneChanged
<1> HIDE DEF c
<1>2. \A j \in DOMAIN b : c[j].key = b[j].key
  BY <1>1
<1>3. \A j \in DOMAIN b : Attention(c[j]) <=> Attention(b[j])
  BY <1>2 DEF Attention
<1>4. CASE s = "active"
  BY <1>1, <1>3, <1>4 DEF Reports
<1>5. CASE s # "active"
  <2>1. \E j \in DOMAIN c : c[j].key = [kind |-> "outcome", ev |-> s]
    BY <1>1, <1>2, <1>5 DEF Reports
  <2>2. ASSUME NEW j \in DOMAIN c, Attention(c[j])
        PROVE  c[j].status \notin {"pending", "failed"}
    <3>1. CASE j = i
      BY <1>1, <1>5, <2>2, <3>1
    <3>2. CASE j # i
      BY <1>1, <1>5, <2>2, <3>2 DEF Reports
    <3> QED BY <3>1, <3>2
  <2> QED BY <1>5, <2>1, <2>2 DEF Reports
<1> QED BY <1>4, <1>5 DEF c

\* A notification that may be taken up, and has not lapsed, is with nobody.
LEMMA ClaimableIsFree ==
  ASSUME NEW w, NEW b \in Seq(Notes), NEW J, NEW H, Carried(w, b, J, H),
         NEW i \in DOMAIN b, Claimable(b[i]), Unsettled(b[i]), ~b[i].ever
  PROVE  /\ H[b[i].key] = 0
         /\ \A p \in Procs : Holds(J[p], w) => J[p].note # i
<1>1. Truthful(b[i], H[b[i].key])
  BY DEF Carried
<1>2. b[i].status \in {"pending", "failed"}
  BY <1>1 DEF Truthful, Claimable
<1>3. H[b[i].key] = 0
  BY <1>1, <1>2 DEF Truthful
<1>4. ASSUME NEW p \in Procs, Holds(J[p], w), J[p].note = i
      PROVE  FALSE
  <2>1. Carries(J[p], b[i], H[b[i].key])
    BY <1>4 DEF Carried
  <2> QED BY <1>2, <2>1 DEF Carries
<1> QED BY <1>3, <1>4

\* What the end of w makes of the head of its outbox.
LEMMA QuietedCarried ==
  ASSUME WatchInv, NEW w \in Watches
  PROVE  /\ Quieted(w) \in Seq(Notes)
         /\ Carried(w, Quieted(w), job, heard[w])
         /\ Reports(watch[w].status, Quieted(w))
<1> DEFINE b == watch[w].box
           i == HeadOf(b)
           n == Superseded(b[i])
           H == heard[w]
           s == watch[w].status
           c == Quieted(w)
<1>1. /\ b \in Seq(Notes) /\ H \in [Keys -> Nat]
      /\ Carried(w, b, job, H) /\ Reports(s, b)
  BY DEF WatchInv, TypeInv, RecordType, CarriedInv, ReportsInv
<1>2. CASE ~Active(w) /\ i > 0 /\ Attention(b[i]) /\ Claimable(b[i])
  <2>1. c = [b EXCEPT ![i] = n]
    BY <1>2 DEF Quieted, Superseded
  <2>2. i \in DOMAIN b /\ Unsettled(b[i]) /\ Attention(b[i]) /\ Claimable(b[i])
    BY <1>1, <1>2, HeadIsFirst
  <2> HIDE DEF i, b, s, c, H
  <2>3. b[i] \in Notes
    BY <1>1, <2>2, BoxTyped
  <2>4. /\ n \in Notes /\ n.key = b[i].key /\ n.status = "superseded"
        /\ n.lapsed = b[i].lapsed /\ n.ever = b[i].ever /\ n.attempt = b[i].attempt
    BY <2>3, SupersededNote
  <2> HIDE DEF n
  <2>5. Truthful(b[i], H[b[i].key])
    BY <1>1, <2>2 DEF Carried
  <2>6. Attention(n)
    BY <2>2, <2>4 DEF Attention
  <2>7. Truthful(n, H[n.key])
    BY <2>4, <2>5, <2>6 DEF Truthful
  <2>8. ~Unsettled(n) /\ n.status # "delivering"
    BY <2>4 DEF Unsettled
  <2>9. ASSUME NEW p \in Procs, Holds(job[p], w)
        PROVE  /\ job[p].note \in DOMAIN b
               /\ job[p].note = i => Carries(job[p], n, H[n.key])
    <3>1. job[p].note \in DOMAIN b
      BY <1>1, <2>9 DEF Carried
    <3>2. ASSUME job[p].note = i PROVE Carries(job[p], n, H[n.key])
      <4>1. Carries(job[p], b[i], H[b[i].key])
        BY <1>1, <2>9, <3>2 DEF Carried
      <4>2. b[i].ever
        BY <1>1, <2>2, <2>9, <3>2, ClaimableIsFree
      <4> QED BY <2>4, <4>1, <4>2 DEF Carries
    <3> QED BY <3>1, <3>2
  <2>10. \A p, q \in Procs :
           Holds(job[p], w) /\ Holds(job[q], w) /\ job[p].note = i /\ job[q].note = i
             /\ ~n.ever => p = q
    BY <1>1, <2>4 DEF Carried
  <2>11. \A p \in Procs : Holds(job[p], w) =>
           /\ job[p].note \in DOMAIN b
           /\ job[p].note # i => job[p] = job[p]
           /\ job[p].note = i => Carries(job[p], n, H[n.key])
    BY <2>9
  <2>12. b[i].ever => n.ever
    BY <2>4
  <2>13. Carried(w, [b EXCEPT ![i] = n], job, H)
    BY <1>1, <2>2, <2>4, <2>7, <2>8, <2>10, <2>11, <2>12, RewrittenCarried
  <2>14. [b EXCEPT ![i] = n] \in Seq(Notes)
    BY <1>1, <2>2, <2>4, OneChanged
  <2>15. Reports(s, [b EXCEPT ![i] = n])
    BY <1>1, <2>2, <2>4, RewrittenReports
  <2> QED BY <2>1, <2>13, <2>14, <2>15 DEF c, H, s
<1>3. CASE ~(~Active(w) /\ i > 0 /\ Attention(b[i]) /\ Claimable(b[i]))
  <2>1. c = b
    BY <1>3 DEF Quieted
  <2> HIDE DEF c, b, s
  <2> QED BY <1>1, <2>1 DEF c, s
<1> QED BY <1>2, <1>3

LEMMA ClaimKeeps ==
  ASSUME WatchInv, NEW p \in Procs, NEW w \in Watches, Claim(p, w)
  PROVE  WatchInv'
<1> DEFINE b == Quieted(w)
           i == HeadOf(b)
           t == "delivering"
           no == FALSE
           n == [b[i] EXCEPT !.status = t, !.attempt = b[i].attempt + 1, !.lapsed = no]
           j == [kind |-> "deliver", watch |-> w, note |-> i,
                 attempt |-> b[i].attempt + 1, sent |-> no, told |-> no]
           H == heard[w]
           s == watch[w].status
           K == job'
<1>1. b \in Seq(Notes) /\ Carried(w, b, job, H) /\ Reports(s, b)
  BY QuietedCarried
<1>2. /\ job \in [Procs -> JobType] /\ H \in [Keys -> Nat] /\ budget \in BudgetType
  BY DEF WatchInv, TypeInv
<1>3. /\ job[p] = NoJob
      /\ UNCHANGED <<due, collected, reply, screen, task, managed, heard, budget>>
  BY DEF Claim
<1>4. CASE i > 0 /\ Claimable(b[i])
  <2>1. Outbox(w, [b EXCEPT ![i] = n]) /\ job' = [job EXCEPT ![p] = j]
    <3>1. /\ Outbox(w, [b EXCEPT ![i].status = "delivering", ![i].attempt = @ + 1,
                                ![i].lapsed = FALSE])
          /\ job' = [job EXCEPT ![p] = [kind |-> "deliver", watch |-> w, note |-> i,
                                       attempt |-> b[i].attempt + 1, sent |-> FALSE,
                                       told |-> FALSE]]
      BY <1>4, Zenon DEF Claim
    <3>2. job' = [job EXCEPT ![p] = j]
      BY <3>1
    <3>3. Outbox(w, [b EXCEPT ![i] = n])
      <4>1. i \in DOMAIN b
        BY <1>1, <1>4, HeadIsFirst
      <4>2. b[i] \in Notes /\ b \in Seq(Notes)
        BY <1>1, <4>1, BoxTyped
      <4>3. [b EXCEPT ![i].status = "delivering", ![i].attempt = @ + 1, ![i].lapsed = FALSE]
              = [b EXCEPT ![i] = n]
        BY <4>1, <4>2 DEF Notes
      <4> QED BY <3>1, <4>3
    <3> QED BY <3>2, <3>3
  <2>2. i \in DOMAIN b /\ Unsettled(b[i]) /\ Claimable(b[i])
        /\ (\A k \in 1..(i - 1) : ~Unsettled(b[k])) /\ i \in Nat \ {0}
    BY <1>1, <1>4, HeadIsFirst
  <2>3. t = "delivering" /\ no \in BOOLEAN /\ ~no
    OBVIOUS
  <2> HIDE DEF b, i, t, no, H, s
  <2>4. b[i] \in Notes
    BY <1>1, <2>2, BoxTyped
  <2>5. b[i].attempt \in Nat
    BY <2>4 DEF Notes
  <2>6. /\ n \in Notes /\ n.key = b[i].key /\ n.status = t /\ n.attempt = b[i].attempt + 1
        /\ n.lapsed = no /\ n.ever = b[i].ever
    <3> DEFINE m == b[i].attempt + 1
    <3>1. n = [b[i] EXCEPT !.status = t, !.attempt = m, !.lapsed = no]
      OBVIOUS
    <3>2. m \in Nat
      BY <2>5
    <3> HIDE DEF n, m
    <3>3. /\ n.key = b[i].key /\ n.status = t /\ n.attempt = m
          /\ n.lapsed = no /\ n.ever = b[i].ever
      BY <2>4, <3>1 DEF Notes
    <3>4. n \in Notes
      BY <2>3, <2>4, <3>1, <3>2 DEF Notes
    <3> QED BY <3>3, <3>4 DEF m
  <2>7. /\ j \in Deliveries /\ j.kind = "deliver" /\ j.watch = w /\ j.note = i
        /\ j.attempt = b[i].attempt + 1 /\ j.sent = no /\ j.told = no
    BY <2>2, <2>3, <2>5 DEF Deliveries
  <2> HIDE DEF n, j
  <2>8. /\ K \in [Procs -> JobType] /\ K[p] = j
        /\ \A q \in Procs : q # p => K[q] = job[q]
    BY <1>2, <2>1, <2>7 DEF JobType
  <2>9. /\ \A r \in Procs : K[r] = job[r] \/ K[r].kind # "observe"
        /\ \A v \in Watches : v # w => SameJobs(v, job, K)
    BY <2>7, <2>8 DEF SameJobs, Holds
  <2>10. Truthful(b[i], H[b[i].key])
    BY <1>1, <2>2 DEF Carried
  <2>11. ~b[i].ever => /\ H[b[i].key] = 0
                       /\ \A q \in Procs : Holds(job[q], w) => job[q].note # i
    BY <1>1, <2>2, ClaimableIsFree, ZenonT(60)
  <2>12. Truthful(n, H[n.key])
    BY <2>3, <2>6, <2>10 DEF Truthful
  <2>13. Unsettled(n) => Unsettled(b[i])
    BY <2>2
  <2>14. n.status = "delivering" => \A k \in 1..(i - 1) : ~Unsettled(b[k])
    BY <2>2
  <2>15. ASSUME NEW q \in Procs, Holds(K[q], w)
         PROVE  /\ K[q].note \in DOMAIN b
                /\ K[q].note # i => K[q] = job[q]
                /\ K[q].note = i => Carries(K[q], n, H[n.key])
    <3>1. CASE q = p
      <4>1. K[q] = j
        BY <2>8, <3>1
      <4>2. Carries(j, n, H[n.key])
        BY <2>3, <2>6, <2>7, <2>11 DEF Carries
      <4> QED BY <2>2, <2>7, <4>1, <4>2
    <3>2. CASE q # p
      <4>1. K[q] = job[q]
        BY <2>8, <3>2
      <4>2. K[q].note \in DOMAIN b
        BY <1>1, <2>15, <4>1 DEF Carried
      <4>3. ASSUME K[q].note = i PROVE Carries(K[q], n, H[n.key])
        <5>1. Carries(job[q], b[i], H[b[i].key])
          BY <1>1, <2>15, <4>1, <4>3 DEF Carried
        <5>2. b[i].ever
          BY <2>11, <2>15, <4>1, <4>3
        <5> QED BY <2>6, <4>1, <5>1, <5>2 DEF Carries
      <4> QED BY <4>1, <4>2, <4>3
    <3> QED BY <3>1, <3>2
  <2>16. ASSUME NEW q \in Procs, NEW r \in Procs, Holds(K[q], w), Holds(K[r], w),
                K[q].note = i, K[r].note = i, ~n.ever
         PROVE  q = r
    <3>1. q = p
      BY <2>6, <2>8, <2>11, <2>16
    <3>2. r = p
      BY <2>6, <2>8, <2>11, <2>16
    <3> QED BY <3>1, <3>2
  <2>17. b[i].ever => n.ever
    BY <2>6
  <2> HIDE DEF K
  <2>18. Carried(w, [b EXCEPT ![i] = n], K, H)
    BY <1>1, <1>2, <2>2, <2>6, <2>12, <2>13, <2>14, <2>15, <2>16, <2>17, RewrittenCarried
  <2>19. [b EXCEPT ![i] = n] \in Seq(Notes)
    BY <1>1, <2>2, <2>6, OneChanged
  <2>20. Reports(s, [b EXCEPT ![i] = n])
    BY <1>1, <2>2, <2>3, <2>6, RewrittenReports
  <2>21. budget' \in BudgetType
    BY <1>2, <1>3
  <2> QED BY <1>3, <2>1, <2>8, <2>9, <2>18, <2>19, <2>20, <2>21, OutboxStep DEF K, H, s
<1>5. CASE ~(i > 0 /\ Claimable(b[i]))
  <2>1. Outbox(w, b) /\ job' = job
    BY <1>5 DEF Claim
  <2>2. \A v \in Watches : SameJobs(v, job, job)
    BY DEF SameJobs
  <2> HIDE DEF b
  <2> QED BY <1>1, <1>2, <1>3, <2>1, <2>2, OutboxStep
<1> QED BY <1>4, <1>5

\* The delivery that process p has under way.
LEMMA DeliveringTyped ==
  ASSUME WatchInv, NEW p \in Procs, Delivering(p)
  PROVE  /\ job[p] \in Deliveries
         /\ job[p].watch \in Watches
         /\ Holds(job[p], job[p].watch)
         /\ job[p].note \in DOMAIN watch[job[p].watch].box
         /\ watch[job[p].watch].box \in Seq(Notes)
         /\ watch[job[p].watch].box[job[p].note] \in Notes
<1>1. job[p] \in JobType /\ job[p].kind = "deliver"
  BY DEF WatchInv, TypeInv, Delivering
<1>2. job[p] \in Deliveries
  BY <1>1, JobKinds
<1>3. job[p].watch \in Watches
  BY <1>2 DEF Deliveries
<1> DEFINE w == job[p].watch
           b == watch[w].box
<1>4. Holds(job[p], w) /\ b \in Seq(Notes) /\ Carried(w, b, job, heard[w])
  BY <1>1, <1>3 DEF Holds, WatchInv, TypeInv, RecordType, CarriedInv
<1> HIDE DEF b, w
<1>5. job[p].note \in DOMAIN b
  BY <1>4 DEF Carried
<1>6. b[job[p].note] \in Notes
  BY <1>4, <1>5, BoxTyped
<1> QED BY <1>2, <1>3, <1>4, <1>5, <1>6 DEF w, b

\* What a sender knows of the outcome it records.
Knows(j, outcome) ==
  /\ outcome = "accepted" => j.sent
  /\ outcome = "retryable" => ~j.sent

\* What a sender has left once it recorded an outcome.
Leaves(j, k, outcome) ==
  \/ k = NoJob
  \/ outcome = "accepted" /\ k = [j EXCEPT !.told = TRUE]

LEMMA LeavesTyped ==
  ASSUME NEW j \in Deliveries, NEW k, NEW outcome, Leaves(j, k, outcome),
         Knows(j, outcome)
  PROVE  /\ k \in JobType /\ k.kind # "observe"
         /\ \A v : Holds(k, v) => /\ Holds(j, v) /\ outcome = "accepted"
                                  /\ k.note = j.note /\ k.attempt = j.attempt
                                  /\ k.sent /\ j.sent
<1> DEFINE t == TRUE
<1>1. CASE k = NoJob
  BY <1>1 DEF NoJob, JobType, Holds
<1>2. CASE outcome = "accepted" /\ k = [j EXCEPT !.told = t]
  <2>1. t \in BOOLEAN
    OBVIOUS
  <2> HIDE DEF t
  <2>2. /\ k \in Deliveries /\ k.kind = "deliver" /\ k.watch = j.watch
        /\ k.note = j.note /\ k.attempt = j.attempt /\ k.sent = j.sent
    BY <1>2, <2>1 DEF Deliveries
  <2>3. j.sent /\ j.kind = "deliver"
    BY <1>2 DEF Knows, Deliveries
  <2> QED BY <1>2, <2>2, <2>3 DEF JobType, Holds
<1> QED BY <1>1, <1>2 DEF Leaves

LEMMA FinishedStatus ==
  ASSUME NEW w, NEW n, NEW outcome
  PROVE  /\ Finished(w, n, outcome) \in {"delivered", "superseded", "failed", "dead"}
         /\ Finished(w, n, outcome) = "delivered" <=> outcome = "accepted"
         /\ Finished(w, n, outcome) = "superseded" => Attention(n)
         /\ Finished(w, n, outcome) = "failed" => outcome = "retryable"
         /\ ~Active(w) /\ Attention(n) =>
              Finished(w, n, outcome) \in {"delivered", "superseded"}
<1> DEFINE f == Finished(w, n, outcome)
           g == Attention(n) /\ ~Active(w)
<1>1. /\ outcome = "accepted" => f = "delivered"
      /\ outcome # "accepted" /\ g => f = "superseded"
      /\ outcome = "retryable" /\ ~g => f = "failed"
      /\ outcome \notin {"accepted", "retryable"} /\ ~g => f = "dead"
  BY DEF Finished
<1>2. outcome = "retryable" => outcome # "accepted"
  OBVIOUS
<1> HIDE DEF f
<1> QED BY <1>1, <1>2 DEF f

\* Recording an outcome, which only the sender of the attempt in flight can.
LEMMA FinishKeeps ==
  ASSUME WatchInv, NEW p \in Procs, Delivering(p), NEW outcome, Finish(p, outcome),
         Knows(job[p], outcome),
         NEW k, Leaves(job[p], k, outcome), job' = [job EXCEPT ![p] = k],
         UNCHANGED <<due, collected, reply, screen, task, managed, heard>>,
         budget' \in BudgetType
  PROVE  WatchInv'
<1> DEFINE j == job[p]
           w == j.watch
           i == j.note
           b == watch[w].box
           n == b[i]
           H == heard[w]
           s == watch[w].status
           f == Finished(w, n, outcome)
           K == job'
           m == n.status = "delivering" /\ n.attempt = j.attempt
           no == FALSE
           o == IF m THEN [n EXCEPT !.status = f, !.lapsed = no] ELSE n
           c == [b EXCEPT ![i] = o]
<1>1. /\ j \in Deliveries /\ w \in Watches /\ Holds(j, w) /\ i \in DOMAIN b
      /\ b \in Seq(Notes) /\ n \in Notes
  BY DeliveringTyped
<1>2. /\ job \in [Procs -> JobType] /\ H \in [Keys -> Nat] /\ watch \in [Watches -> RecordType]
      /\ Carried(w, b, job, H) /\ Reports(s, b)
  BY <1>1 DEF WatchInv, TypeInv, CarriedInv, ReportsInv
<1>3. Outbox(w, c)
  <2>1. CASE m
    <3>1. Outbox(w, [b EXCEPT ![i].status = f, ![i].lapsed = no])
      BY <2>1 DEF Finish
    <3>2. [b EXCEPT ![i].status = f, ![i].lapsed = no] = c
      <4> HIDE DEF f, no, m
      <4> QED BY <1>1, <2>1 DEF Notes
    <3> QED BY <3>1, <3>2
  <2>2. CASE ~m
    <3>1. watch' = watch
      BY <2>2 DEF Finish
    <3>2. c = [b EXCEPT ![i] = b[i]]
      BY <2>2
    <3> HIDE DEF m, f, c, K, H, s
    <3>3. c = b
      BY <1>1, <3>2
    <3>4. watch = [watch EXCEPT ![w].box = b]
      BY <1>1, <1>2 DEF RecordType
    <3> QED BY <3>1, <3>3, <3>4 DEF Outbox
  <2> QED BY <2>1, <2>2
<1>4. /\ f \in {"delivered", "superseded", "failed", "dead"}
      /\ f = "delivered" <=> outcome = "accepted"
      /\ f = "superseded" => Attention(n)
      /\ f = "failed" => outcome = "retryable"
      /\ s # "active" /\ Attention(n) => f \in {"delivered", "superseded"}
  BY FinishedStatus DEF Active
<1>5. no \in BOOLEAN /\ ~no
  OBVIOUS
<1> HIDE DEF c, f, no, m, K, H, s
<1>6. /\ o \in Notes /\ o.key = n.key /\ o.ever = n.ever /\ o.attempt = n.attempt
      /\ m => o.status = f /\ o.lapsed = no
      /\ ~m => o = n
  <2>1. CASE m
    <3>1. o = [n EXCEPT !.status = f, !.lapsed = no]
      BY <2>1
    <3> HIDE DEF n, o
    <3> QED BY <1>1, <1>4, <1>5, <2>1, <3>1 DEF Notes
  <2>2. CASE ~m
    <3>1. o = n
      BY <2>2
    <3> HIDE DEF n, o
    <3> QED BY <1>1, <2>2, <3>1
  <2> QED BY <2>1, <2>2
<1> HIDE DEF o
<1>7. /\ k \in JobType /\ k.kind # "observe"
      /\ \A v : Holds(k, v) => /\ Holds(j, v) /\ outcome = "accepted"
                               /\ k.note = j.note /\ k.attempt = j.attempt
                               /\ k.sent /\ j.sent
  BY <1>1, LeavesTyped
<1>8. /\ K \in [Procs -> JobType] /\ K[p] = k
      /\ \A q \in Procs : q # p => K[q] = job[q]
  BY <1>2, <1>7 DEF K
<1>9. Truthful(n, H[n.key]) /\ Carries(j, n, H[n.key])
  BY <1>1, <1>2 DEF Carried
<1>10. /\ \A q, r \in Procs :
            (/\ Holds(job[q], w) /\ Holds(job[r], w)
             /\ job[q].note = job[r].note /\ ~b[job[q].note].ever) => q = r
  BY <1>2 DEF Carried
<1> HIDE DEF n
<1>11. Truthful(o, H[o.key])
  <2>1. CASE m
    <3>1. H[n.key] \in Nat
      BY <1>1, <1>2 DEF Notes
    <3>2. o.status = "delivered" => H[o.key] > 0
      BY <1>4, <1>6, <1>9, <2>1 DEF Knows, Carries
    <3>3. ~o.ever /\ o.status \in {"pending", "failed"} => H[o.key] = 0
      BY <1>4, <1>6, <1>9, <2>1 DEF Knows, Carries
    <3>4. o.status = "superseded" => Attention(o)
      BY <1>4, <1>6, <2>1 DEF Attention
    <3>5. ~o.ever => H[o.key] <= 1
      BY <1>6, <1>9 DEF Truthful
    <3>6. o.lapsed => o.ever
      BY <1>5, <1>6, <2>1
    <3> QED BY <3>2, <3>3, <3>4, <3>5, <3>6 DEF Truthful
  <2>2. CASE ~m
    BY <1>6, <1>9, <2>2
  <2> QED BY <2>1, <2>2
<1>12. Unsettled(o) => Unsettled(n)
  <2>1. CASE m
    BY <2>1 DEF Unsettled, m
  <2>2. CASE ~m
    BY <1>6, <2>2
  <2> QED BY <2>1, <2>2
<1>13. o.status = "delivering" => \A h \in 1..(i - 1) : ~Unsettled(b[h])
  <2>1. o.status = "delivering" => n.status = "delivering"
    BY <1>4, <1>6
  <2> QED BY <1>1, <1>2, <2>1 DEF Carried, InOrder, n
<1>14. ASSUME NEW q \in Procs, Holds(K[q], w)
       PROVE  /\ K[q].note \in DOMAIN b
              /\ K[q].note # i => K[q] = job[q]
              /\ K[q].note = i => Carries(K[q], o, H[o.key])
  <2>1. CASE q = p
    <3>1. K[q] = k
      BY <1>8, <2>1
    <3>2. /\ outcome = "accepted" /\ k.note = i /\ k.attempt = j.attempt /\ k.sent /\ j.sent
      BY <1>7, <1>14, <3>1
    <3>3. Carries(k, o, H[o.key])
      <4>1. H[o.key] > 0
        BY <1>6, <1>9, <3>2 DEF Carries
      <4>2. ~o.ever => o.attempt = k.attempt
        BY <1>6, <1>9, <3>2 DEF Carries
      <4>3. ~o.ever => o.status \in {"delivering", "delivered"}
        BY <1>4, <1>6, <1>9, <3>2 DEF Carries
      <4> QED BY <3>2, <4>1, <4>2, <4>3 DEF Carries
    <3> QED BY <1>1, <3>1, <3>2, <3>3
  <2>2. CASE q # p
    <3>1. K[q] = job[q]
      BY <1>8, <2>2
    <3>2. K[q].note \in DOMAIN b
      BY <1>2, <1>14, <3>1 DEF Carried
    <3>3. ASSUME K[q].note = i PROVE Carries(K[q], o, H[o.key])
      <4>1. Carries(job[q], n, H[n.key])
        BY <1>2, <1>14, <3>1, <3>3 DEF Carried, n
      <4>2. n.ever
        BY <1>1, <1>10, <1>14, <2>2, <3>1, <3>3 DEF n
      <4> QED BY <1>6, <3>1, <4>1, <4>2 DEF Carries
    <3> QED BY <3>1, <3>2, <3>3
  <2> QED BY <2>1, <2>2
<1>15. ASSUME NEW q \in Procs, NEW r \in Procs, Holds(K[q], w), Holds(K[r], w),
              K[q].note = i, K[r].note = i, ~o.ever
       PROVE  q = r
  <2>1. \A h \in Procs : Holds(K[h], w) /\ K[h].note = i => Holds(job[h], w) /\ job[h].note = i
    BY <1>7, <1>8
  <2> QED BY <1>6, <1>10, <1>15, <2>1 DEF n
<1>16. n.ever => o.ever
  BY <1>6
<1>17. \A h \in Procs : Holds(K[h], w) =>
            /\ K[h].note \in DOMAIN b
            /\ K[h].note # i => K[h] = job[h]
            /\ K[h].note = i => Carries(K[h], o, H[o.key])
  BY <1>14
<1> HIDE DEF i, b, w, j
<1>18. Carried(w, c, K, H)
  BY <1>1, <1>2, <1>6, <1>11, <1>12, <1>13, <1>15, <1>16, <1>17,
     RewrittenCarried, ZenonT(60) DEF c, n
<1>19. c \in Seq(Notes)
  BY <1>1, <1>6, OneChanged DEF c
<1>20. s # "active" /\ Attention(o) => o.status \notin {"pending", "failed"}
  <2>1. Attention(o) <=> Attention(n)
    BY <1>6 DEF Attention
  <2>2. CASE m
    BY <1>4, <1>6, <2>1, <2>2
  <2>3. CASE ~m
    BY <1>1, <1>2, <1>6, <2>3 DEF Reports, n
  <2> QED BY <2>2, <2>3
<1>21. Reports(s, c)
  BY <1>1, <1>2, <1>6, <1>20, RewrittenReports DEF c, n
<1>22. /\ \A r \in Procs : K[r] = job[r] \/ K[r].kind # "observe"
       /\ \A v \in Watches : v # w => SameJobs(v, job, K)
  <2>1. \A r \in Procs : K[r] = job[r] \/ K[r].kind # "observe"
    BY <1>7, <1>8
  <2>2. \A v : v # w => ~Holds(k, v)
    BY <1>7 DEF Holds, w
  <2>3. \A v \in Watches : v # w => SameJobs(v, job, K)
    BY <1>8, <2>2 DEF SameJobs
  <2> QED BY <2>1, <2>3
<1> QED BY <1>1, <1>3, <1>8, <1>18, <1>19, <1>21, <1>22, OutboxStep DEF K, H, s

LEMMA AcceptEarlyKeeps ==
  ASSUME WatchInv, NEW p \in Procs, AcceptEarly(p)
  PROVE  WatchInv'
<1> DEFINE s == "accepted"
           k == [job[p] EXCEPT !.told = TRUE]
<1>1. /\ Delivering(p) /\ job[p].sent /\ Finish(p, s)
      /\ job' = [job EXCEPT ![p].told = TRUE]
      /\ UNCHANGED <<due, collected, reply, screen, task, managed, heard, budget>>
  BY DEF AcceptEarly
<1>2. job' = [job EXCEPT ![p] = k]
  BY <1>1
<1>3. Knows(job[p], s) /\ Leaves(job[p], k, s)
  BY <1>1 DEF Knows, Leaves
<1>4. budget' \in BudgetType
  BY <1>1 DEF WatchInv, TypeInv
<1> HIDE DEF s, k
<1> QED BY <1>1, <1>2, <1>3, <1>4, FinishKeeps

LEMMA AcceptedKeeps ==
  ASSUME WatchInv, NEW p \in Procs, Accepted(p)
  PROVE  WatchInv'
<1> DEFINE s == "accepted"
           k == NoJob
<1>1. /\ Delivering(p) /\ job[p].sent /\ Finish(p, s)
      /\ job' = [job EXCEPT ![p] = k]
      /\ UNCHANGED <<due, collected, reply, screen, task, managed, heard, budget>>
  BY DEF Accepted
<1>2. Knows(job[p], s) /\ Leaves(job[p], k, s)
  BY <1>1 DEF Knows, Leaves
<1>3. budget' \in BudgetType
  BY <1>1 DEF WatchInv, TypeInv
<1> HIDE DEF s, k
<1> QED BY <1>1, <1>2, <1>3, FinishKeeps

LEMMA FailsKeeps ==
  ASSUME WatchInv, NEW p \in Procs, NEW outcome \in {"retryable", "permanent", "uncertain"},
         Fails(p, outcome)
  PROVE  WatchInv'
<1> DEFINE k == NoJob
<1>1. /\ Delivering(p) /\ Finish(p, outcome) /\ job' = [job EXCEPT ![p] = k]
      /\ outcome = "uncertain" \/ ~job[p].sent
      /\ Spend("fails")
      /\ UNCHANGED <<due, collected, reply, screen, task, managed, heard>>
  BY DEF Fails
<1>2. Knows(job[p], outcome) /\ Leaves(job[p], k, outcome)
  BY <1>1 DEF Knows, Leaves
<1>3. budget' \in BudgetType
  <2>1. budget \in BudgetType
    BY DEF WatchInv, TypeInv
  <2>2. PICK what \in {"shows", "claims", "replies", "fails", "lapses", "crashes"} : Spend(what)
    BY <1>1
  <2> QED BY <2>1, <2>2, SpendTyped
<1> HIDE DEF k
<1> QED BY <1>1, <1>2, <1>3, FinishKeeps

\* The controller hears of the notification that p carries.
LEMMA ReachKeeps ==
  ASSUME WatchInv, NEW p \in Procs, Reach(p)
  PROVE  WatchInv'
<1> DEFINE j == job[p]
           w == j.watch
           i == j.note
           b == watch[w].box
           n == b[i]
           H == heard[w]
           t == TRUE
           k == [j EXCEPT !.sent = t]
           K == job'
           G == [H EXCEPT ![n.key] = @ + 1]
<1>0. TypeInv /\ CarriedInv /\ ReportsInv /\ CollectedInv /\ ReplyInv /\ AnswerInv
  BY DEF WatchInv
<1>1. /\ Delivering(p) /\ ~j.sent
      /\ heard' = [heard EXCEPT ![w][n.key] = @ + 1]
      /\ job' = [job EXCEPT ![p].sent = t]
      /\ UNCHANGED <<watch, due, collected, reply, screen, task, managed, budget>>
  BY DEF Reach
<1>2. /\ j \in Deliveries /\ w \in Watches /\ Holds(j, w) /\ i \in DOMAIN b
      /\ b \in Seq(Notes) /\ n \in Notes
  BY <1>1, DeliveringTyped
<1>3. /\ job \in [Procs -> JobType] /\ H \in [Keys -> Nat]
      /\ heard \in [Watches -> [Keys -> Nat]] /\ Carried(w, b, job, H)
  BY <1>0, <1>2 DEF TypeInv, CarriedInv
<1>4. heard' = [heard EXCEPT ![w] = G] /\ job' = [job EXCEPT ![p] = k]
  BY <1>1
<1>5. n.key \in Keys
  BY <1>2 DEF Notes
<1>6. /\ G \in [Keys -> Nat] /\ G[n.key] = H[n.key] + 1
      /\ \A h \in Keys : h # n.key => G[h] = H[h]
  <2> HIDE DEF H, n
  <2> QED BY <1>3, <1>5
<1>7. \A h \in Keys : G[h] >= H[h] /\ H[h] \in Nat /\ G[h] \in Nat
  <2> HIDE DEF G, H, n
  <2> QED BY <1>3, <1>6
<1>8. t \in BOOLEAN /\ t
  OBVIOUS
<1> HIDE DEF t, G, K, H
<1>9. /\ k \in Deliveries /\ k.kind = "deliver" /\ k.watch = w /\ k.note = i
      /\ k.attempt = j.attempt /\ k.sent = t /\ k.told = j.told
  <2> HIDE DEF j
  <2> QED BY <1>2, <1>8 DEF Deliveries
<1> HIDE DEF k
<1>10. /\ K \in [Procs -> JobType] /\ K[p] = k
       /\ \A q \in Procs : q # p => K[q] = job[q]
  BY <1>3, <1>4, <1>9 DEF K, JobType
<1>11. /\ heard' \in [Watches -> [Keys -> Nat]] /\ heard'[w] = G
       /\ \A v \in Watches : v # w => heard'[v] = heard[v]
  BY <1>2, <1>3, <1>4, <1>6
<1>12. \A r \in Procs : K[r] = job[r] \/ K[r].kind # "observe"
  BY <1>9, <1>10
<1>13. \A r \in Procs : Conclusive(K[r])
  BY <1>0, <1>12 DEF TypeInv, Conclusive
<1>14. TypeInv'
  BY <1>0, <1>1, <1>10, <1>11, <1>13 DEF TypeInv, K
<1> HIDE DEF n
<1>15. Truthful(n, H[n.key]) /\ Carries(j, n, H[n.key])
  BY <1>2, <1>3 DEF Carried, n
<1>16. /\ Distinct(b) /\ InOrder(b)
  BY <1>3 DEF Carried
<1>17. ASSUME NEW h \in DOMAIN b
       PROVE  Truthful(b[h], G[b[h].key])
  <2>1. Truthful(b[h], H[b[h].key]) /\ b[h].key \in Keys
    <3>1. b[h] \in Notes
      BY <1>2, BoxTyped
    <3> QED BY <1>3, <3>1 DEF Carried, Notes
  <2>2. CASE h = i
    <3>1. b[h] = n
      BY <2>2 DEF n
    <3>2. ~n.ever => H[n.key] = 0 /\ n.status \in {"delivering", "delivered"}
      BY <1>1, <1>15 DEF Carries
    <3>3. G[n.key] > 0
      BY <1>5, <1>6, <1>7
    <3>4. ~n.ever => G[n.key] <= 1
      BY <1>6, <3>2
    <3>5. Truthful(n, G[n.key])
      BY <1>15, <3>2, <3>3, <3>4 DEF Truthful
    <3> QED BY <3>1, <3>5
  <2>3. CASE h # i
    <3>1. b[h].key # n.key
      BY <1>2, <1>16, <2>3 DEF Distinct, n
    <3>2. G[b[h].key] = H[b[h].key]
      BY <1>6, <2>1, <3>1
    <3> QED BY <2>1, <3>2
  <2> QED BY <2>2, <2>3
<1>18. ASSUME NEW h \in Keys, G[h] > 0
       PROVE  \E g \in DOMAIN b : b[g].key = h
  <2>1. CASE h = n.key
    BY <1>2, <2>1 DEF n
  <2>2. CASE h # n.key
    BY <1>3, <1>6, <1>18, <2>2 DEF Carried
  <2> QED BY <2>1, <2>2
<1>19. \A q, r \in Procs :
         (/\ Holds(job[q], w) /\ Holds(job[r], w)
          /\ job[q].note = job[r].note /\ ~b[job[q].note].ever) => q = r
  BY <1>3 DEF Carried
<1>20. ASSUME NEW q \in Procs, Holds(K[q], w)
       PROVE  /\ K[q].note \in DOMAIN b
              /\ Carries(K[q], b[K[q].note], G[b[K[q].note].key])
  <2>1. CASE q = p
    <3>1. K[q] = k /\ k.note = i
      BY <1>9, <1>10, <2>1
    <3>2. G[n.key] > 0
      BY <1>5, <1>6, <1>7
    <3>3. Carries(k, n, G[n.key])
      BY <1>8, <1>9, <1>15, <3>2 DEF Carries
    <3> QED BY <1>2, <3>1, <3>3 DEF n
  <2>2. CASE q # p
    <3>1. K[q] = job[q]
      BY <1>10, <2>2
    <3>2. /\ job[q].note \in DOMAIN b
          /\ Carries(job[q], b[job[q].note], H[b[job[q].note].key])
      BY <1>3, <1>20, <3>1 DEF Carried
    <3>3. CASE job[q].note = i
      <4>1. n.ever
        BY <1>2, <1>19, <1>20, <2>2, <3>1, <3>3 DEF n
      <4>2. Carries(job[q], n, H[n.key])
        BY <3>2, <3>3 DEF n
      <4>3. Carries(job[q], n, G[n.key])
        BY <1>5, <1>6, <1>7, <4>1, <4>2 DEF Carries
      <4> QED BY <3>1, <3>2, <3>3, <4>3 DEF n
    <3>4. CASE job[q].note # i
      <4> DEFINE h == job[q].note
      <4>1. b[h] \in Notes
        BY <1>2, <3>2, BoxTyped
      <4>2. b[h].key \in Keys
        BY <4>1 DEF Notes
      <4>3. b[h].key # n.key
        BY <1>2, <1>16, <3>2, <3>4 DEF Distinct, n
      <4>4. G[b[h].key] = H[b[h].key]
        BY <1>6, <4>2, <4>3
      <4> QED BY <3>1, <3>2, <4>4
    <3> QED BY <3>3, <3>4
  <2> QED BY <2>1, <2>2
<1>21. ASSUME NEW q \in Procs, NEW r \in Procs, Holds(K[q], w), Holds(K[r], w),
              K[q].note = K[r].note, ~b[K[q].note].ever
       PROVE  q = r
  <2>1. \A h \in Procs : Holds(K[h], w) => Holds(job[h], w) /\ job[h].note = K[h].note
    BY <1>2, <1>9, <1>10
  <2> QED BY <1>19, <1>21, <2>1
<1>22. Carried(w, b, K, G)
  BY <1>16, <1>17, <1>18, <1>20, <1>21 DEF Carried
<1>23. ASSUME NEW v \in Watches
       PROVE  Carried(v, watch[v].box, K, heard'[v])
  <2>1. CASE v = w
    BY <1>11, <1>22, <2>1
  <2>2. CASE v # w
    <3>1. watch[v].box \in Seq(Notes) /\ heard[v] \in [Keys -> Nat]
      BY <1>0 DEF TypeInv, RecordType
    <3>2. SameJobs(v, job, K)
      <4>1. ~Holds(k, v)
        BY <1>9, <2>2 DEF Holds
      <4> QED BY <1>10, <4>1 DEF SameJobs
    <3>3. Carried(v, watch[v].box, job, heard[v])
      BY <1>0 DEF CarriedInv
    <3>4. Carried(v, watch[v].box, K, heard[v])
      BY <3>1, <3>2, <3>3, FrameCarried
    <3> QED BY <1>11, <2>2, <3>4
  <2> QED BY <2>1, <2>2
<1>24. CarriedInv'
  BY <1>1, <1>23 DEF CarriedInv, K
<1>25. ReportsInv' /\ ReplyInv'
  BY <1>0, <1>1 DEF ReportsInv, ReplyInv, Active
<1>26. CollectedInv'
  <2> DEFINE h == [kind |-> "outcome", ev |-> "completed"]
  <2>1. h \in Keys
    BY DEF Keys, Outcomes
  <2> HIDE DEF h
  <2>2. ASSUME NEW v \in collected
        PROVE  heard'[v][h] > 0
    <3>1. v \in Watches
      BY <1>0 DEF TypeInv
    <3>2. heard[v][h] > 0
      BY <1>0 DEF CollectedInv, h
    <3>3. CASE v = w
      <4>1. heard'[v][h] >= H[h] /\ H[h] > 0 /\ H[h] \in Nat /\ heard'[v][h] \in Nat
        BY <1>7, <1>11, <2>1, <3>2, <3>3 DEF H
      <4> QED BY <4>1
    <3>4. CASE v # w
      BY <1>11, <3>1, <3>2, <3>4
    <3> QED BY <3>3, <3>4
  <2> QED BY <1>0, <1>1, <2>2 DEF CollectedInv, h
<1>27. AnswerInv'
  <2> SUFFICES ASSUME NEW v \in screen.by, Active(v)
               PROVE  Used(v, screen.show) /\ Abreast(v, screen.show)'
    BY <1>1 DEF AnswerInv, Active, Used
  <2>1. Used(v, screen.show) /\ Abreast(v, screen.show)
    BY <1>0 DEF AnswerInv
  <2> QED BY <1>1, <1>12, <2>1 DEF Abreast, K
<1> QED BY <1>14, <1>24, <1>25, <1>26, <1>27 DEF WatchInv

LEMMA LapseKeeps ==
  ASSUME WatchInv, NEW w \in Watches, NEW i \in DOMAIN watch[w].box, Lapse(w, i)
  PROVE  WatchInv'
<1> DEFINE b == watch[w].box
           n == b[i]
           H == heard[w]
           s == watch[w].status
           t == TRUE
           o == [n EXCEPT !.lapsed = t, !.ever = t]
           c == [b EXCEPT ![i] = o]
<1>1. /\ n.status = "delivering"
      /\ Outbox(w, [b EXCEPT ![i].lapsed = t, ![i].ever = t])
      /\ Spend("lapses") \/ UNCHANGED budget
      /\ UNCHANGED <<due, collected, job, reply, screen, task, managed, heard>>
  BY DEF Lapse
<1>2. /\ b \in Seq(Notes) /\ H \in [Keys -> Nat]
      /\ Carried(w, b, job, H) /\ Reports(s, b)
      /\ job \in [Procs -> JobType] /\ budget \in BudgetType
  BY DEF WatchInv, TypeInv, RecordType, CarriedInv, ReportsInv
<1>3. n \in Notes /\ i \in DOMAIN b
  BY <1>2, BoxTyped
<1>4. t \in BOOLEAN /\ t
  OBVIOUS
<1>5. Outbox(w, c)
  <2>1. [b EXCEPT ![i].lapsed = t, ![i].ever = t] = c
    <3> HIDE DEF t
    <3> QED BY <1>2, <1>3 DEF Notes
  <2> QED BY <1>1, <2>1
<1> HIDE DEF c, b, H, s, t
<1>6. /\ o \in Notes /\ o.key = n.key /\ o.status = n.status /\ o.attempt = n.attempt
      /\ o.lapsed = t /\ o.ever = t
  <2> HIDE DEF n
  <2> QED BY <1>3, <1>4 DEF Notes
<1> HIDE DEF o, n
<1>7. Truthful(o, H[o.key])
  BY <1>1, <1>4, <1>6 DEF Truthful
<1>8. Unsettled(o) => Unsettled(n)
  BY <1>6 DEF Unsettled
<1>9. \A j \in 1..(i - 1) : ~Unsettled(b[j])
  BY <1>1, <1>2, <1>3 DEF Carried, InOrder, n
<1>10. \A p \in Procs : Holds(job[p], w) =>
         /\ job[p].note \in DOMAIN b
         /\ job[p].note # i => job[p] = job[p]
         /\ job[p].note = i => Carries(job[p], o, H[o.key])
  <2> SUFFICES ASSUME NEW p \in Procs, Holds(job[p], w)
               PROVE  /\ job[p].note \in DOMAIN b
                      /\ job[p].note = i => Carries(job[p], o, H[o.key])
    OBVIOUS
  <2>1. /\ job[p].note \in DOMAIN b
        /\ Carries(job[p], b[job[p].note], H[b[job[p].note].key])
    BY <1>2 DEF Carried
  <2> QED BY <1>4, <1>6, <2>1 DEF Carries, n
<1>11. \A p, q \in Procs :
         Holds(job[p], w) /\ Holds(job[q], w) /\ job[p].note = i /\ job[q].note = i
           /\ ~o.ever => p = q
  BY <1>4, <1>6
<1>12. n.ever => o.ever
  BY <1>4, <1>6
<1>13. Carried(w, c, job, H)
  BY <1>2, <1>3, <1>6, <1>7, <1>8, <1>9, <1>10, <1>11, <1>12, RewrittenCarried DEF c, n
<1>14. c \in Seq(Notes)
  BY <1>2, <1>3, <1>6, OneChanged DEF c
<1>15. Reports(s, c)
  BY <1>1, <1>2, <1>3, <1>6, RewrittenReports DEF c, n
<1>16. budget' \in BudgetType
  <2>1. CASE Spend("lapses")
    <3>1. PICK what \in {"shows", "claims", "replies", "fails", "lapses", "crashes"} : Spend(what)
      BY <2>1
    <3> QED BY <1>2, <3>1, SpendTyped
  <2>2. CASE UNCHANGED budget
    BY <1>2, <2>2
  <2> QED BY <1>1, <2>1, <2>2
<1>17. \A v \in Watches : SameJobs(v, job, job')
  BY <1>1 DEF SameJobs
<1>18. job' = job
  BY <1>1
<1> QED BY <1>1, <1>2, <1>5, <1>13, <1>14, <1>15, <1>16, <1>17, <1>18, OutboxStep DEF H, s

-----------------------------------------------------------------------------
(* Retention, deaths, the agent and the clock *)

LEMMA CollectKeeps ==
  ASSUME WatchInv, NEW w \in Watches, Collect(w)
  PROVE  WatchInv'
<1>0. TypeInv /\ CarriedInv /\ ReportsInv /\ CollectedInv /\ ReplyInv /\ AnswerInv
  BY DEF WatchInv
<1> DEFINE b == watch[w].box
           H == heard[w]
           o == [kind |-> "outcome", ev |-> "completed"]
<1>1. /\ Healthy(w) /\ collected' = collected \cup {w}
      /\ UNCHANGED <<watch, due, job, reply, screen, task, managed, heard, budget>>
  BY DEF Collect
<1>2. /\ watch[w].status = "completed"
      /\ watch[w].state \in {"none", "consumed", "superseded"}
      /\ \A i \in DOMAIN b : b[i].status \in {"delivered", "superseded"}
  BY <1>1 DEF Healthy
<1>3. H[o] > 0
  <2>1. PICK i \in DOMAIN b : b[i].key = o
    BY <1>0, <1>2 DEF ReportsInv, Reports
  <2>2. Truthful(b[i], H[b[i].key])
    BY <1>0 DEF CarriedInv, Carried
  <2>3. ~Attention(b[i])
    BY <2>1 DEF Attention
  <2>4. b[i].status = "delivered"
    BY <1>2, <2>2, <2>3 DEF Truthful
  <2> QED BY <2>1, <2>2, <2>4 DEF Truthful
<1>4. CollectedInv'
  BY <1>0, <1>1, <1>2, <1>3 DEF CollectedInv
<1>5. TypeInv'
  BY <1>0, <1>1 DEF TypeInv
<1>6. CarriedInv' /\ ReportsInv' /\ ReplyInv' /\ AnswerInv'
  BY <1>0, <1>1 DEF CarriedInv, ReportsInv, ReplyInv, AnswerInv, Active, Used, Abreast
<1> QED BY <1>4, <1>5, <1>6 DEF WatchInv

LEMMA DieKeeps ==
  ASSUME WatchInv, NEW p \in Procs, Die(p)
  PROVE  WatchInv'
<1>1. budget' \in BudgetType
  <2>1. budget \in BudgetType
    BY DEF WatchInv, TypeInv
  <2>2. PICK what \in {"shows", "claims", "replies", "fails", "lapses", "crashes"} : Spend(what)
    BY DEF Die
  <2> QED BY <2>1, <2>2, SpendTyped
<1> QED BY <1>1, DoneKeeps DEF Die

\* Steps of the agent, of managed Turns and of the clock leave records, jobs
\* and deliveries alone.
LEMMA AroundKeeps ==
  ASSUME WatchInv, UNCHANGED <<watch, collected, job, heard>>,
         due' \subseteq Watches,
         reply' = reply \/ reply' = NoReply,
         screen' = screen \/ (screen' \in ScreenType /\ screen'.by = {}),
         task' \in [progress : 0..MaxProgress, ended : BOOLEAN],
         managed' \in ManagedTurns \cup {None},
         budget' \in BudgetType
  PROVE  WatchInv'
<1>0. TypeInv /\ CarriedInv /\ ReportsInv /\ CollectedInv /\ ReplyInv /\ AnswerInv
  BY DEF WatchInv
<1>1. TypeInv'
  BY <1>0 DEF TypeInv
<1>2. CarriedInv' /\ ReportsInv' /\ CollectedInv'
  BY <1>0 DEF CarriedInv, ReportsInv, CollectedInv
<1>3. ReplyInv'
  BY <1>0 DEF ReplyInv, Active
<1>4. AnswerInv'
  <2>1. CASE screen' = screen
    BY <1>0, <2>1 DEF AnswerInv, Active, Used, Abreast
  <2>2. CASE screen'.by = {}
    BY <2>2 DEF AnswerInv
  <2> QED BY <2>1, <2>2
<1> QED BY <1>1, <1>2, <1>3, <1>4 DEF WatchInv

\* The types that the steps around the Watches rely on.
LEMMA AroundTyped ==
  ASSUME WatchInv
  PROVE  /\ due \subseteq Watches /\ managed \in ManagedTurns \cup {None}
         /\ task \in [progress : 0..MaxProgress, ended : BOOLEAN]
         /\ budget \in BudgetType
BY DEF WatchInv, TypeInv

LEMMA ReplyDiesKeeps ==
  ASSUME WatchInv, ReplyDies
  PROVE  WatchInv'
<1>1. budget' \in BudgetType
  <2>1. PICK what \in {"shows", "claims", "replies", "fails", "lapses", "crashes"} : Spend(what)
    BY DEF ReplyDies
  <2> QED BY <2>1, AroundTyped, SpendTyped
<1> QED BY <1>1, AroundTyped, AroundKeeps DEF ReplyDies

LEMMA ShowKeeps ==
  ASSUME WatchInv, NEW s \in {"working", "idle"} \cup Prompts, Show(s)
  PROVE  WatchInv'
<1>1. /\ screen' = [show |-> s, by |-> {}]
      /\ task' = task \/ (task.progress < MaxProgress
                            /\ task' = [task EXCEPT !.progress = @ + 1])
      /\ UNCHANGED <<watch, due, collected, job, reply, managed, heard>>
      /\ Spend("shows")
  BY DEF Show
<1>2. screen' \in ScreenType /\ screen'.by = {}
  BY <1>1 DEF ScreenType
<1>3. task' \in [progress : 0..MaxProgress, ended : BOOLEAN]
  BY <1>1, AroundTyped, BoundAssumption
<1>4. budget' \in BudgetType
  <2>1. PICK what \in {"shows", "claims", "replies", "fails", "lapses", "crashes"} : Spend(what)
    BY <1>1
  <2> QED BY <2>1, AroundTyped, SpendTyped
<1> QED BY <1>1, <1>2, <1>3, <1>4, AroundTyped, AroundKeeps

LEMMA TaskEndsKeeps ==
  ASSUME WatchInv, TaskEnds
  PROVE  WatchInv'
<1> DEFINE t == TRUE
<1>1. /\ screen' = [show |-> "idle", by |-> {}]
      /\ task' = [task EXCEPT !.ended = t]
      /\ UNCHANGED <<watch, due, collected, job, reply, managed, heard, budget>>
  BY DEF TaskEnds
<1>2. t \in BOOLEAN
  OBVIOUS
<1> HIDE DEF t
<1>3. screen' \in ScreenType /\ screen'.by = {}
  BY <1>1 DEF ScreenType
<1>4. task' \in [progress : 0..MaxProgress, ended : BOOLEAN]
  BY <1>1, <1>2, AroundTyped
<1> QED BY <1>1, <1>3, <1>4, AroundTyped, AroundKeeps

LEMMA AgentExitsKeeps ==
  ASSUME WatchInv, AgentExits
  PROVE  WatchInv'
<1>1. /\ screen' = [show |-> "gone", by |-> {}]
      /\ UNCHANGED <<watch, due, collected, job, reply, task, managed, heard, budget>>
  BY DEF AgentExits
<1>2. screen' \in ScreenType /\ screen'.by = {}
  BY <1>1 DEF ScreenType
<1> QED BY <1>1, <1>2, AroundTyped, AroundKeeps

LEMMA ManageKeeps ==
  ASSUME WatchInv, NEW c \in ManagedTurns \cup {None}, Manage(c)
  PROVE  WatchInv'
<1>1. budget' \in BudgetType
  <2>1. PICK what \in {"shows", "claims", "replies", "fails", "lapses", "crashes"} : Spend(what)
    BY DEF Manage
  <2> QED BY <2>1, AroundTyped, SpendTyped
<1> QED BY <1>1, AroundTyped, AroundKeeps DEF Manage

LEMMA DeadlineKeeps ==
  ASSUME WatchInv, NEW w \in Watches, Deadline(w)
  PROVE  WatchInv'
BY AroundTyped, AroundKeeps DEF Deadline

-----------------------------------------------------------------------------
(* The invariant *)

LEMMA InitWatchInv == Init => WatchInv
<1> SUFFICES ASSUME Init PROVE WatchInv
  OBVIOUS
<1> DEFINE S == [kind : Kinds, status : {"active"}, question : {None}, state : {"none"},
                 exec : {FALSE}, box : {<<>>}, offset : {0}, armed : {FALSE}, idle : {0}]
<1>1. watch \in [Watches -> S]
  BY DEF Init
<1>2. ASSUME NEW w \in Watches
      PROVE  /\ watch[w].kind \in Kinds /\ watch[w].status = "active"
             /\ watch[w].question = None /\ watch[w].state = "none"
             /\ watch[w].exec = FALSE /\ watch[w].box = <<>> /\ watch[w].offset = 0
             /\ watch[w].armed = FALSE /\ watch[w].idle = 0
  <2>1. watch[w] \in S
    BY <1>1
  <2> QED BY <2>1
<1>3. <<>> \in Seq(Notes) /\ DOMAIN <<>> = {}
  BY EmptySeq
<1>4. 0 \in 0..MaxProgress /\ 0 \in 0..3
  BY BoundAssumption
<1>5. S \subseteq RecordType
  BY <1>3, <1>4 DEF RecordType
<1>6. ASSUME NEW w \in Watches
      PROVE  Sane(watch[w])
  <2>1. watch[w].idle <= 1
    <3>1. watch[w].idle = 0
      BY <1>2
    <3> QED BY <3>1
  <2>2. watch[w].state = "none" /\ watch[w].question = None
    BY <1>2
  <2>3. (watch[w].state = "none") <=> (watch[w].question = None)
    BY <2>2
  <2> QED BY <2>1, <2>3 DEF Sane
<1>7. job \in [Procs -> JobType] /\ \A p \in Procs : job[p] = NoJob
  BY DEF Init, JobType
<1>8. budget \in BudgetType
  BY BoundAssumption DEF Init, BudgetType
<1>9. heard \in [Watches -> [Keys -> Nat]]
  BY DEF Init
<1>10. screen \in ScreenType /\ screen.by = {}
  BY DEF Init, ScreenType
<1>11. task \in [progress : 0..MaxProgress, ended : BOOLEAN]
  BY <1>4 DEF Init
<1>12. TypeInv
  <2>1. \A p \in Procs : Conclusive(job[p])
    BY <1>7 DEF Conclusive, NoJob
  <2>2. watch \in [Watches -> RecordType]
    BY <1>1, <1>5
  <2> QED BY <1>6, <1>7, <1>8, <1>9, <1>10, <1>11, <2>1, <2>2 DEF TypeInv, Init
<1>13. CarriedInv
  <2> SUFFICES ASSUME NEW w \in Watches
               PROVE  Carried(w, watch[w].box, job, heard[w])
    BY DEF CarriedInv
  <2>1. DOMAIN watch[w].box = {}
    BY <1>2, <1>3
  <2>2. \A k \in Keys : heard[w][k] = 0
    BY DEF Init
  <2>3. \A p \in Procs : ~Holds(job[p], w)
    BY <1>7 DEF Holds, NoJob
  <2> QED BY <2>1, <2>2, <2>3 DEF Carried, Distinct, InOrder
<1>14. ReportsInv
  <2> SUFFICES ASSUME NEW w \in Watches
               PROVE  Reports(watch[w].status, watch[w].box)
    BY DEF ReportsInv
  <2> QED BY <1>2, <1>3 DEF Reports
<1>15. CollectedInv /\ ReplyInv /\ AnswerInv
  BY <1>10 DEF Init, CollectedInv, ReplyInv, AnswerInv
<1> QED BY <1>12, <1>13, <1>14, <1>15 DEF WatchInv

LEMMA SweepKeeps ==
  ASSUME WatchInv, NEW p \in Procs, Sweep(p)
  PROVE  WatchInv'
<1>1. CASE \E w \in Watches : Observe(p, w) \/ TimeOut(p, w) \/ Claim(p, w)
  BY <1>1, ObserveKeeps, TimeOutKeeps, ClaimKeeps
<1>2. CASE Apply(p)
  BY <1>2, ApplyNothingKeeps, ApplyPendingKeeps, ApplyApprovalKeeps,
     ApplyQuestionKeeps, ApplyEndKeeps DEF Apply
<1>3. CASE Reach(p) \/ AcceptEarly(p) \/ Accepted(p)
  BY <1>3, ReachKeeps, AcceptEarlyKeeps, AcceptedKeeps
<1>4. CASE \E outcome \in {"retryable", "permanent", "uncertain"} : Fails(p, outcome)
  BY <1>4, FailsKeeps
<1>5. CASE Die(p)
  BY <1>5, DieKeeps
<1> QED BY <1>1, <1>2, <1>3, <1>4, <1>5 DEF Sweep

LEMMA RespondKeeps ==
  ASSUME WatchInv, Respond
  PROVE  WatchInv'
<1>1. CASE \E w \in Watches :
             Reserve(w) \/ Release(w) \/ Type(w) \/ Consume(w) \/ Uncertain(w)
  BY <1>1, ReserveKeeps, ReleaseKeeps, TypeKeeps, ConsumeKeeps, UncertainKeeps
<1>2. CASE ReplyDies
  BY <1>2, ReplyDiesKeeps
<1> QED BY <1>1, <1>2 DEF Respond

LEMMA EnvironmentKeeps ==
  ASSUME WatchInv, Environment
  PROVE  WatchInv'
<1>1. CASE \E s \in {"working", "idle"} \cup Prompts : Show(s)
  BY <1>1, ShowKeeps
<1>2. CASE TaskEnds \/ AgentExits
  BY <1>2, TaskEndsKeeps, AgentExitsKeeps
<1>3. CASE \E c \in ManagedTurns \cup {None} : Manage(c)
  BY <1>3, ManageKeeps
<1>4. CASE \E w \in Watches : Deadline(w) \/ Cancel(w) \/ Collect(w)
  BY <1>4, DeadlineKeeps, CancelKeeps, CollectKeeps
<1>5. CASE \E w \in Watches : \E i \in DOMAIN watch[w].box : Lapse(w, i)
  BY <1>5, LapseKeeps
<1> QED BY <1>1, <1>2, <1>3, <1>4, <1>5 DEF Environment

LEMMA StutterKeeps ==
  ASSUME WatchInv, UNCHANGED vars
  PROVE  WatchInv'
<1>1. /\ UNCHANGED <<watch, collected, job, heard>> /\ due' = due /\ reply' = reply
      /\ screen' = screen /\ task' = task /\ managed' = managed /\ budget' = budget
  BY DEF vars
<1> QED BY <1>1, AroundTyped, AroundKeeps

THEOREM WatchInvHolds == Spec => []WatchInv
<1>1. WatchInv /\ [Next]_vars => WatchInv'
  BY SweepKeeps, RespondKeeps, EnvironmentKeeps, StutterKeeps DEF Next
<1> QED BY <1>1, InitWatchInv, PTL DEF Spec

-----------------------------------------------------------------------------
(* What follows from the invariant *)

LEMMA WatchTypes == WatchInv => TypeOK
<1> SUFFICES ASSUME WatchInv PROVE TypeOK
  OBVIOUS
<1>1. TypeInv /\ CarriedInv
  BY DEF WatchInv
<1>2. ASSUME NEW w \in Watches
      PROVE  LET x == watch[w]
             IN /\ x.kind \in Kinds
                /\ x.status \in Outcomes \cup {"active"}
                /\ x.question \in Questions \cup {None}
                /\ x.state \in Resolved \cup {"none", "pending", "reserved"}
                /\ (x.state = "none") = (x.question = None)
                /\ x.exec \in BOOLEAN /\ x.armed \in BOOLEAN
                /\ x.offset \in 0..MaxProgress /\ x.idle \in 0..3
                /\ \A i \in DOMAIN x.box : x.box[i] \in Notes
                /\ \A i, j \in DOMAIN x.box : x.box[i].key = x.box[j].key => i = j
  <2> DEFINE x == watch[w]
  <2>1. x \in RecordType /\ Sane(x) /\ Distinct(x.box)
    BY <1>1 DEF TypeInv, CarriedInv, Carried
  <2> HIDE DEF x
  <2>2. x.box \in Seq(Notes)
    BY <2>1 DEF RecordType
  <2>3. \A i \in DOMAIN x.box : x.box[i] \in Notes
    BY <2>2, BoxTyped
  <2>4. \A i, j \in DOMAIN x.box : x.box[i].key = x.box[j].key => i = j
    BY <2>1 DEF Distinct
  <2>5. (x.state = "none") = (x.question = None)
    BY <2>1 DEF Sane
  <2>6. /\ x.kind \in Kinds
        /\ x.status \in Outcomes \cup {"active"}
        /\ x.question \in Questions \cup {None}
        /\ x.state \in Resolved \cup {"none", "pending", "reserved"}
        /\ x.exec \in BOOLEAN /\ x.armed \in BOOLEAN
        /\ x.offset \in 0..MaxProgress /\ x.idle \in 0..3
    BY <2>1 DEF RecordType
  <2> QED BY <2>3, <2>4, <2>5, <2>6 DEF x
<1>3. \A p \in Procs : job[p] \in Observations \cup Deliveries \cup {NoJob}
  BY <1>1 DEF TypeInv, JobType
<1>4. /\ screen.show \in {"working", "idle", "gone"} \cup Prompts
      /\ screen.by \subseteq Watches
  BY <1>1 DEF TypeInv, ScreenType
<1>5. \A w \in Watches : heard[w] \in [Keys -> Nat]
  BY <1>1 DEF TypeInv
<1>6. \A b \in DOMAIN budget : budget[b] \in Nat
  BY <1>1 DEF TypeInv, BudgetType
<1>7. /\ due \subseteq Watches /\ collected \subseteq Watches
      /\ reply \in [watch : Watches, stage : {"reserved", "typed"}] \cup {NoReply}
      /\ task \in [progress : 0..MaxProgress, ended : BOOLEAN]
      /\ managed \in ManagedTurns \cup {None}
  BY <1>1 DEF TypeInv
<1> QED BY <1>2, <1>3, <1>4, <1>5, <1>6, <1>7 DEF TypeOK

\* Every variable stays in its type and no notification is stored twice.
THEOREM Typing == Spec => []TypeOK
BY WatchInvHolds, WatchTypes, PTL

\* A controller hears of the same thing twice only when a sender's lease ran
\* out before its receipt was saved.
THEOREM Once == Spec => []OnceUnlessLapsed
<1>1. WatchInv => OnceUnlessLapsed
  <2> SUFFICES ASSUME WatchInv, NEW w \in Watches, NEW i \in DOMAIN watch[w].box,
                      ~watch[w].box[i].ever
               PROVE  ~(heard[w][watch[w].box[i].key] > 1)
    BY DEF OnceUnlessLapsed
  <2> DEFINE n == watch[w].box[i]
             h == heard[w][n.key]
  <2>1. Truthful(n, h) /\ ~n.ever
    BY DEF WatchInv, CarriedInv, Carried
  <2>2. watch[w].box \in Seq(Notes) /\ heard[w] \in [Keys -> Nat]
    BY DEF WatchInv, TypeInv, RecordType
  <2>3. n \in Notes
    BY <2>2, BoxTyped
  <2>4. h \in Nat
    <3>1. n.key \in Keys
      BY <2>3 DEF Notes
    <3> QED BY <2>2, <3>1
  <2> HIDE DEF h, n
  <2>5. h <= 1
    BY <2>1 DEF Truthful
  <2> QED BY <2>4, <2>5 DEF h, n
<1> QED BY <1>1, WatchInvHolds, PTL

\* Retention removes no record whose outcome the controller has not received
\* or whose question may still be waiting for an answer.
THEOREM Removed == Spec => []RemovedIsReceived
<1>1. WatchInv => RemovedIsReceived
  BY DEF WatchInv, CollectedInv, RemovedIsReceived
<1> QED BY <1>1, WatchInvHolds, PTL

\* Keys of an answer never follow those of another answer to the same display
\* of a question, by this Watch or by another one still active.
THEOREM OneAnswerHolds == Spec => OneAnswer
<1>1. WatchInv => \A w \in Watches :
                    Type(w) => \A v \in screen.by : watch[v].status # "active"
  <2> SUFFICES ASSUME WatchInv, NEW w \in Watches, Type(w), NEW v \in screen.by
               PROVE  watch[v].status # "active"
    OBVIOUS
  <2>1. reply.watch = w /\ reply.stage = "reserved"
    BY DEF Type
  <2>2. ~Active(v)
    BY <2>1, RepliesTyped
  <2> QED BY <2>2 DEF Active
<1> QED BY <1>1, WatchInvHolds, PTL DEF OneAnswer

\* The attention in the outbox of a settled Watch is not taken up.
Quiet(w) ==
  \A i \in DOMAIN watch[w].box :
    watch[w].status # "active" /\ Attention(watch[w].box[i]) =>
      /\ watch'[w].box[i].attempt = watch[w].box[i].attempt
      /\ watch'[w].box[i].status # "failed"

LEMMA SpareIsQuiet ==
  ASSUME WatchInv, NEW w \in Watches, watch'[w] = watch[w]
  PROVE  Quiet(w)
BY DEF WatchInv, ReportsInv, Reports, Quiet

\* Active Watches are quiet, and so are those whose outbox is only tidied.
LEMMA ActiveIsQuiet ==
  ASSUME NEW w, Active(w)
  PROVE  Quiet(w)
BY DEF Quiet, Active

LEMMA SavedIsQuiet ==
  ASSUME WatchInv, NEW w \in Watches, NEW u \in Watches, NEW p, NEW x,
         SaveBy(p, u, x), Active(u) \/ Improves(u, x)
  PROVE  Quiet(w)
<1>1. watch \in [Watches -> RecordType] /\ watch' = [watch EXCEPT ![u] = x]
  BY DEF WatchInv, TypeInv, SaveBy
<1>2. CASE u # w
  BY <1>1, <1>2, SpareIsQuiet
<1>3. CASE u = w /\ Active(u)
  BY <1>3, ActiveIsQuiet
<1>4. CASE u = w /\ Improves(u, x)
  <2> DEFINE b == watch[w].box
             c == x.box
  <2>1. b \in Seq(Notes) /\ Tidies(b, c) /\ Reports(watch[w].status, b)
    BY <1>1, <1>4 DEF Improves, RecordType, WatchInv, ReportsInv
  <2>2. watch'[w].box = c
    BY <1>1, <1>4
  <2> HIDE DEF c, b
  <2>3. \A i \in DOMAIN b :
          /\ c[i].attempt = b[i].attempt
          /\ c[i].status = b[i].status \/ c[i].status = "superseded"
    BY <2>1, TidiedNote
  <2>4. ASSUME NEW i \in DOMAIN b, watch[w].status # "active", Attention(b[i])
        PROVE  c[i].attempt = b[i].attempt /\ c[i].status # "failed"
    <3>1. b[i].status # "failed"
      BY <2>1, <2>4 DEF Reports
    <3> QED BY <2>3, <3>1
  <2> QED BY <2>2, <2>4 DEF Quiet, b
<1> QED BY <1>2, <1>3, <1>4

\* A settled Watch is never observed, settled or asked again.
LEMMA ApplyIsQuiet ==
  ASSUME WatchInv, NEW w \in Watches, NEW p \in Procs, Apply(p)
  PROVE  Quiet(w)
<1> DEFINE u == job[p].watch
<1>1. ASSUME Done(p) PROVE Quiet(w)
  BY <1>1, SpareIsQuiet DEF Done
<1>2. ASSUME Observed(p), Active(u), NEW x, SaveBy(p, u, x) PROVE Quiet(w)
  BY <1>2, AppliesTyped, SavedIsQuiet
<1>3. ASSUME Observed(p), Active(u), NEW x, Commit(p, x) PROVE Quiet(w)
  BY <1>1, <1>2, <1>3 DEF Commit
<1>4. ASSUME Observed(p), Active(u), NEW x, NEW outcome, SettleBy(p, u, x, outcome)
      PROVE  Quiet(w)
  BY <1>2, <1>4 DEF SettleBy
<1>5. CASE ApplyNothing(p)
  BY <1>1, <1>5 DEF ApplyNothing
<1>6. CASE ApplyPending(p)
  BY <1>3, <1>6 DEF ApplyPending, Applies
<1>7. CASE ApplyApproval(p)
  BY <1>3, <1>7 DEF ApplyApproval, Applies
<1>8. CASE ApplyQuestion(p)
  BY <1>1, <1>2, <1>3, <1>8 DEF ApplyQuestion, Applies
<1>9. CASE ApplyEnd(p)
  BY <1>2, <1>4, <1>9 DEF ApplyEnd, Applies
<1> QED BY <1>5, <1>6, <1>7, <1>8, <1>9 DEF Apply

LEMMA SettleIsQuiet ==
  ASSUME WatchInv, NEW w \in Watches, NEW u \in Watches, NEW p, NEW x, NEW outcome,
         Active(u), SettleBy(p, u, x, outcome)
  PROVE  Quiet(w)
BY SavedIsQuiet DEF SettleBy

\* Only the outbox of one Watch changes, and only one of its notifications.
LEMMA OutboxIsQuiet ==
  ASSUME WatchInv, NEW w \in Watches, NEW u \in Watches, NEW c, Outbox(u, c),
         ~Active(u) => \A i \in DOMAIN watch[u].box :
            Attention(watch[u].box[i]) =>
              /\ c[i].attempt = watch[u].box[i].attempt
              /\ c[i].status = watch[u].box[i].status
                   \/ c[i].status \in {"delivered", "superseded"}
  PROVE  Quiet(w)
<1>1. watch \in [Watches -> RecordType] /\ watch' = [watch EXCEPT ![u].box = c]
  BY DEF WatchInv, TypeInv, Outbox
<1>2. CASE u # w
  BY <1>1, <1>2, SpareIsQuiet
<1>3. CASE u = w /\ Active(u)
  BY <1>3, ActiveIsQuiet
<1>4. CASE u = w /\ ~Active(u)
  <2>1. watch'[w].box = c
    BY <1>1, <1>4 DEF RecordType
  <2>2. ASSUME NEW i \in DOMAIN watch[w].box, watch[w].status # "active",
               Attention(watch[w].box[i])
        PROVE  /\ c[i].attempt = watch[w].box[i].attempt
               /\ c[i].status # "failed"
    <3>1. watch[w].box[i].status # "failed"
      BY <2>2 DEF WatchInv, ReportsInv, Reports
    <3> QED BY <1>4, <2>2, <3>1
  <2> QED BY <2>1, <2>2 DEF Quiet
<1> QED BY <1>2, <1>3, <1>4

LEMMA FinishIsQuiet ==
  ASSUME WatchInv, NEW w \in Watches, NEW p \in Procs, Delivering(p), NEW outcome,
         Finish(p, outcome)
  PROVE  Quiet(w)
<1> DEFINE u == job[p].watch
           i == job[p].note
           b == watch[u].box
           n == b[i]
           f == Finished(u, n, outcome)
           no == FALSE
           c == [b EXCEPT ![i].status = f, ![i].lapsed = no]
<1>1. u \in Watches /\ i \in DOMAIN b /\ n \in Notes /\ b \in Seq(Notes)
  BY DeliveringTyped
<1>2. CASE watch' = watch
  BY <1>2, SpareIsQuiet
<1>3. CASE Outbox(u, c)
  <2>1. ~Active(u) /\ Attention(n) => f \in {"delivered", "superseded"}
    BY FinishedStatus
  <2> HIDE DEF f, no
  <2>2. \A j \in DOMAIN b : j # i => c[j] = b[j]
    BY <1>1
  <2>3. c[i].status = f /\ c[i].attempt = n.attempt
    BY <1>1 DEF Notes
  <2> HIDE DEF c, i, n
  <2>4. ~Active(u) => \A j \in DOMAIN b : Attention(b[j]) =>
          /\ c[j].attempt = b[j].attempt
          /\ c[j].status = b[j].status \/ c[j].status \in {"delivered", "superseded"}
    BY <2>1, <2>2, <2>3 DEF n
  <2> QED BY <1>1, <1>3, <2>4, OutboxIsQuiet
<1> QED BY <1>2, <1>3 DEF Finish

LEMMA LapseIsQuiet ==
  ASSUME WatchInv, NEW w \in Watches, NEW u \in Watches, NEW i \in DOMAIN watch[u].box,
         Lapse(u, i)
  PROVE  Quiet(w)
<1> DEFINE b == watch[u].box
           t == TRUE
           c == [b EXCEPT ![i].lapsed = t, ![i].ever = t]
<1>1. b \in Seq(Notes) /\ Outbox(u, c)
  BY DEF WatchInv, TypeInv, RecordType, Lapse
<1>2. b[i] \in Notes
  BY <1>1, BoxTyped
<1> HIDE DEF t
<1>3. \A j \in DOMAIN b : c[j].attempt = b[j].attempt /\ c[j].status = b[j].status
  BY <1>1, <1>2 DEF Notes
<1> HIDE DEF c
<1> QED BY <1>1, <1>3, OutboxIsQuiet

\* The head of a settled Watch is not attention once Quieted has passed it.
LEMMA ClaimIsQuiet ==
  ASSUME WatchInv, NEW w \in Watches, NEW p \in Procs, NEW u \in Watches, Claim(p, u)
  PROVE  Quiet(w)
<1> DEFINE b == watch[u].box
           h == HeadOf(b)
           d == Quieted(u)
           i == HeadOf(d)
           no == FALSE
           t == "delivering"
           c == [d EXCEPT ![i].status = t, ![i].attempt = @ + 1, ![i].lapsed = no]
<1>1. /\ b \in Seq(Notes) /\ d \in Seq(Notes)
      /\ Carried(u, b, job, heard[u]) /\ Reports(watch[u].status, b)
  BY QuietedCarried DEF WatchInv, TypeInv, RecordType, CarriedInv, ReportsInv
<1>2. \/ i > 0 /\ Claimable(d[i]) /\ Outbox(u, c)
      \/ Outbox(u, d)
  BY DEF Claim
<1>3. /\ h \in Nat
      /\ h > 0 => /\ h \in DOMAIN b /\ Unsettled(b[h])
                  /\ \A j \in 1..(h - 1) : ~Unsettled(b[j])
      /\ i \in Nat
      /\ i > 0 => /\ i \in DOMAIN d /\ Unsettled(d[i])
                  /\ \A j \in 1..(i - 1) : ~Unsettled(d[j])
  BY <1>1, HeadIsFirst
<1> DEFINE drops == h > 0 /\ Attention(b[h]) /\ Claimable(b[h])
<1>4. CASE Active(u)
  <2>1. CASE u = w
    BY <1>4, <2>1, ActiveIsQuiet
  <2>2. CASE u # w
    <3>1. watch'[w] = watch[w]
      BY <1>2, <2>2 DEF Outbox, WatchInv, TypeInv
    <3> QED BY <3>1, SpareIsQuiet
  <2> QED BY <2>1, <2>2
<1>5. CASE ~Active(u)
  <2>1. /\ drops => d = [b EXCEPT ![h] = Superseded(b[h])]
        /\ ~drops => d = b
    BY <1>5 DEF Quieted, Superseded
  <2> HIDE DEF d, c
  <2>2. /\ DOMAIN d = DOMAIN b
        /\ \A j \in DOMAIN b : j # h \/ ~drops => d[j] = b[j]
        /\ drops => d[h] = Superseded(b[h])
    <3>1. CASE drops
      <4>1. h \in DOMAIN b /\ b[h] \in Notes
        BY <1>1, <1>3, <3>1, BoxTyped
      <4> DEFINE m == Superseded(b[h])
      <4>2. m \in Notes
        BY <4>1, SupersededNote
      <4>3. d = [b EXCEPT ![h] = m]
        BY <2>1, <3>1
      <4> HIDE DEF m, h, b
      <4>4. DOMAIN d = DOMAIN b /\ d[h] = m /\ \A j \in DOMAIN b : j # h => d[j] = b[j]
        BY <1>1, <4>1, <4>2, <4>3, OneChanged
      <4> QED BY <3>1, <4>4 DEF m
    <3>2. CASE ~drops
      BY <2>1, <3>2
    <3> QED BY <3>1, <3>2
  <2>3. ASSUME NEW j \in DOMAIN b
        PROVE  /\ d[j].key = b[j].key /\ d[j].attempt = b[j].attempt
               /\ d[j].status = b[j].status \/ d[j].status = "superseded"
    <3>1. b[j] \in Notes
      BY <1>1, BoxTyped
    <3>2. CASE j = h /\ drops
      <4>1. d[j] = Superseded(b[j])
        BY <2>2, <3>2
      <4> HIDE DEF b
      <4> QED BY <3>1, <4>1, SupersededNote
    <3>3. CASE ~(j = h /\ drops)
      <4>1. d[j] = b[j]
        BY <2>2, <3>3
      <4> QED BY <4>1
    <3> QED BY <3>2, <3>3
  <2>4. CASE Outbox(u, d)
    <3>1. ~Active(u) => \A j \in DOMAIN b : Attention(b[j]) =>
            /\ d[j].attempt = b[j].attempt
            /\ d[j].status = b[j].status \/ d[j].status \in {"delivered", "superseded"}
      BY <2>3
    <3> QED BY <2>4, <3>1, OutboxIsQuiet
  <2>5. CASE i > 0 /\ Claimable(d[i]) /\ Outbox(u, c)
    <3>1. i \in DOMAIN b /\ Unsettled(d[i])
      BY <1>3, <2>2, <2>5
    <3>2. ~Attention(b[i])
      <4> SUFFICES ASSUME Attention(b[i]) PROVE FALSE
        OBVIOUS
      <4>1. ~(i = h /\ drops)
        <5> SUFFICES ASSUME i = h, drops PROVE FALSE
          OBVIOUS
        <5>1. b[i] \in Notes
          BY <1>1, <3>1, BoxTyped
        <5>2. d[i] = Superseded(b[i])
          BY <2>2
        <5>3. d[i].status = "superseded"
          BY <5>1, <5>2, SupersededNote
        <5> QED BY <3>1, <5>3 DEF Unsettled
      <4>2. d[i] = b[i]
        BY <2>2, <3>1, <4>1
      <4>3. b[i].status = "delivering"
        BY <1>1, <1>5, <3>1, <4>2 DEF Reports, Unsettled, Active
      <4>4. CASE ~drops
        <5>1. d = b
          BY <2>1, <4>4
        <5>2. i = h
          BY <5>1
        <5> QED BY <2>5, <4>2, <4>4, <5>2
      <4>5. CASE drops
        <5>1. h \in DOMAIN b /\ Unsettled(b[h]) /\ \A j \in 1..(h - 1) : ~Unsettled(b[j])
          BY <1>3, <4>5
        <5>2. \A j \in 1..(i - 1) : ~Unsettled(b[j])
          BY <1>1, <3>1, <4>3 DEF Carried, InOrder
        <5>3. i # h
          BY <4>1, <4>5
        <5>4. DOMAIN b = 1..Len(b) /\ Len(b) \in Nat
          BY <1>1, BoxTyped
        <5>5. h \in Nat /\ i \in Nat /\ h >= 1 /\ i >= 1
          <6> HIDE DEF h, i, b
          <6> QED BY <3>1, <5>1, <5>4
        <5>6. CASE h < i
          <6>1. h \in 1..(i - 1)
            <7> HIDE DEF h, i
            <7> QED BY <5>5, <5>6
          <6> QED BY <5>1, <5>2, <6>1
        <5>7. CASE i < h
          <6>1. i \in 1..(h - 1)
            <7> HIDE DEF h, i
            <7> QED BY <5>5, <5>7
          <6> QED BY <3>1, <4>2, <5>1, <6>1
        <5>8. h < i \/ i < h
          <6> HIDE DEF h, i
          <6> QED BY <5>3, <5>5
        <5> QED BY <5>6, <5>7, <5>8
      <4> QED BY <4>4, <4>5
    <3>3. \A j \in DOMAIN d : j # i => c[j] = d[j]
      <4> HIDE DEF i
      <4> QED BY <1>1 DEF c
    <3>4. ~Active(u) => \A j \in DOMAIN b : Attention(b[j]) =>
            /\ c[j].attempt = b[j].attempt
            /\ c[j].status = b[j].status \/ c[j].status \in {"delivered", "superseded"}
      BY <2>2, <2>3, <3>2, <3>3
    <3> QED BY <2>5, <3>4, OutboxIsQuiet
  <2> QED BY <1>2, <2>4, <2>5
<1> QED BY <1>4, <1>5

LEMMA RespondIsQuiet ==
  ASSUME WatchInv, NEW w \in Watches, Respond
  PROVE  Quiet(w)
<1>1. TypeInv /\ ReportsInv
  BY DEF WatchInv
<1>2. ASSUME NEW u \in Watches, Reserve(u) PROVE Quiet(w)
  BY <1>2, SavedIsQuiet DEF Reserve
<1>3. ASSUME NEW u \in Watches, Release(u) \/ Uncertain(u) PROVE Quiet(w)
  <2>1. reply.watch = u
    BY <1>3 DEF Release, Uncertain
  <2>2. watch[u].state # "none"
    BY <2>1, RepliesTyped
  <2>3. PICK s \in {"pending", "uncertain"} :
          SaveBy(None, u, [watch[u] EXCEPT !.state = s])
    BY <1>3 DEF Release, Uncertain
  <2>4. s \in Resolved \cup {"pending", "reserved"}
    BY DEF Resolved
  <2> DEFINE x == [watch[u] EXCEPT !.state = s]
  <2>5. Improves(u, x)
    BY <1>1, <2>2, <2>4, StateImproves
  <2>6. SaveBy(None, u, x)
    BY <2>3
  <2> HIDE DEF x
  <2> QED BY <2>5, <2>6, SavedIsQuiet
<1>4. ASSUME NEW u \in Watches, Consume(u) PROVE Quiet(w)
  <2>1. reply.watch = u
    BY <1>4 DEF Consume
  <2>2. watch[u].state # "none"
    BY <2>1, RepliesTyped
  <2>3. Improves(u, Consumed(watch[u]))
    BY <1>1, <2>2, ConsumedImproves
  <2> QED BY <1>4, <2>3, SavedIsQuiet DEF Consume
<1>5. ASSUME (\E u \in Watches : Type(u)) \/ ReplyDies PROVE Quiet(w)
  BY <1>5, SpareIsQuiet DEF Type, ReplyDies
<1> QED BY <1>2, <1>3, <1>4, <1>5 DEF Respond

LEMMA StepIsQuiet ==
  ASSUME WatchInv, NEW w \in Watches, [Next]_vars
  PROVE  Quiet(w)
<1>1. ASSUME NEW p \in Procs, Sweep(p) PROVE Quiet(w)
  <2>1. ASSUME NEW u \in Watches, Observe(p, u) PROVE Quiet(w)
    BY <2>1, SpareIsQuiet DEF Observe
  <2>2. ASSUME NEW u \in Watches, TimeOut(p, u) PROVE Quiet(w)
    BY <2>2, SettleIsQuiet DEF TimeOut
  <2>3. ASSUME NEW u \in Watches, Claim(p, u) PROVE Quiet(w)
    BY <2>3, ClaimIsQuiet
  <2>4. CASE Reach(p) \/ Die(p)
    BY <2>4, SpareIsQuiet DEF Reach, Die
  <2>5. ASSUME NEW outcome, Delivering(p), Finish(p, outcome) PROVE Quiet(w)
    BY <2>5, FinishIsQuiet
  <2>6. CASE AcceptEarly(p) \/ Accepted(p)
    BY <2>5, <2>6 DEF AcceptEarly, Accepted
  <2>7. ASSUME NEW outcome, Fails(p, outcome) PROVE Quiet(w)
    BY <2>5, <2>7 DEF Fails
  <2> QED BY <1>1, <2>1, <2>2, <2>3, <2>4, <2>6, <2>7, ApplyIsQuiet DEF Sweep
<1>2. CASE Respond
  BY <1>2, RespondIsQuiet
<1>3. ASSUME Environment PROVE Quiet(w)
  <2>1. ASSUME NEW u \in Watches, Cancel(u) PROVE Quiet(w)
    BY <2>1, SettleIsQuiet DEF Cancel
  <2>2. ASSUME NEW u \in Watches, NEW i \in DOMAIN watch[u].box, Lapse(u, i) PROVE Quiet(w)
    BY <2>2, LapseIsQuiet
  <2>3. ASSUME UNCHANGED watch PROVE Quiet(w)
    BY <2>3, SpareIsQuiet
  <2>4. ASSUME NEW s, Show(s) PROVE Quiet(w)
    BY <2>3, <2>4 DEF Show
  <2>5. CASE TaskEnds \/ AgentExits
    BY <2>3, <2>5 DEF TaskEnds, AgentExits
  <2>6. ASSUME NEW c, Manage(c) PROVE Quiet(w)
    BY <2>3, <2>6 DEF Manage
  <2>7. ASSUME NEW u, Deadline(u) \/ Collect(u) PROVE Quiet(w)
    BY <2>3, <2>7 DEF Deadline, Collect
  <2> QED BY <1>3, <2>1, <2>2, <2>4, <2>5, <2>6, <2>7 DEF Environment
<1>4. CASE UNCHANGED vars
  BY <1>4, SpareIsQuiet DEF vars
<1> QED BY <1>1, <1>2, <1>3, <1>4 DEF Next

\* Once a Watch has settled no sender takes up a question or an approval of
\* its task again, however the attempt in flight at that moment ends.
THEOREM SettledQuiet == Spec => SettledWatchIsQuiet
<1>1. WatchInv /\ [Next]_vars =>
        \A w \in Watches : \A i \in DOMAIN watch[w].box :
          (watch[w].status # "active" /\ Attention(watch[w].box[i])) =>
            /\ watch'[w].box[i].attempt = watch[w].box[i].attempt
            /\ watch'[w].box[i].status # "failed"
  BY StepIsQuiet DEF Quiet
<1> QED BY <1>1, WatchInvHolds, PTL DEF Spec, SettledWatchIsQuiet

=============================================================================

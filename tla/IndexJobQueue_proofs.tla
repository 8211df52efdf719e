------------------------ MODULE IndexJobQueue_proofs ------------------------
(***************************************************************************)
(* What holds of the index job queue for every set of keys and requests,   *)
(* every limit of the queue and every number of calls.                      *)
(*                                                                          *)
(* The invariant is the order of the queue (Orderly: its jobs are distinct, *)
(* the unanswered ones, and the more urgent ones come first) and the types  *)
(* of the maps that go with it (Books).  WarmYields is not inductive        *)
(* without the order: a job that takes the slot must be the most urgent.    *)
(* Serves is what a step owes the callers, and what the refinement to the   *)
(* single-flight service needs of it.                                       *)
(*                                                                          *)
(* AskedIsKept needs more (AskedInv): which promise duplicates join         *)
(* (BoundTo), that at most one .finally() is due and that the rerun it      *)
(* starts finds room (RerunFits), and what is owed to a key (Owed).         *)
(***************************************************************************)
EXTENDS IndexJobQueue, SequenceTheorems, WellFoundedInduction, TLAPS

-----------------------------------------------------------------------------
(* Sequences: an element put in or taken out.                                *)

\* An element inserted at a place.
LEMMA InsertAtIs ==
    ASSUME NEW S, NEW s \in Seq(S), NEW i \in 1..Len(s), NEW e \in S
    PROVE  /\ SX!InsertAt(s, i, e) \in Seq(S)
           /\ Len(SX!InsertAt(s, i, e)) = Len(s) + 1
           /\ \A k \in 1..(Len(s) + 1) :
                SX!InsertAt(s, i, e)[k] = IF k < i THEN s[k] ELSE IF k = i THEN e ELSE s[k - 1]
BY DEF SX!InsertAt

\* An element taken out of a place.
LEMMA RemoveAtIs ==
    ASSUME NEW S, NEW s \in Seq(S), NEW i \in 1..Len(s)
    PROVE  /\ SX!RemoveAt(s, i) \in Seq(S)
           /\ Len(SX!RemoveAt(s, i)) = Len(s) - 1
           /\ \A k \in 1..(Len(s) - 1) :
                SX!RemoveAt(s, i)[k] = IF k < i THEN s[k] ELSE s[k + 1]
<1> DEFINE a == SubSeq(s, 1, i - 1)
           b == SubSeq(s, i + 1, Len(s))
<1>1. a \in Seq(S) /\ Len(a) = i - 1 /\ \A k \in 1..(i - 1) : a[k] = s[k]
  OBVIOUS
<1>2. b \in Seq(S) /\ Len(b) = Len(s) - i /\ \A k \in 1..(Len(s) - i) : b[k] = s[i + k]
  <2>1. CASE i = Len(s)
    BY <2>1
  <2>2. CASE i < Len(s)
    BY <2>2
  <2> QED BY <2>1, <2>2
<1>3. SX!RemoveAt(s, i) = a \o b
  BY DEF SX!RemoveAt
<1>0. Len(s) \in Nat /\ i \in Nat /\ i >= 1 /\ i <= Len(s)
  OBVIOUS
<1> HIDE DEF a, b
<1>4. a \o b \in Seq(S) /\ Len(a \o b) = Len(a) + Len(b)
  BY <1>1, <1>2, ConcatProperties
<1>6. Len(a \o b) = Len(s) - 1
  BY <1>0, <1>1, <1>2, <1>4
<1>5. ASSUME NEW k \in 1..(Len(s) - 1)
      PROVE  (a \o b)[k] = IF k < i THEN s[k] ELSE s[k + 1]
  <2>1. CASE k < i
    BY <1>0, <1>1, <1>2, <2>1
  <2>2. CASE ~(k < i)
    <3>0. k - (i - 1) \in 1..Len(b) /\ k - Len(a) = k - (i - 1)
      BY <1>0, <1>1, <1>2, <2>2
    <3>1. (a \o b)[k] = b[k - Len(a)]
      BY <1>0, <1>1, <1>2, <1>6, <2>2
    <3>2. b[k - (i - 1)] = s[i + (k - (i - 1))]
      BY <1>2, <3>0
    <3>3. i + (k - (i - 1)) = k + 1
      BY <1>0
    <3> QED BY <2>2, <3>0, <3>1, <3>2, <3>3
  <2> QED BY <2>1, <2>2
<1> QED BY <1>3, <1>4, <1>5, <1>6

\* The least number of a set that is not empty.
LEMMA FirstIs ==
    ASSUME NEW S \in SUBSET Nat, S # {}
    PROVE  First(S) \in S /\ \A k \in S : First(S) <= k
<1>1. PICK x \in S : \A y \in S : ~(<<y, x>> \in OpToRel(<, Nat))
  BY WFMin, NatLessThanWellFounded
<1>2. ASSUME NEW y \in S PROVE x <= y
  <2>1. ~(<<y, x>> \in {ss \in Nat \X Nat : ss[1] < ss[2]})
    BY <1>1, Zenon DEF OpToRel
  <2> QED BY <2>1
<1> QED BY <1>2 DEF First

-----------------------------------------------------------------------------
(* The order of the queue.                                                   *)

Members(queue) == {queue[i] : i \in DOMAIN queue}
Distinct(queue) == \A i, k \in DOMAIN queue : queue[i] = queue[k] => i = k
InOrder(queue, made) ==
    \A i, k \in DOMAIN queue :
        i <= k => Rank[made[queue[i]].priority] <= Rank[made[queue[k]].priority]

\* Every job has a rank.
LEMMA RankType ==
    ASSUME NEW made \in Seq(JobRec), NEW j \in DOMAIN made
    PROVE  Rank[made[j].priority] \in Nat
<1>1. made[j] \in JobRec
  OBVIOUS
<1>2. made[j].priority \in Prio
  BY <1>1 DEF JobRec
<1> QED BY <1>2 DEF Rank, Prio

\* A job inserted by its priority keeps the queue in order.
LEMMA InsertKeeps ==
    ASSUME NEW made \in Seq(JobRec), NEW queue \in Seq(DOMAIN made), NEW j \in DOMAIN made,
           j \notin Members(queue), Distinct(queue), InOrder(queue, made)
    PROVE  LET r == InsertByPriority(queue, j, made)
           IN /\ r \in Seq(DOMAIN made) /\ Len(r) = Len(queue) + 1
              /\ Members(r) = Members(queue) \cup {j}
              /\ Distinct(r) /\ InOrder(r, made)
<1> DEFINE r == InsertByPriority(queue, j, made)
           R(x) == Rank[made[x].priority]
           behind == {i \in DOMAIN queue : R(queue[i]) > R(j)}
           n == Len(queue)
<1>1. n \in Nat /\ DOMAIN queue = 1..n /\ \A i \in 1..n : queue[i] \in DOMAIN made
  OBVIOUS
<1>2. R(j) \in Nat /\ \A i \in 1..n : R(queue[i]) \in Nat
  BY <1>1, RankType
<1>3. \E at \in 1..(n + 1) :
        /\ r \in Seq(DOMAIN made) /\ Len(r) = n + 1
        /\ \A k \in 1..(n + 1) : r[k] = IF k < at THEN queue[k] ELSE IF k = at THEN j ELSE queue[k - 1]
        /\ \A k \in 1..n : k < at => R(queue[k]) <= R(j)
        /\ \A k \in 1..n : k >= at => R(queue[k]) > R(j)
  <2>1. CASE behind = {}
    <3>1. r = Append(queue, j)
      BY <2>1 DEF InsertByPriority
    <3>2. \A k \in 1..n : R(queue[k]) <= R(j)
      BY <1>1, <1>2, <2>1, SMTT(30)
    <3>3. r \in Seq(DOMAIN made) /\ Len(r) = n + 1
          /\ \A k \in 1..(n + 1) : r[k] = IF k < n + 1 THEN queue[k] ELSE j
      BY <1>1, <3>1
    <3> HIDE DEF r, R
    <3> WITNESS n + 1 \in 1..(n + 1)
    <3> QED BY <1>1, <3>2, <3>3
  <2>2. CASE behind # {}
    <3>1. behind \in SUBSET Nat
      BY <1>1
    <3>2. PICK f \in behind : f = First(behind) /\ \A k \in behind : f <= k
      BY <2>2, <3>1, FirstIs
    <3>3. r = SX!InsertAt(queue, f, j)
      BY <2>2, <3>2 DEF InsertByPriority
    <3>4. f \in 1..n /\ R(queue[f]) > R(j)
      BY <1>1, <3>2
    <3>5. ASSUME NEW k \in 1..n, k < f PROVE R(queue[k]) <= R(j)
      <4>1. k \notin behind
        <5> HIDE DEF behind
        <5>1. k \in behind => f <= k
          BY <3>2
        <5> QED BY <1>1, <3>4, <3>5, <5>1
      <4>2. ~(R(queue[k]) > R(j))
        BY <1>1, <4>1
      <4> HIDE DEF R
      <4> QED BY <1>2, <4>2
    <3>6. ASSUME NEW k \in 1..n, k >= f PROVE R(queue[k]) > R(j)
      <4>1. R(queue[f]) <= R(queue[k])
        BY <1>1, <3>4, <3>6 DEF InOrder
      <4> HIDE DEF R
      <4> QED BY <1>2, <3>4, <4>1
    <3>7. SX!InsertAt(queue, f, j) \in Seq(DOMAIN made) /\ Len(SX!InsertAt(queue, f, j)) = n + 1
          /\ \A k \in 1..(n + 1) :
                SX!InsertAt(queue, f, j)[k] = IF k < f THEN queue[k]
                                              ELSE IF k = f THEN j ELSE queue[k - 1]
      <4>1. queue \in Seq(DOMAIN made) /\ f \in 1..Len(queue) /\ j \in DOMAIN made
        BY <3>4
      <4> DEFINE D == DOMAIN made
                 w == SX!InsertAt(queue, f, j)
      <4>2. queue \in Seq(D) /\ j \in D
        BY <4>1
      <4> HIDE DEF D, behind, r, R
      <4>3. /\ w \in Seq(D) /\ Len(w) = Len(queue) + 1
            /\ \A k \in 1..(Len(queue) + 1) :
                  w[k] = IF k < f THEN queue[k] ELSE IF k = f THEN j ELSE queue[k - 1]
        BY <4>1, <4>2, InsertAtIs, SMTT(30)
      <4> QED BY <4>3 DEF D
    <3> HIDE DEF r, R, behind
    <3>8. f \in 1..(n + 1)
      BY <1>1, <3>4
    <3> WITNESS f \in 1..(n + 1)
    <3> QED BY <3>3, <3>5, <3>6, <3>7
  <2> QED BY <2>1, <2>2
<1> HIDE DEF r, behind
<1>4. PICK at \in 1..(n + 1) :
        /\ r \in Seq(DOMAIN made) /\ Len(r) = n + 1
        /\ \A k \in 1..(n + 1) : r[k] = IF k < at THEN queue[k] ELSE IF k = at THEN j ELSE queue[k - 1]
        /\ \A k \in 1..n : k < at => R(queue[k]) <= R(j)
        /\ \A k \in 1..n : k >= at => R(queue[k]) > R(j)
  BY <1>3
<1>5. DOMAIN r = 1..(n + 1)
  BY <1>4
<1>6. Members(r) = Members(queue) \cup {j}
  <2>1. ASSUME NEW k \in 1..(n + 1) PROVE r[k] \in Members(queue) \cup {j}
    <3>0. r[k] = IF k < at THEN queue[k] ELSE IF k = at THEN j ELSE queue[k - 1]
      BY <1>4
    <3>1. CASE k < at
      BY <1>1, <3>0, <3>1 DEF Members
    <3>2. CASE k > at
      <4>1. k - 1 \in 1..n /\ r[k] = queue[k - 1]
        BY <1>1, <3>0, <3>2
      <4> QED BY <1>1, <4>1 DEF Members
    <3> QED BY <1>1, <3>0, <3>1, <3>2
  <2>2. \A k \in 1..n : queue[k] = r[IF k < at THEN k ELSE k + 1]
    BY <1>1, <1>4, SMTT(30)
  <2>3. r[at] = j
    BY <1>4
  <2>4. Members(queue) \subseteq Members(r)
    <3> SUFFICES ASSUME NEW k \in 1..n PROVE queue[k] \in Members(r)
      BY <1>1 DEF Members
    <3>1. (IF k < at THEN k ELSE k + 1) \in 1..(n + 1)
      BY <1>1
    <3> QED BY <1>5, <2>2, <3>1 DEF Members
  <2> QED BY <1>5, <2>1, <2>3, <2>4 DEF Members
<1>7. Distinct(r)
  <2> SUFFICES ASSUME NEW i \in 1..(n + 1), NEW k \in 1..(n + 1), r[i] = r[k] PROVE i = k
    BY <1>5 DEF Distinct
  <2>1. \A x \in 1..n : queue[x] # j
    BY <1>1 DEF Members
  <2>2. \A x, y \in 1..n : queue[x] = queue[y] => x = y
    BY <1>1 DEF Distinct
  <2>3. r[i] = IF i < at THEN queue[i] ELSE IF i = at THEN j ELSE queue[i - 1]
    BY <1>4
  <2>4. r[k] = IF k < at THEN queue[k] ELSE IF k = at THEN j ELSE queue[k - 1]
    BY <1>4
  <2>5. CASE i = at \/ k = at
    <3>1. CASE i = at /\ k # at
      <4>1. (IF k < at THEN k ELSE k - 1) \in 1..n /\ r[k] = queue[IF k < at THEN k ELSE k - 1]
        BY <1>1, <2>4, <3>1
      <4>2. r[i] = j
        BY <2>3, <3>1
      <4> QED BY <2>1, <4>1, <4>2
    <3>2. CASE k = at /\ i # at
      <4>1. (IF i < at THEN i ELSE i - 1) \in 1..n /\ r[i] = queue[IF i < at THEN i ELSE i - 1]
        BY <1>1, <2>3, <3>2
      <4>2. r[k] = j
        BY <2>4, <3>2
      <4> QED BY <2>1, <4>1, <4>2
    <3> QED BY <2>5, <3>1, <3>2
  <2>6. CASE i # at /\ k # at
    <3>1. (IF i < at THEN i ELSE i - 1) \in 1..n /\ r[i] = queue[IF i < at THEN i ELSE i - 1]
      BY <1>1, <2>3, <2>6
    <3>2. (IF k < at THEN k ELSE k - 1) \in 1..n /\ r[k] = queue[IF k < at THEN k ELSE k - 1]
      BY <1>1, <2>4, <2>6
    <3>3. (IF i < at THEN i ELSE i - 1) = (IF k < at THEN k ELSE k - 1)
      BY <2>2, <3>1, <3>2
    <3> QED BY <1>1, <2>6, <3>3
  <2> QED BY <2>5, <2>6
<1>8. InOrder(r, made)
  <2> SUFFICES ASSUME NEW i \in 1..(n + 1), NEW k \in 1..(n + 1), i <= k PROVE R(r[i]) <= R(r[k])
    BY <1>5 DEF InOrder
  <2>1. \A x, y \in 1..n : x <= y => R(queue[x]) <= R(queue[y])
    BY <1>1 DEF InOrder
  <2> HIDE DEF R
  <2>3. r[i] = IF i < at THEN queue[i] ELSE IF i = at THEN j ELSE queue[i - 1]
    BY <1>4
  <2>4. r[k] = IF k < at THEN queue[k] ELSE IF k = at THEN j ELSE queue[k - 1]
    BY <1>4
  <2>5. CASE i < at /\ k < at
    BY <1>1, <2>1, <2>3, <2>4, <2>5
  <2>6. CASE i < at /\ k >= at
    <3>1. R(r[i]) <= R(j) /\ R(r[i]) \in Nat
      BY <1>1, <1>2, <1>4, <2>3, <2>6
    <3>2. R(j) <= R(r[k]) /\ R(r[k]) \in Nat
      BY <1>1, <1>2, <1>4, <2>4, <2>6, SMTT(30)
    <3> QED BY <1>2, <3>1, <3>2
  <2>7. CASE i = at
    <3>1. CASE k = at
      BY <1>2, <2>3, <2>4, <2>7, <3>1
    <3>2. CASE k > at
      <4>1. k - 1 \in 1..n /\ k - 1 >= at /\ r[k] = queue[k - 1] /\ r[i] = j
        BY <1>1, <2>3, <2>4, <2>7, <3>2
      <4>2. R(queue[k - 1]) > R(j)
        BY <1>4, <4>1
      <4>3. R(j) <= R(queue[k - 1])
        BY <1>2, <4>1, <4>2, SMTT(30)
      <4> QED BY <4>1, <4>3
    <3> QED BY <1>1, <2>7, <3>1, <3>2
  <2>8. CASE i > at
    BY <1>1, <2>1, <2>3, <2>4, <2>8, SMTT(30)
  <2> QED BY <1>1, <2>5, <2>6, <2>7, <2>8
<1> QED BY <1>4, <1>6, <1>7, <1>8 DEF r

\* A job taken out keeps the queue in order.
LEMMA RemoveKeeps ==
    ASSUME NEW made \in Seq(JobRec), NEW queue \in Seq(DOMAIN made), NEW at \in DOMAIN queue,
           Distinct(queue), InOrder(queue, made)
    PROVE  LET r == SX!RemoveAt(queue, at)
           IN /\ r \in Seq(DOMAIN made) /\ Len(r) = Len(queue) - 1
              /\ Members(r) = Members(queue) \ {queue[at]}
              /\ Distinct(r) /\ InOrder(r, made)
<1> DEFINE r == SX!RemoveAt(queue, at)
           n == Len(queue)
<1>1. n \in Nat /\ DOMAIN queue = 1..n /\ at \in 1..n
  OBVIOUS
<1>2. /\ r \in Seq(DOMAIN made) /\ Len(r) = n - 1
      /\ \A k \in 1..(n - 1) : r[k] = IF k < at THEN queue[k] ELSE queue[k + 1]
  BY <1>1, RemoveAtIs
<1> HIDE DEF r
<1>3. DOMAIN r = 1..(n - 1)
  BY <1>1, <1>2
<1> DEFINE from(k) == IF k < at THEN k ELSE k + 1
<1>0. /\ \A k \in 1..(n - 1) : from(k) \in 1..n /\ from(k) # at /\ r[k] = queue[from(k)]
      /\ \A i, k \in 1..(n - 1) : i <= k => from(i) <= from(k)
      /\ \A i, k \in 1..(n - 1) : from(i) = from(k) => i = k
  <2>1. ASSUME NEW k \in 1..(n - 1)
        PROVE  from(k) \in 1..n /\ from(k) # at /\ r[k] = queue[from(k)]
    <3>0. r[k] = IF k < at THEN queue[k] ELSE queue[k + 1]
      BY <1>2
    <3>1. CASE k < at
      BY <1>1, <3>0, <3>1
    <3>2. CASE ~(k < at)
      BY <1>1, <3>0, <3>2
    <3> QED BY <3>1, <3>2
  <2>2. ASSUME NEW i \in 1..(n - 1), NEW k \in 1..(n - 1)
        PROVE  (i <= k => from(i) <= from(k)) /\ (from(i) = from(k) => i = k)
    BY <1>1, SMTT(30)
  <2> QED BY <2>1, <2>2
<1> HIDE DEF from
<1>4. Distinct(r) /\ InOrder(r, made)
  <2>1. ASSUME NEW i \in 1..(n - 1), NEW k \in 1..(n - 1), r[i] = r[k] PROVE i = k
    BY <1>0, <1>1, <2>1 DEF Distinct
  <2>2. ASSUME NEW i \in 1..(n - 1), NEW k \in 1..(n - 1), i <= k
        PROVE  Rank[made[r[i]].priority] <= Rank[made[r[k]].priority]
    <3>1. from(i) \in DOMAIN queue /\ from(k) \in DOMAIN queue /\ from(i) <= from(k)
      BY <1>0, <1>1, <2>2
    <3>2. Rank[made[queue[from(i)]].priority] <= Rank[made[queue[from(k)]].priority]
      BY <3>1 DEF InOrder
    <3> QED BY <1>0, <3>2
  <2> QED BY <1>3, <2>1, <2>2 DEF Distinct, InOrder
<1>5. ASSUME NEW k \in 1..(n - 1) PROVE r[k] \in Members(queue) \ {queue[at]}
  <2>1. from(k) \in DOMAIN queue /\ from(k) # at /\ r[k] = queue[from(k)]
    BY <1>0, <1>1
  <2> QED BY <1>1, <2>1 DEF Members, Distinct
<1>6. ASSUME NEW k \in 1..n, k # at PROVE queue[k] \in Members(r)
  <2>1. CASE k < at
    <3>1. k \in 1..(n - 1) /\ r[k] = queue[k]
      BY <1>1, <1>2, <2>1
    <3> QED BY <1>3, <3>1 DEF Members
  <2>2. CASE k > at
    <3>1. k - 1 \in 1..(n - 1) /\ r[k - 1] = queue[k]
      BY <1>1, <1>2, <2>2
    <3> QED BY <1>3, <3>1 DEF Members
  <2> QED BY <1>1, <1>6, <2>1, <2>2
<1>7. Members(r) = Members(queue) \ {queue[at]}
  BY <1>1, <1>3, <1>5, <1>6 DEF Members
<1> QED BY <1>2, <1>4, <1>7 DEF r

\* The head is the most urgent, and what is left is in order.
LEMMA HeadIsFirst ==
    ASSUME NEW made \in Seq(JobRec), NEW queue \in Seq(DOMAIN made), queue # <<>>,
           Distinct(queue), InOrder(queue, made)
    PROVE  /\ Tail(queue) \in Seq(DOMAIN made) /\ Len(Tail(queue)) = Len(queue) - 1
           /\ Head(queue) \in Members(queue) /\ Head(queue) \in DOMAIN made
           /\ Members(Tail(queue)) = Members(queue) \ {Head(queue)}
           /\ Distinct(Tail(queue)) /\ InOrder(Tail(queue), made)
           /\ \A j \in Members(queue) :
                Rank[made[Head(queue)].priority] <= Rank[made[j].priority]
<1> DEFINE n == Len(queue)
           t == Tail(queue)
<1>1. n \in Nat /\ n >= 1 /\ DOMAIN queue = 1..n /\ Head(queue) = queue[1]
  OBVIOUS
<1>2. t \in Seq(DOMAIN made) /\ Len(t) = n - 1 /\ \A k \in 1..(n - 1) : t[k] = queue[k + 1]
  OBVIOUS
<1> HIDE DEF t
<1>3. DOMAIN t = 1..(n - 1)
  BY <1>1, <1>2
<1>0. \A k \in 1..(n - 1) : k + 1 \in DOMAIN queue /\ k + 1 # 1 /\ t[k] = queue[k + 1]
  BY <1>1, <1>2
<1>4. Distinct(t) /\ InOrder(t, made)
  <2>1. ASSUME NEW i \in 1..(n - 1), NEW k \in 1..(n - 1), t[i] = t[k] PROVE i = k
    <3>1. i + 1 = k + 1
      BY <1>0, <2>1 DEF Distinct
    <3> QED BY <3>1
  <2>2. ASSUME NEW i \in 1..(n - 1), NEW k \in 1..(n - 1), i <= k
        PROVE  Rank[made[t[i]].priority] <= Rank[made[t[k]].priority]
    <3>1. i + 1 <= k + 1
      BY <2>2
    <3>2. Rank[made[queue[i + 1]].priority] <= Rank[made[queue[k + 1]].priority]
      BY <1>0, <3>1 DEF InOrder
    <3> QED BY <1>0, <3>2
  <2> QED BY <1>3, <2>1, <2>2 DEF Distinct, InOrder
<1>5. ASSUME NEW k \in 1..(n - 1) PROVE t[k] \in Members(queue) \ {queue[1]}
  <2>1. 1 \in DOMAIN queue /\ k + 1 \in DOMAIN queue /\ k + 1 # 1 /\ t[k] = queue[k + 1]
    BY <1>0, <1>1
  <2> QED BY <2>1 DEF Members, Distinct
<1>6. ASSUME NEW k \in 1..n, k # 1 PROVE queue[k] \in Members(t)
  <2>1. k - 1 \in 1..(n - 1) /\ t[k - 1] = queue[k]
    BY <1>1, <1>2, <1>6
  <2> QED BY <1>3, <2>1 DEF Members
<1>7. queue[1] \in Members(queue) /\ queue[1] \in DOMAIN made
  BY <1>1 DEF Members
<1>8. \A j \in Members(queue) : Rank[made[queue[1]].priority] <= Rank[made[j].priority]
  BY <1>1 DEF Members, InOrder
<1>9. Members(t) = Members(queue) \ {queue[1]}
  BY <1>1, <1>3, <1>5, <1>6 DEF Members
<1> QED BY <1>1, <1>2, <1>4, <1>7, <1>8, <1>9 DEF t
-----------------------------------------------------------------------------
(* The invariant.                                                            *)

\* The queue is in order, the unanswered jobs are those of the slot and of the queue, the slot is
\* not idle while a job waits, and a warm job in it was told to stop if an interactive one waits.
Orderly(queue, made, slot, told) ==
    /\ made \in Seq(JobRec) /\ queue \in Seq(DOMAIN made) /\ slot \in DOMAIN made \cup {NoJob}
    /\ Distinct(queue) /\ InOrder(queue, made)
    /\ slot \notin Members(queue)
    /\ \A j \in DOMAIN made :
          made[j].promise = "waiting" <=> (j = slot \/ j \in Members(queue))
    /\ slot = NoJob => queue = <<>>
    /\ slot # NoJob /\ made[slot].priority = "warm"
          /\ (\E j \in Members(queue) : made[j].priority = "interactive") => told

Books(made, promises, dirty, queued, asked) ==
    /\ promises \in [Keys -> DOMAIN made \cup {NoJob}]
    /\ dirty \in [Keys -> Prio \cup {NoRerun}]
    /\ queued \in Seq(DOMAIN made) /\ \A i \in DOMAIN queued : made[queued[i]].key # NoKey
    /\ asked \subseteq Keys

Ordered == Orderly(pending, jobs, active, preemptRequested)
Booked == Books(jobs, coalescePromises, trailingDirty, finals, unseen)

QueueInv ==
    /\ Ordered /\ Booked
    /\ Len(pending) <= MaxPending /\ preemptRequested \in BOOLEAN /\ calls \in 0..MaxCalls

\* No job has the number of the free slot.
LEMMA NoJobIsNone == ASSUME NEW made \in Seq(JobRec) PROVE NoJob \notin DOMAIN made
BY DEF NoJob

\* The empty queue.
LEMMA MembersOfNone == Members(<<>>) = {} /\ DOMAIN <<>> = {}
BY DEF Members

\* The invariant gives the three properties.
LEMMA QueueInvGives == QueueInv => QueueTypeOK /\ WarmYields /\ NoOrphan
<1>1. SUFFICES ASSUME QueueInv PROVE QueueTypeOK /\ WarmYields /\ NoOrphan
  OBVIOUS
<1> USE <1>1 DEF QueueInv, Ordered, Booked, Orderly, Books
<1>2. Queued = Members(pending)
  BY DEF Queued, Members
<1>3. QueueTypeOK
  BY DEF QueueTypeOK
<1>4. WarmYields
  BY DEF WarmYields, Members
<1>5. NoOrphan
  BY <1>2 DEF NoOrphan, Distinct
<1> QED BY <1>3, <1>4, <1>5

\* It holds at the start.
LEMMA QueueInitial == QueueInit => QueueInv
<1>1. SUFFICES ASSUME QueueInit PROVE QueueInv
  OBVIOUS
<1>2. Ordered
  <2>1. jobs = <<>> /\ pending = <<>> /\ active = NoJob
    BY <1>1 DEF QueueInit
  <2>2. Distinct(<<>>) /\ InOrder(<<>>, <<>>)
    BY DEF Distinct, InOrder
  <2>3. <<>> \in Seq(JobRec) /\ <<>> \in Seq(DOMAIN <<>>)
    OBVIOUS
  <2> QED BY <2>1, <2>2, <2>3, MembersOfNone DEF Ordered, Orderly
<1>3. Booked
  BY <1>1 DEF QueueInit, Booked, Books
<1>4. preemptRequested \in BOOLEAN
  BY <1>1, Zenon DEF QueueInit
<1> QED BY <1>1, <1>2, <1>3, <1>4, QueueBounds DEF QueueInit, QueueInv

\* The maps stay well-formed while jobs are added and answered: no job changes its key.
LEMMA BooksStay ==
    ASSUME NEW made \in Seq(JobRec), NEW more \in Seq(JobRec), Len(made) <= Len(more),
           \A j \in DOMAIN made : more[j].key = made[j].key,
           NEW promises, NEW dirty, NEW queued, NEW asked, Books(made, promises, dirty, queued, asked)
    PROVE  Books(more, promises, dirty, queued, asked)
<1>1. DOMAIN made \subseteq DOMAIN more
  OBVIOUS
<1>2. promises \in [Keys -> DOMAIN more \cup {NoJob}]
  BY <1>1 DEF Books
<1>3. queued \in Seq(DOMAIN more)
  BY <1>1 DEF Books
<1>4. \A i \in DOMAIN queued : more[queued[i]].key # NoKey
  BY DEF Books
<1> QED BY <1>2, <1>3, <1>4 DEF Books

\* Taking a key out of a map.
LEMMA WithoutType ==
    ASSUME NEW T, NEW map \in [Keys -> T], NEW key, NEW nothing \in T
    PROVE  Without(map, key, nothing) \in [Keys -> T]
BY DEF Without

\* A keyed job whose promise is answered joins those whose .finally() is due.
LEMMA FinalsType ==
    ASSUME NEW made \in Seq(JobRec), NEW queued \in Seq(DOMAIN made),
           \A i \in DOMAIN queued : made[queued[i]].key # NoKey,
           NEW j \in DOMAIN made, made[j].key = jobs[j].key
    PROVE  /\ WithFinal(queued, j) \in Seq(DOMAIN made)
           /\ \A i \in DOMAIN WithFinal(queued, j) : made[WithFinal(queued, j)[i]].key # NoKey
<1>1. CASE jobs[j].key = NoKey
  BY <1>1 DEF WithFinal
<1>2. CASE jobs[j].key # NoKey
  <2>1. WithFinal(queued, j) = Append(queued, j)
    BY <1>2 DEF WithFinal
  <2>2. Append(queued, j) \in Seq(DOMAIN made) /\ DOMAIN Append(queued, j) = 1..(Len(queued) + 1)
    OBVIOUS
  <2>3. \A i \in 1..(Len(queued) + 1) :
          Append(queued, j)[i] = IF i = Len(queued) + 1 THEN j ELSE queued[i]
    OBVIOUS
  <2> QED BY <1>2, <2>1, <2>2, <2>3
<1> QED BY <1>1, <1>2

-----------------------------------------------------------------------------
\* What a step owes the callers: an answered job stays answered, a job becomes more urgent only
\* in the queue, the job of the slot does not go back to it, and the one that takes the slot is
\* as urgent as all that wait.
Serves ==
    /\ \A j \in DOMAIN jobs :
          /\ jobs[j].promise # "waiting" => jobs'[j].promise # "waiting"
          /\ Rank[jobs'[j].priority] <= Rank[jobs[j].priority]
          /\ j \notin Members(pending) => jobs'[j].priority = jobs[j].priority
    /\ active # NoJob => active \notin Members(pending')
    /\ active' \notin {active, NoJob} =>
          \A i \in Members(pending') : Rank[jobs'[active'].priority] <= Rank[jobs'[i].priority]

-----------------------------------------------------------------------------
(* A job that is accepted.                                                   *)

\* The new job goes into the queue, or into the free slot.
LEMMA AcceptKeeps ==
    ASSUME NEW queue, NEW made, Orderly(queue, made, active, preemptRequested),
           preemptRequested \in BOOLEAN,
           active # NoJob => made[active].priority = jobs[active].priority,
           NEW priority \in Prio, NEW key \in Keys \cup {NoKey}, NEW signal \in BOOLEAN,
           NEW promises, Accept(priority, key, signal, queue, made, promises)
    PROVE  /\ Ordered' /\ preemptRequested' \in BOOLEAN
           /\ Len(pending') <= Len(queue) + 1
           /\ Len(jobs') = Len(made) + 1 /\ \A j \in DOMAIN made : jobs'[j] = made[j]
           /\ active # NoJob => active' = active
           /\ active = NoJob => Members(pending') = {}
<1> DEFINE j == Len(made) + 1
           all == Append(made, NewJob(priority, key, signal))
           r == InsertByPriority(queue, j, all)
<1> USE DEF Orderly
<1>1. NewJob(priority, key, signal) \in JobRec
  BY DEF NewJob, JobRec
<1>2. /\ all \in Seq(JobRec) /\ Len(all) = j /\ DOMAIN all = 1..j /\ DOMAIN made = 1..(j - 1)
      /\ j \in Nat /\ j >= 1 /\ all[j] = NewJob(priority, key, signal)
      /\ \A i \in 1..(j - 1) : all[i] = made[i]
  BY <1>1
<1> HIDE DEF all
<1>3. queue \in Seq(DOMAIN all) /\ j \in DOMAIN all /\ Members(queue) \subseteq DOMAIN made
  <2>1. DOMAIN made \subseteq DOMAIN all
    BY <1>2
  <2> QED BY <1>2, <2>1 DEF Members
<1>4. j \notin Members(queue) /\ j \notin DOMAIN made /\ j # NoJob
  BY <1>2, <1>3 DEF NoJob
<1>5. InOrder(queue, all)
  <2> SUFFICES ASSUME NEW i \in DOMAIN queue, NEW k \in DOMAIN queue, i <= k
               PROVE  Rank[all[queue[i]].priority] <= Rank[all[queue[k]].priority]
    BY DEF InOrder
  <2>1. queue[i] \in DOMAIN made /\ queue[k] \in DOMAIN made
    OBVIOUS
  <2>2. all[queue[i]] = made[queue[i]] /\ all[queue[k]] = made[queue[k]]
    BY <1>2, <2>1
  <2> QED BY <2>2 DEF InOrder
<1>6. /\ r \in Seq(DOMAIN all) /\ Len(r) = Len(queue) + 1 /\ Members(r) = Members(queue) \cup {j}
      /\ Distinct(r) /\ InOrder(r, all)
  BY <1>2, <1>3, <1>4, <1>5, InsertKeeps
<1> HIDE DEF r
<1>7. /\ jobs' = all /\ preemptRequested' = (preemptRequested \/ PreemptsActive(priority))
      /\ IF active = NoJob THEN active' = Head(r) /\ pending' = Tail(r)
                           ELSE active' = active /\ pending' = r
  BY DEF Accept, Pump, all, r
<1>8. preemptRequested' \in BOOLEAN
  BY <1>7, Zenon DEF PreemptsActive
<1>9. CASE active = NoJob
  <2>1. r # <<>>
    BY <1>6
  <2>2. /\ Tail(r) \in Seq(DOMAIN all) /\ Len(Tail(r)) = Len(r) - 1
        /\ Members(Tail(r)) = Members(r) \ {Head(r)} /\ Head(r) \in Members(r)
        /\ Distinct(Tail(r)) /\ InOrder(Tail(r), all)
    BY <1>2, <1>6, <2>1, HeadIsFirst
  <2>3. queue = <<>> /\ Members(queue) = {}
    BY <1>9, MembersOfNone
  <2>4. Head(r) = j /\ Members(Tail(r)) = {} /\ Len(Tail(r)) = 0
    BY <1>6, <2>2, <2>3
  <2>5. \A i \in DOMAIN all : all[i].promise = "waiting" <=> i = j
    BY <1>2, <1>9, <2>3 DEF NewJob, NoJob
  <2>7. Orderly(Tail(r), all, j, preemptRequested')
    BY <1>2, <1>4, <2>2, <2>4, <2>5
  <2>6. Orderly(pending', jobs', active', preemptRequested')
    BY <1>7, <1>9, <2>4, <2>7
  <2>8. Ordered'
    BY <2>6 DEF Ordered
  <2>9. pending' = Tail(r) /\ jobs' = all
    BY <1>7, <1>9
  <2> QED BY <1>2, <1>6, <1>8, <1>9, <2>2, <2>4, <2>8, <2>9
<1>10. CASE active # NoJob
  <2>1. active \in DOMAIN made /\ active # j /\ all[active] = made[active]
    BY <1>2, <1>4, <1>10
  <2>2. active \notin Members(r)
    BY <1>6, <2>1
  <2>3. \A i \in DOMAIN all : all[i].promise = "waiting" <=> (i = active \/ i \in Members(r))
    BY <1>2, <1>6, <2>1, SMTT(30) DEF NewJob
  <2>4. ASSUME all[active].priority = "warm", NEW i \in Members(r), all[i].priority = "interactive"
        PROVE  preemptRequested'
    <3>1. CASE i = j
      <4>1. priority = "interactive" /\ jobs[active].priority = "warm"
        BY <1>2, <1>10, <2>1, <2>4, <3>1 DEF NewJob
      <4> QED BY <1>7, <1>10, <4>1 DEF PreemptsActive
    <3>2. CASE i # j
      <4>1. i \in Members(queue) /\ made[i].priority = "interactive" /\ made[active].priority = "warm"
        BY <1>2, <1>3, <1>6, <2>1, <2>4, <3>2
      <4> QED BY <1>7, <1>10, <4>1
    <3> QED BY <3>1, <3>2
  <2>5. Orderly(r, all, active, preemptRequested')
    BY <1>2, <1>6, <1>10, <2>1, <2>2, <2>3, <2>4
  <2> QED BY <1>2, <1>6, <1>7, <1>8, <1>10, <2>5 DEF Ordered
<1> QED BY <1>9, <1>10

Answer == {"done", "failed", "undefined", "aborted"}

\* Answering a job changes nothing else of it, nor any other job.
LEMMA SettledIs ==
    ASSUME NEW made \in Seq(JobRec), NEW j \in DOMAIN made, NEW how \in Answer
    PROVE  /\ Settled(made, j, how) \in Seq(JobRec) /\ Len(Settled(made, j, how)) = Len(made)
           /\ DOMAIN Settled(made, j, how) = DOMAIN made
           /\ Settled(made, j, how)[j].promise # "waiting"
           /\ \A i \in DOMAIN made :
                /\ Settled(made, j, how)[i].key = made[i].key
                /\ Settled(made, j, how)[i].priority = made[i].priority
                /\ i # j => Settled(made, j, how)[i] = made[i]
           /\ \A i \in DOMAIN made :
                made[i].promise # "waiting" => Settled(made, j, how)[i].promise # "waiting"
<1> DEFINE s == [made[j] EXCEPT !.promise = how]
<1>1. s \in JobRec /\ s.key = made[j].key /\ s.priority = made[j].priority /\ s.promise = how
  <2>1. made[j] \in JobRec /\ how \in {"waiting", "done", "failed", "undefined", "aborted"}
    BY DEF Answer
  <2>2. \A x \in JobRec : LET y == [x EXCEPT !.promise = how]
                          IN y \in JobRec /\ y.key = x.key /\ y.priority = x.priority /\ y.promise = how
    BY <2>1 DEF JobRec
  <2> QED BY <2>1, <2>2
<1>2. Settled(made, j, how) = [made EXCEPT ![j] = s]
  BY DEF Settled
<1> HIDE DEF s
<1>3. how # "waiting"
  BY DEF Answer
<1> QED BY <1>1, <1>2, <1>3

\* A waiting job that leaves the queue with an answer.
LEMMA LeaveKeeps ==
    ASSUME Ordered, NEW at \in DOMAIN pending, NEW how \in Answer
    PROVE  LET rest == SX!RemoveAt(pending, at)
               made == Settled(jobs, pending[at], how)
           IN /\ Orderly(rest, made, active, preemptRequested)
              /\ Len(rest) = Len(pending) - 1
              /\ pending[at] \in DOMAIN jobs
<1> DEFINE rest == SX!RemoveAt(pending, at)
           made == Settled(jobs, pending[at], how)
<1> USE DEF Ordered, Orderly
<1>1. pending[at] \in DOMAIN jobs /\ pending[at] \in Members(pending) /\ pending[at] # active
  BY DEF Members
<1>2. /\ rest \in Seq(DOMAIN jobs) /\ Len(rest) = Len(pending) - 1
      /\ Members(rest) = Members(pending) \ {pending[at]}
      /\ Distinct(rest) /\ InOrder(rest, jobs)
  BY RemoveKeeps
<1>3. /\ made \in Seq(JobRec) /\ Len(made) = Len(jobs) /\ DOMAIN made = DOMAIN jobs
      /\ made[pending[at]].promise # "waiting"
      /\ \A i \in DOMAIN jobs : /\ made[i].key = jobs[i].key
                                /\ made[i].priority = jobs[i].priority
                                /\ i # pending[at] => made[i] = jobs[i]
  BY <1>1, SettledIs
<1> HIDE DEF rest, made
<1>4. InOrder(rest, made)
  <2>1. \A i \in DOMAIN rest : rest[i] \in DOMAIN jobs
    BY <1>2
  <2> QED BY <1>2, <1>3, <2>1 DEF InOrder
<1>5. \A i \in DOMAIN made : made[i].promise = "waiting" <=> (i = active \/ i \in Members(rest))
  BY <1>1, <1>2, <1>3
<1>6. active = NoJob => rest = <<>>
  BY <1>1, <1>2, MembersOfNone
<1>7. \A j \in Members(rest) : j \in Members(pending) /\ j \in DOMAIN jobs
  <2>1. \A j \in Members(pending) : j \in DOMAIN jobs
    BY DEF Members
  <2> QED BY <1>2, <2>1
<1>8. active # NoJob => active \in DOMAIN jobs /\ made[active].priority = jobs[active].priority
  BY <1>3
<1>9. active # NoJob /\ made[active].priority = "warm"
          /\ (\E j \in Members(rest) : made[j].priority = "interactive") => preemptRequested
  BY <1>3, <1>7, <1>8
<1>10. Orderly(rest, made, active, preemptRequested)
  BY <1>1, <1>2, <1>3, <1>4, <1>5, <1>6, <1>9
<1> QED BY <1>1, <1>2, <1>10 DEF rest, made

\* A request that is admitted, by a call or by a trailing rerun.
LEMMA AdmitKeeps ==
    ASSUME QueueInv, NEW priority \in Prio, NEW key \in Keys \cup {NoKey}, NEW signal \in BOOLEAN,
           NEW promises, NEW dirty, NEW queued, NEW asked,
           Books(jobs, promises, dirty, queued, {}),
           Admit(priority, key, signal, promises, dirty, queued, asked)
    PROVE  /\ Ordered' /\ Booked' /\ Len(pending') <= MaxPending /\ preemptRequested' \in BOOLEAN
           /\ Serves
           /\ Len(jobs) < Len(jobs') /\ \A j \in DOMAIN jobs : jobs'[j].key = jobs[j].key
<1>1. /\ Ordered /\ Len(pending) <= MaxPending /\ preemptRequested \in BOOLEAN
      /\ jobs \in Seq(JobRec) /\ pending \in Seq(DOMAIN jobs) /\ Len(pending) \in Nat
      /\ MaxPending \in Nat /\ NoRerun \in Prio \cup {NoRerun}
  BY QueueBounds DEF QueueInv, Ordered, Orderly
<1>2. ASSUME NEW queue, NEW made, NEW told, NEW marks, NEW waits,
             Orderly(queue, made, active, preemptRequested), Len(queue) < MaxPending,
             Len(queue) \in Nat, made \in Seq(JobRec), Len(made) = Len(jobs),
             \A j \in DOMAIN jobs : made[j].key = jobs[j].key /\ made[j].priority = jobs[j].priority,
             \A j \in DOMAIN jobs : jobs[j].promise # "waiting" => made[j].promise # "waiting",
             Books(jobs, told, marks, waits, {}),
             Accept(priority, key, signal, queue, made, told),
             trailingDirty' = marks, finals' = waits, unseen' \subseteq Keys
      PROVE  /\ Ordered' /\ Booked' /\ Len(pending') <= MaxPending
             /\ preemptRequested' \in BOOLEAN /\ Serves
             /\ Len(jobs) < Len(jobs') /\ \A j \in DOMAIN jobs : jobs'[j].key = jobs[j].key
  <2>0. active # NoJob => active \in DOMAIN jobs
    BY <1>1 DEF Ordered, Orderly
  <2>1. /\ Ordered' /\ preemptRequested' \in BOOLEAN /\ Len(pending') <= Len(queue) + 1
        /\ Len(jobs') = Len(made) + 1 /\ \A j \in DOMAIN made : jobs'[j] = made[j]
        /\ active # NoJob => active' = active
        /\ active = NoJob => Members(pending') = {}
    <3>1. active # NoJob => made[active].priority = jobs[active].priority
      BY <1>2, <2>0
    <3>2. /\ Orderly(queue, made, active, preemptRequested)
          /\ Accept(priority, key, signal, queue, made, told)
      BY <1>2
    <3> QED BY <1>1, <3>1, <3>2, AcceptKeeps
  <2>2. DOMAIN made = DOMAIN jobs
    BY <1>1, <1>2
  <2>3. /\ jobs' \in Seq(JobRec) /\ Len(jobs') = Len(jobs) + 1 /\ pending' \in Seq(DOMAIN jobs')
        /\ \A j \in DOMAIN jobs : jobs'[j].key = jobs[j].key
    BY <1>2, <2>1, <2>2 DEF Ordered, Orderly
  <2>4. Books(jobs', told, marks, waits, {})
    <3>1. Books(jobs, told, marks, waits, {}) /\ Len(jobs) <= Len(jobs')
      BY <1>2, <2>3
    <3> QED BY <1>1, <2>3, <3>1, BooksStay
  <2>5. coalescePromises' \in [Keys -> DOMAIN jobs' \cup {NoJob}]
    <3>1. coalescePromises' = [k \in Keys |-> IF k = key THEN Len(made) + 1 ELSE told[k]]
      BY <1>2 DEF Accept
    <3>2. Len(made) + 1 \in DOMAIN jobs'
      BY <1>1, <2>1, <2>3
    <3>3. told \in [Keys -> DOMAIN jobs' \cup {NoJob}]
      BY <2>4 DEF Books
    <3> QED BY <3>1, <3>2, <3>3
  <2>6. Booked'
    BY <1>2, <2>4, <2>5 DEF Books, Booked
  <2>7. Serves
    <3>1. \A j \in DOMAIN jobs :
            /\ jobs[j].promise # "waiting" => jobs'[j].promise # "waiting"
            /\ jobs'[j].priority = jobs[j].priority
      BY <1>2, <2>1, <2>2
    <3>2. \A j \in DOMAIN jobs : Rank[jobs'[j].priority] <= Rank[jobs[j].priority]
      BY <1>1, <3>1, RankType
    <3>3. active # NoJob => active \notin Members(pending')
      BY <2>1 DEF Ordered, Orderly
    <3> QED BY <2>1, <3>1, <3>2, <3>3 DEF Serves
  <2> QED BY <1>1, <1>2, <2>1, <2>3, <2>6, <2>7
<1>3. \A a : Seen(a) => unseen' \subseteq Keys
  BY DEF Seen
<1>4. CASE HasRoom /\ Accept(priority, key, signal, pending, jobs, promises)
           /\ trailingDirty' = dirty /\ finals' = queued /\ Seen(asked)
  BY <1>1, <1>2, <1>3, <1>4 DEF HasRoom, Ordered
<1>5. CASE ~(HasRoom /\ Accept(priority, key, signal, pending, jobs, promises)
           /\ trailingDirty' = dirty /\ finals' = queued /\ Seen(asked))
  <2> DEFINE at == First(WarmPending)
             dropped == pending[at]
             victim == jobs[dropped].key
             made == Settled(jobs, dropped, "undefined")
             queue == SX!RemoveAt(pending, at)
             told == Without(promises, victim, NoJob)
             marks == Without(dirty, victim, NoRerun)
             waits == WithFinal(queued, dropped)
  <2>1. /\ Displaces(priority)
        /\ Accept(priority, key, signal, queue, made, told)
        /\ trailingDirty' = marks /\ finals' = waits
        /\ Seen((asked \ {victim}) \cup {key})
    BY <1>5 DEF Admit
  <2>2. at \in DOMAIN pending
    <3>1. WarmPending # {} /\ WarmPending \subseteq DOMAIN pending
      BY <2>1 DEF WarmPending, Displaces
    <3>2. DOMAIN pending \subseteq Nat
      BY <1>1, SMTT(30)
    <3>3. WarmPending \in SUBSET Nat
      BY <3>1, <3>2
    <3> QED BY <3>1, <3>3, FirstIs
  <2>3. "undefined" \in Answer
    BY DEF Answer
  <2>4. /\ Orderly(queue, made, active, preemptRequested) /\ Len(queue) = Len(pending) - 1
        /\ dropped \in DOMAIN jobs
    BY <1>1, <2>2, <2>3, LeaveKeeps
  <2>5. /\ made \in Seq(JobRec) /\ Len(made) = Len(jobs)
        /\ \A j \in DOMAIN jobs : made[j].key = jobs[j].key /\ made[j].priority = jobs[j].priority
        /\ \A j \in DOMAIN jobs : jobs[j].promise # "waiting" => made[j].promise # "waiting"
    BY <1>1, <2>3, <2>4, SettledIs
  <2>6. Books(jobs, told, marks, waits, {})
    <3>1. told \in [Keys -> DOMAIN jobs \cup {NoJob}] /\ marks \in [Keys -> Prio \cup {NoRerun}]
      BY <1>1, WithoutType DEF Books
    <3>2. waits \in Seq(DOMAIN jobs) /\ \A i \in DOMAIN waits : jobs[waits[i]].key # NoKey
      BY <1>1, <2>4, FinalsType DEF Books
    <3> HIDE DEF told, marks, waits
    <3> QED BY <3>1, <3>2 DEF Books
  <2>7. Len(queue) \in Nat /\ Len(queue) < MaxPending
    BY <1>1, <2>2, <2>4
  <2> HIDE DEF at, dropped, victim, made, queue, told, marks, waits
  <2> QED BY <1>2, <1>3, <2>1, <2>4, <2>5, <2>6, <2>7
<1> QED BY <1>4, <1>5

-----------------------------------------------------------------------------
(* The steps of the queue.                                                   *)

\* What a step keeps: all of the invariant but the bound on calls, and what it owes the callers.
Kept == /\ Ordered' /\ Booked' /\ Len(pending') <= MaxPending /\ preemptRequested' \in BOOLEAN
        /\ Serves
        /\ Len(jobs) <= Len(jobs') /\ \A j \in DOMAIN jobs : jobs'[j].key = jobs[j].key

\* The parts of the invariant the steps use.
LEMMA InvParts ==
    ASSUME QueueInv
    PROVE  /\ jobs \in Seq(JobRec) /\ pending \in Seq(DOMAIN jobs) /\ Len(pending) \in Nat
           /\ active \in DOMAIN jobs \cup {NoJob} /\ active \notin Members(pending)
           /\ \A at \in DOMAIN pending : pending[at] \in DOMAIN jobs /\ pending[at] \in Members(pending)
           /\ MaxPending \in Nat
           /\ Books(jobs, coalescePromises, trailingDirty, finals, unseen)
           /\ Books(jobs, coalescePromises, trailingDirty, finals, {})
BY QueueBounds DEF QueueInv, Ordered, Orderly, Booked, Books, Members

\* A step that leaves the slot alone and changes no priority.
LEMMA ServesIfStill ==
    ASSUME QueueInv, Ordered', active' = active,
           \A j \in DOMAIN jobs :
             /\ jobs[j].promise # "waiting" => jobs'[j].promise # "waiting"
             /\ jobs'[j].priority = jobs[j].priority
    PROVE  Serves
<1>1. \A j \in DOMAIN jobs : Rank[jobs'[j].priority] <= Rank[jobs[j].priority]
  BY InvParts, RankType
<1>2. active # NoJob => active \notin Members(pending')
  BY DEF Ordered, Orderly
<1> QED BY <1>1, <1>2 DEF Serves

\* A request with a job of its own.
LEMMA EnqueueNewKeeps ==
    ASSUME QueueInv, NEW r \in Requests, EnqueueNew(r)
    PROVE  Kept
<1>1. r.priority \in Prio /\ r.key \in Keys \cup {NoKey} /\ r.signal \in BOOLEAN
  BY RequestAssumption DEF RequestRec
<1>2. /\ Admit(r.priority, r.key, r.signal, coalescePromises, trailingDirty, finals,
               unseen \cup {r.key})
      /\ Books(jobs, coalescePromises, trailingDirty, finals, {})
  BY InvParts DEF EnqueueNew
<1>3. /\ Ordered' /\ Booked' /\ Len(pending') <= MaxPending /\ preemptRequested' \in BOOLEAN
      /\ Serves /\ Len(jobs) < Len(jobs') /\ \A j \in DOMAIN jobs : jobs'[j].key = jobs[j].key
  BY <1>1, <1>2, AdmitKeeps
<1>4. Len(jobs) <= Len(jobs')
  BY <1>3, InvParts DEF Ordered, Orderly
<1> QED BY <1>3, <1>4 DEF Kept

\* A request that joins the running job.
LEMMA JoinRunningKeeps ==
    ASSUME QueueInv, NEW r \in Requests, JoinRunning(r)
    PROVE  Kept
<1>1. r.priority \in Prio /\ r.key \in Keys
  BY RequestAssumption DEF RequestRec, JoinRunning, Joins
<1>2. Booked'
  BY <1>1, InvParts DEF JoinRunning, Booked, Books
<1>3. Ordered'
  BY DEF QueueInv, Ordered, JoinRunning
<1>4. Serves
  BY <1>3, ServesIfStill DEF JoinRunning
<1> QED BY <1>2, <1>3, <1>4 DEF QueueInv, JoinRunning, Kept

\* A queued job that is aborted or dropped.
LEMMA GiveUpKeeps ==
    ASSUME QueueInv, NEW at \in DOMAIN pending, NEW how \in {"aborted", "undefined"}, GiveUp(at, how)
    PROVE  Kept
<1> DEFINE j == pending[at]
<1>1. j \in DOMAIN jobs /\ how \in Answer /\ Ordered
  BY InvParts DEF Answer, QueueInv
<1>2. /\ pending' = SX!RemoveAt(pending, at) /\ jobs' = Settled(jobs, j, how)
      /\ active' = active /\ preemptRequested' = preemptRequested
      /\ ClearCoalesceState(jobs[j].key) /\ finals' = WithFinal(finals, j)
      /\ unseen' = unseen \ {jobs[j].key}
  BY DEF GiveUp
<1>3. Ordered' /\ Len(pending') = Len(pending) - 1
  BY <1>1, <1>2, LeaveKeeps DEF Ordered
<1>4. /\ jobs' \in Seq(JobRec) /\ Len(jobs') = Len(jobs) /\ DOMAIN jobs' = DOMAIN jobs
      /\ \A i \in DOMAIN jobs : jobs'[i].key = jobs[i].key /\ jobs'[i].priority = jobs[i].priority
      /\ \A i \in DOMAIN jobs : jobs[i].promise # "waiting" => jobs'[i].promise # "waiting"
  <2> HIDE DEF j
  <2>1. jobs \in Seq(JobRec) /\ jobs' = Settled(jobs, j, how)
    BY <1>2, InvParts
  <2> QED BY ONLY <1>1, <2>1, SettledIs
<1> HIDE DEF j
<1>5. Booked'
  <2>1. /\ coalescePromises \in [Keys -> DOMAIN jobs \cup {NoJob}]
        /\ trailingDirty \in [Keys -> Prio \cup {NoRerun}]
        /\ finals \in Seq(DOMAIN jobs) /\ unseen \subseteq Keys
        /\ \A i \in DOMAIN finals : jobs[finals[i]].key # NoKey
    BY InvParts DEF Books
  <2>2. /\ coalescePromises' \in [Keys -> DOMAIN jobs \cup {NoJob}]
        /\ trailingDirty' \in [Keys -> Prio \cup {NoRerun}]
    BY <1>2, <2>1, WithoutType DEF ClearCoalesceState
  <2>3. finals' \in Seq(DOMAIN jobs) /\ \A i \in DOMAIN finals' : jobs[finals'[i]].key # NoKey
    BY <1>1, <1>2, <2>1, InvParts, FinalsType
  <2>4. Books(jobs, coalescePromises', trailingDirty', finals', unseen')
    BY <1>2, <2>1, <2>2, <2>3 DEF Books
  <2>5. jobs \in Seq(JobRec) /\ Len(jobs) <= Len(jobs')
    BY <1>4, InvParts
  <2>6. Books(jobs', coalescePromises', trailingDirty', finals', unseen')
    BY <1>4, <2>4, <2>5, BooksStay
  <2> QED BY <2>6 DEF Booked
<1>6. Len(pending') <= MaxPending /\ preemptRequested' \in BOOLEAN
  BY <1>2, <1>3, InvParts DEF QueueInv
<1>7. Serves
  BY <1>2, <1>3, <1>4, ServesIfStill
<1> QED BY <1>3, <1>4, <1>5, <1>6, <1>7, InvParts DEF Kept

\* dropPendingByCoalesceKey, with or without a queued job of the key.
LEMMA DropKeeps ==
    ASSUME QueueInv, NEW key \in Keys, DropPendingByCoalesceKey(key)
    PROVE  Kept
<1>1. CASE PendingOf(key) # {} /\ GiveUp(First(PendingOf(key)), "undefined")
  <2>1. PendingOf(key) \in SUBSET Nat /\ PendingOf(key) \subseteq DOMAIN pending
    BY InvParts DEF PendingOf
  <2>2. First(PendingOf(key)) \in DOMAIN pending
    BY <1>1, <2>1, FirstIs
  <2> QED BY <1>1, <2>2, GiveUpKeeps
<1>2. CASE PendingOf(key) = {}
  <2>1. /\ ClearCoalesceState(key) /\ unseen' = unseen \ {key}
        /\ UNCHANGED <<jobs, pending, active, preemptRequested, finals, calls>>
    BY <1>2 DEF DropPendingByCoalesceKey
  <2>2. /\ coalescePromises' \in [Keys -> DOMAIN jobs \cup {NoJob}]
        /\ trailingDirty' \in [Keys -> Prio \cup {NoRerun}]
    BY <2>1, InvParts, WithoutType DEF ClearCoalesceState, Books
  <2>3. Booked'
    BY <2>1, <2>2, InvParts DEF Booked, Books
  <2>4. Ordered'
    BY <2>1 DEF QueueInv, Ordered
  <2>5. Serves
    BY <2>1, <2>4, ServesIfStill
  <2> QED BY <2>1, <2>3, <2>4, <2>5 DEF QueueInv, Kept
<1> QED BY <1>1, <1>2 DEF DropPendingByCoalesceKey

\* A queued job that becomes more urgent moves up, and stays in the queue.
LEMMA JoinPendingKeeps ==
    ASSUME QueueInv, NEW r \in Requests, JoinPending(r)
    PROVE  Kept
<1> DEFINE at == First(PendingOf(r.key))
           j == pending[at]
           upgrade == Rank[r.priority] < Rank[jobs[j].priority]
           rest == SX!RemoveAt(pending, at)
           p == IF upgrade THEN r.priority ELSE jobs[j].priority
<1> USE InvParts
<1>1. r.priority \in Prio /\ r.key \in Keys \cup {NoKey} /\ r.signal \in BOOLEAN
  BY RequestAssumption DEF RequestRec
<1>2. at \in DOMAIN pending
  <2>0. PendingOf(r.key) # {}
    BY DEF JoinPending
  <2>1. PendingOf(r.key) \in SUBSET Nat /\ PendingOf(r.key) \subseteq DOMAIN pending
    BY DEF PendingOf
  <2> QED BY <2>0, <2>1, FirstIs
<1>3. /\ j \in DOMAIN jobs /\ j \in Members(pending) /\ j # active /\ jobs[j] \in JobRec
      /\ p \in Prio
  <2> HIDE DEF at
  <2>1. j \in DOMAIN jobs /\ j \in Members(pending)
    BY <1>2
  <2>2. jobs[j] \in JobRec
    BY <2>1
  <2>3. jobs[j].priority \in Prio
    BY <2>2 DEF JobRec
  <2>4. p \in Prio
    BY <1>1, <2>3
  <2> QED BY <2>1, <2>2, <2>4
<1>4. /\ jobs' = [jobs EXCEPT ![j].priority = IF upgrade THEN r.priority ELSE @,
                              ![j].signal = @ \/ r.signal]
      /\ pending' = IF upgrade THEN InsertByPriority(rest, j, jobs') ELSE pending
      /\ preemptRequested' = (preemptRequested \/ (upgrade /\ PreemptsActive(r.priority)))
      /\ UNCHANGED <<active, coalescePromises, trailingDirty, finals>> /\ Seen(unseen \cup {r.key})
  BY DEF JoinPending
<1>5. /\ jobs' \in Seq(JobRec) /\ Len(jobs') = Len(jobs) /\ DOMAIN jobs' = DOMAIN jobs
      /\ \A i \in DOMAIN jobs : /\ jobs'[i].key = jobs[i].key /\ jobs'[i].promise = jobs[i].promise
                                /\ i # j => jobs'[i] = jobs[i]
      /\ jobs'[j].priority = p
  <2> DEFINE s == [jobs[j] EXCEPT !.priority = p, !.signal = @ \/ r.signal]
  <2>1. s \in JobRec /\ s.key = jobs[j].key /\ s.promise = jobs[j].promise /\ s.priority = p
    <3>1. \A x \in JobRec, q \in Prio, b \in BOOLEAN :
             LET y == [x EXCEPT !.priority = q, !.signal = b]
             IN y \in JobRec /\ y.key = x.key /\ y.promise = x.promise /\ y.priority = q
      BY DEF JobRec
    <3> DEFINE b == jobs[j].signal \/ r.signal
    <3>2. b \in BOOLEAN
      OBVIOUS
    <3>3. s = [jobs[j] EXCEPT !.priority = p, !.signal = b]
      OBVIOUS
    <3> HIDE DEF s, p, j, b
    <3>4. LET y == [jobs[j] EXCEPT !.priority = p, !.signal = b]
          IN y \in JobRec /\ y.key = jobs[j].key /\ y.promise = jobs[j].promise /\ y.priority = p
      BY <1>3, <3>1, <3>2
    <3> QED BY <3>3, <3>4
  <2>2. jobs' = [jobs EXCEPT ![j] = s]
    BY <1>3, <1>4
  <2> HIDE DEF s, p, j
  <2> QED BY <1>3, <2>1, <2>2
<1>6. preemptRequested' \in BOOLEAN
  BY <1>4, Zenon DEF PreemptsActive
<1>7. Booked'
  <2>1. unseen' \subseteq Keys
    BY <1>4 DEF Seen
  <2>2. Books(jobs', coalescePromises, trailingDirty, finals, {})
    <3>1. Len(jobs) <= Len(jobs')
      BY <1>5
    <3> QED BY <1>5, <3>1, BooksStay
  <2> QED BY <1>4, <2>1, <2>2 DEF Booked, Books
<1>8. /\ rest \in Seq(DOMAIN jobs) /\ Len(rest) = Len(pending) - 1
      /\ Members(rest) = Members(pending) \ {j} /\ Distinct(rest) /\ InOrder(rest, jobs)
  BY <1>2, RemoveKeeps DEF QueueInv, Ordered, Orderly
<1> HIDE DEF at, j, rest, p
<1>9. CASE upgrade
  <2>1. p = r.priority /\ pending' = InsertByPriority(rest, j, jobs')
    BY <1>4, <1>9 DEF p
  <2>2. InOrder(rest, jobs')
    <3>1. \A i \in DOMAIN rest : rest[i] \in DOMAIN jobs /\ rest[i] # j
      BY <1>8 DEF Members
    <3> QED BY <1>5, <1>8, <3>1 DEF InOrder
  <2>3. /\ pending' \in Seq(DOMAIN jobs') /\ Len(pending') = Len(rest) + 1
        /\ Members(pending') = Members(rest) \cup {j} /\ Distinct(pending') /\ InOrder(pending', jobs')
    <3>1. rest \in Seq(DOMAIN jobs') /\ j \in DOMAIN jobs' /\ j \notin Members(rest)
      BY <1>3, <1>5, <1>8, SMTT(30)
    <3> QED BY <1>5, <1>8, <2>1, <2>2, <3>1, InsertKeeps
  <2>4. Members(pending') = Members(pending) /\ Len(pending') = Len(pending)
    BY <1>3, <1>8, <2>3
  <2>5. ASSUME active # NoJob, jobs'[active].priority = "warm",
               NEW i \in Members(pending), jobs'[i].priority = "interactive"
        PROVE  preemptRequested'
    <3>0. active \in DOMAIN jobs /\ jobs'[active] = jobs[active] /\ i \in DOMAIN jobs
      BY <1>3, <1>5, <2>5 DEF Members
    <3>1. CASE i = j
      <4>1. r.priority = "interactive" /\ jobs[active].priority = "warm"
        BY <1>5, <2>1, <2>5, <3>0, <3>1
      <4>2. PreemptsActive(r.priority)
        BY <2>5, <4>1 DEF PreemptsActive
      <4> HIDE DEF upgrade
      <4> QED BY <1>4, <1>9, <4>2, Zenon
    <3>2. CASE i # j
      BY <1>4, <1>5, <2>5, <3>0, <3>2 DEF QueueInv, Ordered, Orderly
    <3> QED BY <3>1, <3>2
  <2>6. Ordered'
    <3>1. active' = active /\ active # j
      BY <1>3, <1>4
    <3>2. active = NoJob => pending' = <<>>
      BY <2>3, <2>4, <1>3, MembersOfNone DEF QueueInv, Ordered, Orderly
    <3>3. \A i \in DOMAIN jobs' :
            jobs'[i].promise = "waiting" <=> (i = active \/ i \in Members(pending'))
      BY <1>5, <2>4 DEF QueueInv, Ordered, Orderly
    <3> QED BY <1>5, <2>3, <2>4, <2>5, <3>1, <3>2, <3>3 DEF Ordered, Orderly
  <2>7. Serves
    <3>1. Rank[jobs'[j].priority] <= Rank[jobs[j].priority]
      <4>1. Rank[jobs[j].priority] \in Nat /\ Rank[jobs'[j].priority] \in Nat
        BY <1>3, <1>5, RankType
      <4> QED BY <1>5, <1>9, <2>1, <4>1
    <3>2. \A i \in DOMAIN jobs : Rank[jobs'[i].priority] <= Rank[jobs[i].priority]
      <4>1. ASSUME NEW i \in DOMAIN jobs, i # j
            PROVE  Rank[jobs'[i].priority] <= Rank[jobs[i].priority]
        <5>1. jobs'[i] = jobs[i] /\ Rank[jobs[i].priority] \in Nat
          BY <1>5, <4>1, RankType
        <5> QED BY <5>1
      <4> QED BY <3>1, <4>1
    <3>3. active' = active /\ (active # NoJob => active \notin Members(pending'))
      BY <1>4, <2>6 DEF Ordered, Orderly
    <3> QED BY <1>3, <1>5, <3>2, <3>3 DEF Serves
  <2> QED BY <1>5, <1>6, <1>7, <2>4, <2>6, <2>7 DEF QueueInv, Kept
<1>10. CASE ~upgrade
  <2>1. pending' = pending /\ active' = active /\ preemptRequested' = preemptRequested
        /\ p = jobs[j].priority
    <3>1. pending' = pending /\ active' = active /\ p = jobs[j].priority
      BY <1>4, <1>10 DEF p
    <3>2. preemptRequested' = (preemptRequested \/ FALSE)
      BY <1>4, <1>10, Zenon
    <3> QED BY <3>1, <3>2 DEF QueueInv
  <2>2. \A i \in DOMAIN jobs : jobs'[i].priority = jobs[i].priority
    BY <1>5, <2>1
  <2>3. InOrder(pending, jobs')
    BY <2>2 DEF InOrder, QueueInv, Ordered, Orderly
  <2>4. \A i \in Members(pending) : i \in DOMAIN jobs
    BY DEF Members
  <2>5. Ordered'
    BY <1>5, <2>1, <2>2, <2>3, <2>4 DEF QueueInv, Ordered, Orderly
  <2>6. Serves
    BY <1>5, <2>1, <2>2, <2>5, ServesIfStill
  <2> QED BY <1>5, <1>6, <1>7, <2>1, <2>5, <2>6 DEF QueueInv, Kept
<1> QED BY <1>9, <1>10

\* The job of the slot ends, a preempted one is queued again, and the most urgent takes the slot.
LEMMA RunEndsKeeps ==
    ASSUME QueueInv, NEW how \in {"done", "failed"}, RunEnds(how)
    PROVE  Kept
<1> DEFINE key == jobs[active].key
           copy == Len(jobs) + 1
           answer == IF preemptRequested THEN "undefined" ELSE how
           ended == Settled(jobs, active, answer)
           made == IF preemptRequested THEN Append(ended, NewJob("warm", key, FALSE)) ELSE ended
           queue == IF preemptRequested THEN InsertByPriority(pending, copy, made) ELSE pending
<1> USE InvParts
<1>0. active \in DOMAIN jobs /\ active # NoJob /\ answer \in Answer
  BY DEF RunEnds, Answer
<1>1. /\ jobs' = made
      /\ coalescePromises' = [k \in Keys |-> IF preemptRequested /\ k = key THEN copy
                                             ELSE coalescePromises[k]]
      /\ active' = IF queue = <<>> THEN NoJob ELSE Head(queue)
      /\ pending' = IF queue = <<>> THEN <<>> ELSE Tail(queue)
      /\ finals' = WithFinal(finals, active) /\ preemptRequested' = FALSE /\ Seen(unseen)
      /\ trailingDirty' = trailingDirty
  BY DEF RunEnds
<1>2. /\ ended \in Seq(JobRec) /\ Len(ended) = Len(jobs) /\ DOMAIN ended = DOMAIN jobs
      /\ ended[active].promise # "waiting"
      /\ \A i \in DOMAIN jobs : /\ ended[i].key = jobs[i].key
                                /\ ended[i].priority = jobs[i].priority
                                /\ i # active => ended[i] = jobs[i]
  BY <1>0, SettledIs
<1>3. key \in Keys \cup {NoKey} /\ copy \in Nat /\ copy = Len(jobs) + 1 /\ DOMAIN jobs = 1..Len(jobs)
      /\ Len(jobs) \in Nat
  <2>1. jobs[active] \in JobRec
    BY <1>0
  <2> QED BY <2>1 DEF JobRec
<1> HIDE DEF ended, answer, key, copy
<1>4. /\ pending \in Seq(DOMAIN ended) /\ Distinct(pending) /\ InOrder(pending, ended)
      /\ \A i \in DOMAIN ended : ended[i].promise = "waiting" <=> i \in Members(pending)
  <2>1. \A i \in DOMAIN pending : pending[i] \in DOMAIN jobs
    OBVIOUS
  <2> QED BY <1>0, <1>2, <2>1 DEF QueueInv, Ordered, Orderly, InOrder
\* The queue before the slot is filled.
<1>5. /\ made \in Seq(JobRec) /\ Len(jobs) <= Len(made)
      /\ \A i \in DOMAIN jobs : /\ made[i].key = jobs[i].key
                                /\ made[i].priority = jobs[i].priority
                                /\ jobs[i].promise # "waiting" => made[i].promise # "waiting"
      /\ made[active].promise # "waiting"
      /\ queue \in Seq(DOMAIN made) /\ Len(queue) <= Len(pending) + 1 /\ Len(queue) \in Nat
      /\ Distinct(queue) /\ InOrder(queue, made)
      /\ \A i \in DOMAIN made : made[i].promise = "waiting" <=> i \in Members(queue)
      /\ preemptRequested => copy \in DOMAIN made
  <2>1. CASE ~preemptRequested
    <3>1. made = ended /\ queue = pending
      BY <2>1
    <3> HIDE DEF made, queue
    <3> QED BY <1>2, <1>3, <1>4, <2>1, <3>1
  <2>2. CASE preemptRequested
    <3> DEFINE new == NewJob("warm", key, FALSE)
    <3>1. new \in JobRec /\ new.promise = "waiting"
      BY <1>3 DEF NewJob, JobRec, Prio
    <3>2. made = Append(ended, new) /\ queue = InsertByPriority(pending, copy, made)
      BY <2>2
    <3> HIDE DEF made, queue, new
    <3>3. /\ made \in Seq(JobRec) /\ DOMAIN made = 1..copy /\ Len(made) = copy /\ made[copy] = new
          /\ \A i \in 1..Len(jobs) : made[i] = ended[i]
      BY <1>2, <1>3, <3>1, <3>2
    <3>4. /\ pending \in Seq(DOMAIN made) /\ copy \in DOMAIN made
          /\ Members(pending) \subseteq DOMAIN jobs /\ copy \notin Members(pending)
      <4>1. DOMAIN jobs \subseteq DOMAIN made /\ copy \notin DOMAIN jobs /\ copy \in DOMAIN made
        BY <1>3, <3>3
      <4>2. Members(pending) \subseteq DOMAIN jobs
        BY DEF Members
      <4> QED BY <4>1, <4>2
    <3>5. InOrder(pending, made)
      <4>1. \A i \in DOMAIN pending : made[pending[i]] = ended[pending[i]]
        BY <1>3, <3>3
      <4> QED BY <1>4, <4>1 DEF InOrder
    <3>6. /\ queue \in Seq(DOMAIN made) /\ Len(queue) = Len(pending) + 1
          /\ Members(queue) = Members(pending) \cup {copy}
          /\ Distinct(queue) /\ InOrder(queue, made)
      <4>1. queue = InsertByPriority(pending, copy, made)
        BY <3>2
      <4>2. made \in Seq(JobRec) /\ pending \in Seq(DOMAIN made) /\ copy \in DOMAIN made
        BY <3>3, <3>4
      <4>3. copy \notin Members(pending) /\ Distinct(pending) /\ InOrder(pending, made)
        BY <1>4, <3>4, <3>5
      <4> QED BY ONLY <4>1, <4>2, <4>3, InsertKeeps
    <3>7. ASSUME NEW i \in DOMAIN made PROVE made[i].promise = "waiting" <=> i \in Members(queue)
      <4>1. CASE i = copy
        BY <3>1, <3>3, <3>6, <4>1
      <4>2. CASE i # copy
        <5>1. i \in DOMAIN jobs /\ made[i] = ended[i]
          BY <1>3, <3>3, <4>2
        <5> QED BY <1>2, <1>4, <3>6, <4>2, <5>1
      <4> QED BY <4>1, <4>2
    <3>8. /\ \A i \in DOMAIN jobs : /\ made[i].key = jobs[i].key
                                    /\ made[i].priority = jobs[i].priority
                                    /\ jobs[i].promise # "waiting" => made[i].promise # "waiting"
          /\ made[active].promise # "waiting"
      BY <1>0, <1>2, <1>3, <3>3
    <3> QED BY <1>3, <3>3, <3>4, <3>6, <3>7, <3>8
  <2> QED BY <2>1, <2>2
<1> HIDE DEF made, queue
<1>6. /\ Ordered' /\ Len(pending') <= Len(pending) /\ Members(pending') \subseteq Members(queue)
      /\ active' # NoJob =>
            \A i \in Members(pending') : Rank[jobs'[active'].priority] <= Rank[jobs'[i].priority]
  <2>1. CASE queue = <<>>
    <3>1. Orderly(<<>>, made, NoJob, FALSE)
      <4>1. Distinct(<<>>) /\ InOrder(<<>>, made) /\ Members(<<>>) = {}
        BY MembersOfNone DEF Distinct, InOrder
      <4>2. NoJob \notin DOMAIN made
        BY <1>5, NoJobIsNone
      <4>3. \A i \in DOMAIN made : made[i].promise = "waiting" <=> (i = NoJob \/ i \in Members(<<>>))
        BY <1>5, <2>1, <4>1, <4>2
      <4>4. made \in Seq(JobRec) /\ <<>> \in Seq(DOMAIN made)
        BY <1>5
      <4> QED BY ONLY <4>1, <4>3, <4>4 DEF Orderly
    <3>2. pending' = <<>> /\ active' = NoJob
      BY <1>1, <2>1, Zenon
    <3>3. Ordered'
      BY ONLY <1>1, <3>1, <3>2, Zenon DEF Ordered
    <3> QED BY <3>2, <3>3, MembersOfNone
  <2>2. CASE queue # <<>>
    <3> DEFINE h == Head(queue)
               t == Tail(queue)
    <3>1. /\ t \in Seq(DOMAIN made) /\ Len(t) = Len(queue) - 1
          /\ h \in Members(queue) /\ h \in DOMAIN made /\ Members(t) = Members(queue) \ {h}
          /\ Distinct(t) /\ InOrder(t, made)
          /\ \A j \in Members(queue) : Rank[made[h].priority] <= Rank[made[j].priority]
      BY <1>5, <2>2, HeadIsFirst
    <3>2. active' = h /\ pending' = t
      BY <1>1, <2>2
    <3> HIDE DEF h, t
    <3>3. h # NoJob
      BY <1>5, <3>1, NoJobIsNone
    <3>4. ~(made[h].priority = "warm" /\ \E j \in Members(t) : made[j].priority = "interactive")
      <4> SUFFICES ASSUME made[h].priority = "warm",
                          NEW j \in Members(t), made[j].priority = "interactive"
                   PROVE  FALSE
        OBVIOUS
      <4>1. Rank["warm"] <= Rank["interactive"]
        BY <3>1
      <4> QED BY <4>1 DEF Rank
    <3>5. \A i \in DOMAIN made : made[i].promise = "waiting" <=> (i = h \/ i \in Members(t))
      BY <1>5, <3>1
    <3>6. Orderly(t, made, h, FALSE)
      <4>1. made \in Seq(JobRec) /\ h \notin Members(t)
        BY <1>5, <3>1
      <4> QED BY ONLY <3>1, <3>3, <3>4, <3>5, <4>1 DEF Orderly
    <3>7. Ordered'
      BY ONLY <1>1, <3>2, <3>6, Zenon DEF Ordered
    <3>8. Len(pending') <= Len(pending)
      BY <1>5, <3>1, <3>2
    <3>9. \A i \in Members(t) : Rank[made[h].priority] <= Rank[made[i].priority]
      BY <3>1
    <3>10. jobs' = made /\ Members(t) \subseteq Members(queue)
      BY <1>1, <3>1
    <3> QED BY ONLY <3>2, <3>7, <3>8, <3>9, <3>10
  <2> QED BY <2>1, <2>2
<1>7. Booked'
  <2>1. finals \in Seq(DOMAIN jobs) /\ \A i \in DOMAIN finals : jobs[finals[i]].key # NoKey
    BY DEF Books
  <2>2. finals' \in Seq(DOMAIN jobs) /\ \A i \in DOMAIN finals' : jobs[finals'[i]].key # NoKey
    BY <1>0, <1>1, <2>1, FinalsType
  <2>3. Books(jobs, coalescePromises, trailingDirty, finals', {})
    BY <2>2 DEF Books
  <2>4. Books(made, coalescePromises, trailingDirty, finals', {})
    BY <1>5, <2>3, BooksStay
  <2>5. coalescePromises' \in [Keys -> DOMAIN made \cup {NoJob}]
    BY <1>1, <1>5, <2>4 DEF Books
  <2>6. unseen' \subseteq Keys
    BY <1>1 DEF Seen
  <2> QED BY <1>1, <2>4, <2>5, <2>6 DEF Booked, Books
<1>8. preemptRequested' \in BOOLEAN
  BY <1>1, Zenon
<1>9. Len(pending') <= MaxPending
  <2>1. Len(pending') \in Nat /\ Len(pending) <= MaxPending
    BY <1>6 DEF QueueInv, Ordered, Orderly
  <2> QED BY <1>6, <2>1
<1>10. Serves
  <2>1. \A i \in DOMAIN jobs : Rank[made[i].priority] <= Rank[jobs[i].priority]
    BY <1>5, RankType
  <2>2. active \notin Members(pending')
    <3>1. active \in DOMAIN made /\ active \notin Members(queue)
      BY <1>0, <1>5
    <3> QED BY <1>6, <3>1
  <2>3. jobs' = made
    BY <1>1
  <2> QED BY <1>5, <1>6, <2>1, <2>2, <2>3 DEF Serves
<1> QED BY <1>1, <1>5, <1>6, <1>7, <1>8, <1>9, <1>10 DEF Kept

\* The .finally() of a promise, with or without the rerun it starts.
LEMMA FinallyKeeps ==
    ASSUME QueueInv, Finally
    PROVE  Kept
<1> DEFINE j == Head(finals)
           key == jobs[j].key
           promises == IF coalescePromises[key] = j THEN Without(coalescePromises, key, NoJob)
                       ELSE coalescePromises
           dirty == Without(trailingDirty, key, NoRerun)
           rerun == trailingDirty[key] # NoRerun /\ PendingOf(key) = {} /\ promises[key] = NoJob
<1> USE InvParts
<1>1. /\ finals # <<>>
      /\ \/ rerun /\ Admit(trailingDirty[key], key, FALSE, promises, dirty, Tail(finals), unseen)
         \/ /\ coalescePromises' = promises /\ trailingDirty' = dirty /\ finals' = Tail(finals)
            /\ UNCHANGED <<jobs, pending, active, preemptRequested, unseen>>
  BY DEF Finally
<1>2. j \in DOMAIN jobs /\ key \in Keys
  <2>1. finals \in Seq(DOMAIN jobs) /\ jobs[finals[1]].key # NoKey /\ finals[1] \in DOMAIN jobs
    BY <1>1 DEF Books
  <2>2. j = finals[1] /\ jobs[j] \in JobRec
    BY <1>1, <2>1
  <2> QED BY <2>1, <2>2 DEF JobRec
<1>3. /\ promises \in [Keys -> DOMAIN jobs \cup {NoJob}]
      /\ dirty \in [Keys -> Prio \cup {NoRerun}]
  BY WithoutType DEF Books
<1>4. Tail(finals) \in Seq(DOMAIN jobs) /\ \A i \in DOMAIN Tail(finals) : jobs[Tail(finals)[i]].key # NoKey
  <2>1. finals \in Seq(DOMAIN jobs) /\ \A i \in DOMAIN finals : jobs[finals[i]].key # NoKey
    BY DEF Books
  <2>2. /\ Tail(finals) \in Seq(DOMAIN jobs) /\ DOMAIN Tail(finals) = 1..(Len(finals) - 1)
        /\ \A i \in 1..(Len(finals) - 1) : Tail(finals)[i] = finals[i + 1] /\ i + 1 \in DOMAIN finals
    BY <1>1, <2>1
  <2> QED BY <2>1, <2>2
<1> HIDE DEF promises, dirty, j, key
<1>5. Books(jobs, promises, dirty, Tail(finals), {}) /\ unseen \subseteq Keys
  BY <1>3, <1>4 DEF Books
<1>6. CASE rerun /\ Admit(trailingDirty[key], key, FALSE, promises, dirty, Tail(finals), unseen)
  <2>1. trailingDirty[key] \in Prio
    BY <1>2, <1>6 DEF Books
  <2>2. /\ Ordered' /\ Booked' /\ Len(pending') <= MaxPending /\ preemptRequested' \in BOOLEAN
        /\ Serves /\ Len(jobs) < Len(jobs') /\ \A i \in DOMAIN jobs : jobs'[i].key = jobs[i].key
    BY <1>2, <1>5, <1>6, <2>1, AdmitKeeps
  <2>3. Len(jobs) <= Len(jobs')
    BY <2>2 DEF Ordered, Orderly
  <2> QED BY <2>2, <2>3 DEF Kept
<1>7. CASE /\ coalescePromises' = promises /\ trailingDirty' = dirty /\ finals' = Tail(finals)
           /\ UNCHANGED <<jobs, pending, active, preemptRequested, unseen>>
  <2>1. Booked'
    BY <1>5, <1>7 DEF Booked, Books
  <2>2. Ordered'
    BY <1>7 DEF QueueInv, Ordered
  <2>3. Serves
    BY <1>7, <2>2, ServesIfStill
  <2> QED BY <1>7, <2>1, <2>2, <2>3 DEF QueueInv, Kept
<1> QED BY <1>1, <1>6, <1>7

\* Every step keeps the invariant and what it owes the callers.
LEMMA NextKeeps == ASSUME QueueInv, QueueNext PROVE QueueInv' /\ Kept
<1>2. QueueInv' /\ Kept
  <2>1. CASE Finally
    <3>1. Kept /\ calls' = calls
      BY <2>1, FinallyKeeps DEF Finally
    <3> QED BY <3>1 DEF Kept, QueueInv
  <2>2. ASSUME NEW r \in Requests, Enqueue(r) PROVE QueueInv' /\ Kept
    <3>1. Kept
      BY <2>2, EnqueueNewKeeps, JoinPendingKeeps, JoinRunningKeeps DEF Enqueue
    <3>2. calls < MaxCalls /\ calls' = calls + 1
      BY <2>2 DEF Enqueue, EnqueueNew, JoinPending, JoinRunning, Called
    <3>3. calls' \in 0..MaxCalls
      BY <3>2, QueueBounds DEF QueueInv
    <3> QED BY <3>1, <3>3 DEF Kept, QueueInv
  <2>3. ASSUME NEW at \in DOMAIN pending, Abort(at) PROVE QueueInv' /\ Kept
    <3>1. Kept /\ calls' = calls
      BY <2>3, GiveUpKeeps DEF Abort, GiveUp
    <3> QED BY <3>1 DEF Kept, QueueInv
  <2>4. ASSUME NEW key \in Keys, DropPendingByCoalesceKey(key) PROVE QueueInv' /\ Kept
    <3>1. Kept /\ calls' = calls
      BY <2>4, DropKeeps DEF DropPendingByCoalesceKey, GiveUp
    <3> QED BY <3>1 DEF Kept, QueueInv
  <2>5. ASSUME NEW how \in {"done", "failed"}, RunEnds(how) PROVE QueueInv' /\ Kept
    <3>1. Kept /\ calls' = calls
      BY <2>5, RunEndsKeeps DEF RunEnds
    <3> QED BY <3>1 DEF Kept, QueueInv
  <2> QED BY <2>1, <2>2, <2>3, <2>4, <2>5 DEF QueueNext
<1> QED BY <1>2

\* So does a step that changes nothing.
LEMMA QueueStep == QueueInv /\ [QueueNext]_queueVars => QueueInv'
<1>1. UNCHANGED queueVars /\ QueueInv => QueueInv'
  BY DEF queueVars, QueueInv, Ordered, Booked
<1> QED BY <1>1, NextKeeps

-----------------------------------------------------------------------------
(* The theorems.                                                             *)

\* The queue is always in order, its jobs are the unanswered ones, and it is never over its limit.
THEOREM QueueIsInOrder == QueueSpec => []QueueInv
BY QueueInitial, QueueStep, PTL DEF QueueSpec

\* The types, and with them the limit: not even the copy of a preempted job, put back without a
\* look at the limit, takes the queue past it (preemptActiveWarmIfNeeded, insertByPriority).
THEOREM QueueTypes == QueueSpec => []QueueTypeOK
BY QueueIsInOrder, QueueInvGives, PTL

\* An interactive request never waits behind a warm job that was not told to stop, whatever the
\* requests: the path that queues it preempts, and the job that takes the slot is the most urgent.
THEOREM WarmAlwaysYields == QueueSpec => []WarmYields
BY QueueIsInOrder, QueueInvGives, PTL

\* An unanswered promise always belongs to the job of the slot or to one in the queue.
THEOREM NoPromiseIsOrphaned == QueueSpec => []NoOrphan
BY QueueIsInOrder, QueueInvGives, PTL

-----------------------------------------------------------------------------
(* The queue is the single-flight service.                                   *)

\* The empty queue is the empty service.
LEMMA ServiceStarts == QueueInit => Service!Init
BY DEF QueueInit, Service!Init

\* A step of the queue is a step of the service.
LEMMA ServiceStep == QueueInv /\ QueueInv' /\ Kept => Service!Next
<1> SUFFICES ASSUME QueueInv, QueueInv', Kept PROVE Service!Next
  OBVIOUS
<1>0. Queued = Members(pending) /\ Queued' = Members(pending')
  BY DEF Queued, Members
<1>1. /\ DOMAIN jobs \subseteq DOMAIN jobs'
      /\ Serves
  BY DEF Kept, QueueInv, Ordered, Orderly
<1>2. /\ NoJob \notin DOMAIN jobs /\ NoJob \notin DOMAIN jobs'
  BY NoJobIsNone DEF QueueInv, Ordered, Orderly
<1>3. \A j \in DOMAIN jobs : jobs[j].promise = "waiting" <=> (j = active \/ j \in Queued)
  BY <1>0 DEF QueueInv, Ordered, Orderly
<1>4. \A j \in DOMAIN jobs' : jobs'[j].promise = "waiting" <=> (j = active' \/ j \in Queued')
  BY <1>0 DEF QueueInv, Ordered, Orderly
<1>5. /\ active \notin Queued /\ active' \notin Queued'
      /\ active' = NoJob => Queued' = {}
      /\ active' # NoJob => active' \in DOMAIN jobs'
  BY <1>0, MembersOfNone DEF QueueInv, Ordered, Orderly
<1>6. \A j \in DOMAIN jobs : /\ PhaseOf(j) = "running" <=> j = active
                             /\ PhaseOf(j) = "waiting" <=> j \in Queued
                             /\ PhaseOf(j) = "settled" <=> jobs[j].promise # "waiting"
  BY <1>3, <1>5 DEF PhaseOf
<1>7. \A j \in DOMAIN jobs' : /\ PhaseOf(j)' = "running" <=> j = active'
                              /\ PhaseOf(j)' = "waiting" <=> j \in Queued'
                              /\ PhaseOf(j)' = "settled" <=> jobs'[j].promise # "waiting"
  BY <1>4, <1>5 DEF PhaseOf
<1> HIDE DEF PhaseOf
<1>8. Service!Forward
  BY <1>0, <1>1, <1>2, <1>6, <1>7 DEF Service!Forward, Service!Jobs, Serves
<1>9. Service!Urgency
  BY <1>0, <1>1, <1>6 DEF Service!Urgency, Service!Jobs, Serves
<1>10. Service!OneSlot
  BY <1>7 DEF Service!OneSlot, Service!Running, Service!Jobs
<1>11. Service!NeverIdle
  BY <1>5, <1>7 DEF Service!NeverIdle, Service!Running, Service!Waiting, Service!Jobs
<1>12. Service!MostUrgentFirst
  <2>1. \A j \in Service!Running' : j = active' /\ j \in DOMAIN jobs'
    BY <1>7 DEF Service!Running, Service!Jobs
  <2>2. \A i \in Service!Waiting' : i \in Members(pending') /\ i \in DOMAIN jobs'
    BY <1>0, <1>7 DEF Service!Waiting, Service!Jobs
  <2>3. active \in DOMAIN jobs => active \in Service!Running
    BY <1>6 DEF Service!Running, Service!Jobs
  <2>4. active \in DOMAIN jobs \cup {NoJob}
    BY DEF QueueInv, Ordered, Orderly
  <2>5. ASSUME NEW j \in Service!Running' \ Service!Running, NEW i \in Service!Waiting'
        PROVE  Rank[jobs'[j].priority] <= Rank[jobs'[i].priority]
    <3>1. j = active' /\ j # active /\ j # NoJob
      BY <1>2, <2>1, <2>3, <2>4
    <3> QED BY <1>1, <2>2, <3>1 DEF Serves
  <2> QED BY <2>1, <2>2, <2>5 DEF Service!MostUrgentFirst
<1> QED BY <1>8, <1>9, <1>10, <1>11, <1>12 DEF Service!Next

\* Every step of the queue, with its preemption, its joins, its drops and its reruns, is a step of
\* the single-flight service, or leaves what the service shows unchanged.
THEOREM QueueIsSingleFlight == QueueSpec => ServiceSpec
<1>1. UNCHANGED queueVars => UNCHANGED <<[j \in DOMAIN jobs |-> PhaseOf(j)],
                                         [j \in DOMAIN jobs |-> Rank[jobs[j].priority]]>>
  BY DEF queueVars, PhaseOf, Queued
<1>2. QueueInv /\ QueueInv' /\ [QueueNext]_queueVars
        => [Service!Next]_<<[j \in DOMAIN jobs |-> PhaseOf(j)],
                            [j \in DOMAIN jobs |-> Rank[jobs[j].priority]]>>
  BY <1>1, NextKeeps, ServiceStep
<1> QED BY <1>2, QueueIsInOrder, ServiceStarts, PTL DEF QueueSpec, ServiceSpec, Service!Spec

-----------------------------------------------------------------------------
(* What was asked for is not lost.                                           *)

\* A request of a key is still to be run.
Owed(key, dirty, queued) ==
    \/ \E j \in DOMAIN jobs : j # active /\ jobs[j].promise = "waiting" /\ jobs[j].key = key
    \/ active # NoJob /\ jobs[active].key = key /\ preemptRequested
    \/ /\ dirty[key] # NoRerun
       /\ \/ active # NoJob /\ jobs[active].key = key
          \/ \E j \in Members(queued) : jobs[j].key = key

\* A promise that duplicates join is one of their key, and has not been unbound by its .finally().
BoundTo(promises, queued) ==
    \A k \in Keys : promises[k] # NoJob =>
        /\ promises[k] \in DOMAIN jobs /\ jobs[promises[k]].key = k
        /\ jobs[promises[k]].promise = "waiting" \/ promises[k] \in Members(queued)

\* When a .finally() is due that finds a mark, the run in the slot has just begun, and the queue
\* has room for the rerun unless the key already has another promise.
RerunFits ==
    finals # <<>> =>
        LET j == Head(finals)
            key == jobs[j].key
        IN trailingDirty[key] # NoRerun =>
               /\ active # NoJob => jobs[active].key \notin unseen
               /\ coalescePromises[key] \in {NoJob, j} => HasRoom

\* At most one .finally() is due: every callback that answers a promise finds none.
AskedInv ==
    /\ QueueInv
    /\ finals = <<>> \/ finals = <<Head(finals)>>
    /\ BoundTo(coalescePromises, finals)
    /\ RerunFits
    /\ \A key \in unseen : Owed(key, trailingDirty, finals)

\* The members of short sequences.
LEMMA MembersOfOne == ASSUME NEW x PROVE Members(<<x>>) = {x} /\ Head(<<x>>) = x /\ Tail(<<x>>) = <<>>
BY DEF Members

\* The unanswered jobs beside the one in the slot are those of the queue.
LEMMA PendingIs ==
    ASSUME Ordered, NEW key
    PROVE  PendingOf(key) # {}
              <=> \E j \in DOMAIN jobs : j # active /\ jobs[j].promise = "waiting" /\ jobs[j].key = key
<1>1. ASSUME NEW i \in PendingOf(key)
      PROVE  \E j \in DOMAIN jobs : j # active /\ jobs[j].promise = "waiting" /\ jobs[j].key = key
  <2>1. i \in DOMAIN pending /\ jobs[pending[i]].key = key
    BY DEF PendingOf
  <2>2. pending[i] \in DOMAIN jobs /\ pending[i] \in Members(pending)
    BY <2>1 DEF Ordered, Orderly, Members
  <2> QED BY <2>1, <2>2 DEF Ordered, Orderly
<1>2. ASSUME NEW j \in DOMAIN jobs, j # active, jobs[j].promise = "waiting", jobs[j].key = key
      PROVE  PendingOf(key) # {}
  <2>1. j \in Members(pending)
    BY <1>2 DEF Ordered, Orderly
  <2>2. PICK i \in DOMAIN pending : pending[i] = j
    BY <2>1 DEF Members
  <2> QED BY <1>2, <2>2 DEF PendingOf
<1> QED BY <1>1, <1>2

\* The invariant gives the property.
LEMMA AskedInvGives == AskedInv => AskedIsKept
<1>1. SUFFICES ASSUME AskedInv, NEW key \in unseen
               PROVE  \/ PendingOf(key) # {}
                      \/ active # NoJob /\ jobs[active].key = key /\ preemptRequested
                      \/ /\ trailingDirty[key] # NoRerun
                         /\ \/ active # NoJob /\ jobs[active].key = key
                            \/ \E i \in DOMAIN finals : jobs[finals[i]].key = key
  BY DEF AskedIsKept
<1>2. Owed(key, trailingDirty, finals) /\ Ordered
  BY <1>1 DEF AskedInv, QueueInv
<1>3. (\E j \in Members(finals) : jobs[j].key = key) => \E i \in DOMAIN finals : jobs[finals[i]].key = key
  BY DEF Members
<1> QED BY <1>2, <1>3, PendingIs DEF Owed

\* It holds at the start.
LEMMA AskedInitial == QueueInit => AskedInv
BY QueueInitial DEF QueueInit, AskedInv, BoundTo, RerunFits

\* What a request that gets a job of its own does: at most one job of the queue is given up for it.
AdmitsNew(key, promises, dirty, asked, lost, gone) ==
    LET new == Len(jobs) + 1
    IN /\ \A d \in lost : jobs[d].key \in gone
       /\ new \in DOMAIN jobs' /\ jobs'[new].key = key /\ jobs'[new].promise = "waiting"
       /\ \A j \in DOMAIN jobs : /\ j \in DOMAIN jobs' /\ j # new
                                 /\ jobs'[j].key = jobs[j].key
                                 /\ j \notin lost => jobs'[j] = jobs[j]
       /\ active # NoJob => active' = active
       /\ active = NoJob => active' = new
       /\ preemptRequested => preemptRequested'
       /\ \A k \in Keys :
             /\ coalescePromises'[k] = IF k = key THEN new
                                       ELSE IF k \in gone THEN NoJob ELSE promises[k]
             /\ trailingDirty'[k] = IF k \in gone THEN NoRerun ELSE dirty[k]
       /\ \A k \in unseen' :
             /\ k \in Keys
             /\ active = NoJob => k # key
             /\ \/ k \in asked \ gone
                \/ k = key
                \/ active # NoJob /\ preemptRequested' /\ k = jobs[active].key


\* An admitted request gives up no job, or one of the queue.
Admits(key, promises, dirty, queued, asked) ==
    \/ AdmitsNew(key, promises, dirty, asked, {}, {}) /\ finals' = queued
    \/ \E d \in DOMAIN jobs : /\ d # active
                              /\ AdmitsNew(key, promises, dirty, asked, {d}, {jobs[d].key})
                              /\ finals' = WithFinal(queued, d)

\* What Admit does, in either of its cases.
LEMMA AdmitShows ==
    ASSUME QueueInv, NEW priority \in Prio, NEW key \in Keys \cup {NoKey}, NEW signal \in BOOLEAN,
           NEW promises, NEW dirty, NEW queued, NEW asked,
           Books(jobs, promises, dirty, queued, {}),
           Admit(priority, key, signal, promises, dirty, queued, asked)
    PROVE  Admits(key, promises, dirty, queued, asked)
<1> USE InvParts
<1>1. Orderly(pending, jobs, active, preemptRequested)
  BY DEF QueueInv, Ordered
<1>2. ASSUME NEW queue, NEW made, NEW lost \in SUBSET DOMAIN jobs, NEW gone, NEW told, NEW all,
             Orderly(queue, made, active, preemptRequested), Len(made) = Len(jobs),
             \A j \in DOMAIN jobs : /\ made[j].key = jobs[j].key
                                    /\ made[j].priority = jobs[j].priority
                                    /\ j \notin lost => made[j] = jobs[j],
             Accept(priority, key, signal, queue, made, told),
             \A d \in lost : jobs[d].key \in gone,
             \A k \in Keys : /\ told[k] = IF k \in gone THEN NoJob ELSE promises[k]
                             /\ trailingDirty'[k] = IF k \in gone THEN NoRerun ELSE dirty[k],
             all \subseteq (asked \ gone) \cup {key}, Seen(all)
      PROVE  AdmitsNew(key, promises, dirty, asked, lost, gone)
  <2> DEFINE new == Len(jobs) + 1
  <2>1. active # NoJob => active \in DOMAIN jobs /\ made[active].priority = jobs[active].priority
    BY <1>2
  <2>2. /\ Ordered' /\ preemptRequested' \in BOOLEAN
        /\ Len(pending') <= Len(queue) + 1
        /\ Len(jobs') = Len(made) + 1 /\ \A j \in DOMAIN made : jobs'[j] = made[j]
        /\ active # NoJob => active' = active
        /\ active = NoJob => Members(pending') = {}
    <3>1. preemptRequested \in BOOLEAN
      BY DEF QueueInv
    <3>2. Orderly(queue, made, active, preemptRequested)
      BY <1>2
    <3>3. Accept(priority, key, signal, queue, made, told)
      BY <1>2
    <3>5. active # NoJob => made[active].priority = jobs[active].priority
      BY <2>1
    <3> QED BY <3>1, <3>2, <3>3, <3>5, AcceptKeeps
  <2>3. /\ jobs' = Append(made, NewJob(priority, key, signal))
        /\ preemptRequested' = (preemptRequested \/ PreemptsActive(priority))
        /\ coalescePromises' = [k \in Keys |-> IF k = key THEN Len(made) + 1 ELSE told[k]]
    BY <1>2 DEF Accept
  <2>4. /\ made \in Seq(JobRec) /\ DOMAIN made = DOMAIN jobs /\ DOMAIN jobs = 1..Len(jobs)
        /\ Len(jobs) \in Nat
    BY <1>2 DEF Orderly
  <2>5. /\ new \in DOMAIN jobs' /\ DOMAIN jobs' = 1..new
        /\ jobs'[new].key = key /\ jobs'[new].promise = "waiting"
    <3>1. NewJob(priority, key, signal) \in JobRec
      BY DEF NewJob, JobRec
    <3>2. jobs'[new] = NewJob(priority, key, signal) /\ DOMAIN jobs' = 1..new
      BY <1>2, <2>3, <2>4, <3>1
    <3> QED BY <2>4, <3>2 DEF NewJob
  <2>6. \A j \in DOMAIN jobs : /\ j \in DOMAIN jobs' /\ j # new
                               /\ jobs'[j].key = jobs[j].key
                               /\ j \notin lost => jobs'[j] = jobs[j]
    BY <1>2, <2>2, <2>4, <2>5
  <2>7. active = NoJob => active' = new
    BY <2>2, <2>5 DEF Ordered, Orderly
  <2>8. preemptRequested => preemptRequested'
    BY <2>3, Zenon
  <2>9. \A k \in Keys : coalescePromises'[k] = IF k = key THEN new
                                               ELSE IF k \in gone THEN NoJob ELSE promises[k]
    BY <1>2, <2>3
  <2>10. ASSUME NEW k \in unseen'
         PROVE  /\ k \in Keys
                /\ active = NoJob => k # key
                /\ \/ k \in asked \ gone
                   \/ k = key
                   \/ active # NoJob /\ preemptRequested' /\ k = jobs[active].key
    <3> DEFINE began == IF active' \notin {active, NoJob} THEN {jobs'[active'].key} ELSE {}
               cutShort == IF preemptRequested' /\ ~preemptRequested THEN {jobs[active].key} ELSE {}
    <3>1. k \in Keys /\ (k \in all \ began \/ k \in cutShort)
      BY <1>2, <2>10 DEF Seen
    <3>2. ASSUME k \in cutShort
          PROVE  active # NoJob /\ preemptRequested' /\ k = jobs[active].key
      <4>1. preemptRequested' /\ ~preemptRequested /\ k = jobs[active].key
        BY <3>2
      <4>2. PreemptsActive(priority)
        BY <2>3, <4>1, Zenon
      <4> QED BY <4>1, <4>2 DEF PreemptsActive
    <3>3. ASSUME active = NoJob PROVE k # key
      <4>1. active' = new /\ active' # NoJob
        BY <2>4, <2>7, <3>3 DEF NoJob
      <4>2. key \in began
        BY <2>5, <3>3, <4>1
      <4> QED BY <3>1, <3>2, <3>3, <4>2
    <3> QED BY <1>2, <3>1, <3>2, <3>3
  <2> QED BY <1>2, <2>2, <2>5, <2>6, <2>7, <2>8, <2>9, <2>10 DEF AdmitsNew
<1>3. CASE HasRoom /\ Accept(priority, key, signal, pending, jobs, promises)
           /\ trailingDirty' = dirty /\ finals' = queued /\ Seen(asked)
  <2> DEFINE none == {}
             gone == {}
  <2>1. /\ none \in SUBSET DOMAIN jobs /\ \A d \in none : jobs[d].key \in gone
        /\ asked \subseteq (asked \ gone) \cup {key}
    OBVIOUS
  <2>2. \A k \in Keys : /\ promises[k] = IF k \in gone THEN NoJob ELSE promises[k]
                        /\ trailingDirty'[k] = IF k \in gone THEN NoRerun ELSE dirty[k]
    BY <1>3
  <2>3. AdmitsNew(key, promises, dirty, asked, none, gone)
    <3> HIDE DEF none, gone
    <3>1. \A j \in DOMAIN jobs : /\ jobs[j].key = jobs[j].key
                                 /\ jobs[j].priority = jobs[j].priority
                                 /\ j \notin none => jobs[j] = jobs[j]
      OBVIOUS
    <3>2. Accept(priority, key, signal, pending, jobs, promises) /\ Seen(asked)
      BY <1>3
    <3> QED BY <1>1, <1>2, <2>1, <2>2, <3>1, <3>2
  <2> QED BY <1>3, <2>3 DEF Admits
<1>4. CASE ~(HasRoom /\ Accept(priority, key, signal, pending, jobs, promises)
             /\ trailingDirty' = dirty /\ finals' = queued /\ Seen(asked))
  <2> DEFINE at == First(WarmPending)
             dropped == pending[at]
             victim == jobs[dropped].key
             made == Settled(jobs, dropped, "undefined")
             queue == SX!RemoveAt(pending, at)
             told == Without(promises, victim, NoJob)
             lost == {dropped}
             gone == {victim}
             all == (asked \ {victim}) \cup {key}
  <2>1. /\ Displaces(priority)
        /\ Accept(priority, key, signal, queue, made, told)
        /\ trailingDirty' = Without(dirty, victim, NoRerun)
        /\ finals' = WithFinal(queued, dropped)
        /\ Seen(all)
    BY <1>4 DEF Admit
  <2>2. at \in DOMAIN pending
    <3>1. WarmPending # {} /\ WarmPending \subseteq DOMAIN pending
      BY <2>1 DEF WarmPending, Displaces
    <3>2. DOMAIN pending \subseteq Nat
      BY SMTT(30)
    <3>3. WarmPending \in SUBSET Nat
      BY <3>1, <3>2
    <3> QED BY <3>1, <3>3, FirstIs
  <2>3. "undefined" \in Answer
    BY DEF Answer
  <2>4. /\ Orderly(queue, made, active, preemptRequested) /\ dropped \in DOMAIN jobs
        /\ dropped # active
    <3>1. Ordered
      BY DEF QueueInv
    <3>2. Orderly(queue, made, active, preemptRequested) /\ dropped \in DOMAIN jobs
      BY <2>2, <2>3, <3>1, LeaveKeeps
    <3>3. dropped \in Members(pending)
      BY <2>2
    <3> QED BY <3>2, <3>3
  <2> HIDE DEF at, dropped, queue
  <2>5. /\ made \in Seq(JobRec) /\ Len(made) = Len(jobs)
        /\ \A j \in DOMAIN jobs : /\ made[j].key = jobs[j].key
                                  /\ made[j].priority = jobs[j].priority
                                  /\ j # dropped => made[j] = jobs[j]
    BY <2>3, <2>4, SettledIs
  <2>6. /\ (\A d \in lost : jobs[d].key \in gone) /\ lost \in SUBSET DOMAIN jobs
        /\ \A j : j \notin lost => j # dropped
    BY <2>4
  <2>7. \A k \in Keys : /\ told[k] = IF k \in gone THEN NoJob ELSE promises[k]
                        /\ trailingDirty'[k] = IF k \in gone THEN NoRerun ELSE dirty[k]
    BY <2>1 DEF Without
  <2>8. all \subseteq (asked \ gone) \cup {key}
    OBVIOUS
  <2>9. AdmitsNew(key, promises, dirty, asked, lost, gone)
    <3> HIDE DEF made, told, victim, lost, all, gone
    <3>2. \A j \in DOMAIN jobs : /\ made[j].key = jobs[j].key
                                 /\ made[j].priority = jobs[j].priority
                                 /\ j \notin lost => made[j] = jobs[j]
      BY <2>5, <2>6
    <3>3. Accept(priority, key, signal, queue, made, told) /\ Seen(all)
      BY <2>1
    <3> QED BY <1>2, <2>4, <2>5, <2>6, <2>7, <2>8, <3>2, <3>3
  <2> QED BY <2>1, <2>4, <2>9 DEF Admits
<1> QED BY <1>3, <1>4

\* The slot and the rest of the invariant but QueueInv.
AskedKept ==
    /\ finals' = <<>> \/ finals' = <<Head(finals')>>
    /\ BoundTo(coalescePromises, finals)'
    /\ RerunFits'
    /\ \A key \in unseen' : Owed(key, trailingDirty, finals)'

\* What was asked for is owed, but for a key whose request is being admitted.
OwedBut(asked, key, dirty) == \A k \in asked \ {key} : Owed(k, dirty, <<>>)

\* A step that admits a request keeps what was asked for, when the key of the request is the only
\* one that may be owed nothing before it.
LEMMA AdmitsNewAsks ==
    ASSUME QueueInv, NEW key, NEW promises, NEW dirty, NEW asked, NEW gone,
           NEW lost \in SUBSET DOMAIN jobs,
           AdmitsNew(key, promises, dirty, asked, lost, gone),
           finals' = <<>> \/ \E d \in lost : jobs[d].key # NoKey /\ finals' = <<d>>,
           BoundTo(promises, <<>>),
           OwedBut(asked, key, dirty)
    PROVE  AskedKept
<1> USE InvParts
<1> DEFINE new == Len(jobs) + 1
<1>2. /\ \A d \in lost : jobs[d].key \in gone
      /\ new \in DOMAIN jobs' /\ jobs'[new].key = key /\ jobs'[new].promise = "waiting"
      /\ \A j \in DOMAIN jobs : /\ j \in DOMAIN jobs' /\ j # new
                                /\ jobs'[j].key = jobs[j].key
                                /\ j \notin lost => jobs'[j] = jobs[j]
      /\ active # NoJob => active' = active
      /\ active = NoJob => active' = new
      /\ preemptRequested => preemptRequested'
      /\ \A k \in Keys :
            /\ coalescePromises'[k] = IF k = key THEN new
                                      ELSE IF k \in gone THEN NoJob ELSE promises[k]
            /\ trailingDirty'[k] = IF k \in gone THEN NoRerun ELSE dirty[k]
      /\ \A k \in unseen' :
            /\ k \in Keys
            /\ active = NoJob => k # key
            /\ \/ k \in asked \ gone
               \/ k = key
               \/ active # NoJob /\ preemptRequested' /\ k = jobs[active].key
  BY DEF AdmitsNew
<1> HIDE DEF new
<1>3. ASSUME NEW j \in lost PROVE jobs[j].key \in gone
  BY <1>2
<1>5. finals' = <<>> \/ finals' = <<Head(finals')>>
  OBVIOUS
<1>6. BoundTo(coalescePromises, finals)'
  <2> SUFFICES ASSUME NEW k \in Keys, coalescePromises'[k] # NoJob
               PROVE  /\ coalescePromises'[k] \in DOMAIN jobs' /\ jobs'[coalescePromises'[k]].key = k
                      /\ jobs'[coalescePromises'[k]].promise = "waiting"
    BY DEF BoundTo
  <2>1. CASE k = key
    BY <1>2, <2>1
  <2>2. CASE k # key
    <3>1. k \notin gone /\ coalescePromises'[k] = promises[k] /\ promises[k] # NoJob
      BY <1>2, <2>2
    <3>2. /\ promises[k] \in DOMAIN jobs /\ jobs[promises[k]].key = k
          /\ jobs[promises[k]].promise = "waiting"
      BY <3>1, MembersOfNone DEF BoundTo
    <3>3. promises[k] \notin lost
      BY <1>3, <3>1, <3>2
    <3> QED BY <1>2, <3>1, <3>2, <3>3
  <2> QED BY <2>1, <2>2
<1>7. RerunFits'
  <2> SUFFICES ASSUME NEW d \in lost, jobs[d].key # NoKey, finals' = <<d>>
               PROVE  trailingDirty'[jobs'[d].key] = NoRerun
    BY MembersOfOne DEF RerunFits
  <2>1. jobs'[d].key = jobs[d].key /\ jobs[d].key \in gone /\ d \in DOMAIN jobs
    BY <1>2, <1>3
  <2>3. jobs[d] \in JobRec
    BY <2>1
  <2>4. jobs[d].key \in Keys
    BY <2>3 DEF JobRec
  <2> QED BY <1>2, <2>1, <2>4
<1>8. ASSUME NEW k \in unseen' PROVE Owed(k, trailingDirty, finals)'
  <2>1. CASE k = key
    <3>1. active' = active /\ active # NoJob
      BY <1>2, <1>8, <2>1
    <3>2. new # active'
      BY <1>2, <3>1
    <3> QED BY <1>2, <2>1, <3>2 DEF Owed
  <2>2. CASE active # NoJob /\ preemptRequested' /\ k = jobs[active].key
    <3>1. active' = active /\ jobs'[active].key = k /\ active \in DOMAIN jobs
      BY <1>2, <2>2
    <3> QED BY <2>2, <3>1 DEF Owed
  <2>3. CASE k \in asked \ gone /\ k # key
    <3>1. Owed(k, dirty, <<>>) /\ k \in Keys /\ k \notin gone
      BY <1>2, <1>8, <2>3 DEF OwedBut
    <3>2. CASE \E j \in DOMAIN jobs : j # active /\ jobs[j].promise = "waiting" /\ jobs[j].key = k
      <4>1. PICK j \in DOMAIN jobs : j # active /\ jobs[j].promise = "waiting" /\ jobs[j].key = k
        BY <3>2
      <4>2. j \notin lost
        BY <1>3, <3>1, <4>1
      <4>3. j \in DOMAIN jobs' /\ jobs'[j] = jobs[j] /\ j # active'
        BY <1>2, <4>1, <4>2
      <4> QED BY <4>1, <4>3 DEF Owed
    <3>3. CASE active # NoJob /\ jobs[active].key = k /\ preemptRequested
      BY <1>2, <2>2, <3>3
    <3>4. CASE dirty[k] # NoRerun /\ active # NoJob /\ jobs[active].key = k
      <4>1. trailingDirty'[k] = dirty[k]
        BY <1>2, <3>1
      <4>2. active' = active /\ jobs'[active].key = k
        BY <1>2, <3>4
      <4> QED BY <3>4, <4>1, <4>2 DEF Owed
    <3> QED BY <3>1, <3>2, <3>3, <3>4, MembersOfNone DEF Owed
  <2> QED BY <1>2, <1>8, <2>1, <2>2, <2>3
<1> QED BY <1>5, <1>6, <1>7, <1>8 DEF AskedKept

\* An admitted request keeps what was asked for.
LEMMA AdmitAsks ==
    ASSUME QueueInv, NEW priority \in Prio, NEW key \in Keys \cup {NoKey}, NEW signal \in BOOLEAN,
           NEW promises, NEW dirty, NEW queued, NEW asked, queued = <<>>,
           Books(jobs, promises, dirty, queued, {}),
           Admit(priority, key, signal, promises, dirty, queued, asked),
           BoundTo(promises, <<>>),
           OwedBut(asked, key, dirty)
    PROVE  AskedKept
<1>1. \/ AdmitsNew(key, promises, dirty, asked, {}, {}) /\ finals' = queued
      \/ \E d \in DOMAIN jobs : /\ d # active
                                /\ AdmitsNew(key, promises, dirty, asked, {d}, {jobs[d].key})
                                /\ finals' = WithFinal(queued, d)
  <2>1. Admits(key, promises, dirty, queued, asked)
    BY AdmitShows
  <2> QED BY <2>1 DEF Admits
<1>2. CASE AdmitsNew(key, promises, dirty, asked, {}, {}) /\ finals' = queued
  <2>1. {} \in SUBSET DOMAIN jobs /\ finals' = <<>>
    BY <1>2
  <2> QED BY <1>2, <2>1, AdmitsNewAsks
<1>3. ASSUME NEW d \in DOMAIN jobs, finals' = WithFinal(queued, d),
             AdmitsNew(key, promises, dirty, asked, {d}, {jobs[d].key})
      PROVE  AskedKept
  <2>1. {d} \in SUBSET DOMAIN jobs
    OBVIOUS
  <2>2. finals' = <<>> \/ \E x \in {d} : jobs[x].key # NoKey /\ finals' = <<x>>
    BY <1>3 DEF WithFinal
  <2> QED BY <1>3, <2>1, <2>2, AdmitsNewAsks
<1> QED BY <1>1, <1>2, <1>3

\* What was owed before a callback that leaves the slot alone is owed after it.
LEMMA StillOwed ==
    ASSUME QueueInv, NEW k \in Keys, Owed(k, trailingDirty, <<>>),
           active' = active, preemptRequested => preemptRequested',
           trailingDirty'[k] = trailingDirty[k],
           \A j \in DOMAIN jobs : /\ j \in DOMAIN jobs' /\ jobs'[j].key = jobs[j].key
                                  /\ jobs[j].key = k => jobs'[j].promise = jobs[j].promise
    PROVE  Owed(k, trailingDirty, finals)'
<1>1. CASE \E j \in DOMAIN jobs : j # active /\ jobs[j].promise = "waiting" /\ jobs[j].key = k
  BY <1>1 DEF Owed
<1>2. CASE active # NoJob /\ jobs[active].key = k /\ preemptRequested
  BY <1>2, InvParts DEF Owed
<1>3. CASE trailingDirty[k] # NoRerun /\ active # NoJob /\ jobs[active].key = k
  BY <1>3, InvParts DEF Owed
<1> QED BY <1>1, <1>2, <1>3, MembersOfNone DEF Owed

\* The part of AskedInv a callback finds when no .finally() is due.
LEMMA NoneDue ==
    ASSUME AskedInv, finals = <<>>
    PROVE  /\ QueueInv /\ Ordered /\ unseen \subseteq Keys
           /\ BoundTo(coalescePromises, <<>>)
           /\ \A k \in unseen : Owed(k, trailingDirty, <<>>)
BY DEF AskedInv, QueueInv, Booked, Books

\* A request with a job of its own.
LEMMA EnqueueNewAsks ==
    ASSUME AskedInv, finals = <<>>, NEW r \in Requests, EnqueueNew(r)
    PROVE  AskedKept
<1>1. r.priority \in Prio /\ r.key \in Keys \cup {NoKey} /\ r.signal \in BOOLEAN
  BY RequestAssumption DEF RequestRec
<1>2. Admit(r.priority, r.key, r.signal, coalescePromises, trailingDirty, finals, unseen \cup {r.key})
  BY DEF EnqueueNew
<1>3. QueueInv /\ BoundTo(coalescePromises, <<>>) /\ \A k \in unseen : Owed(k, trailingDirty, <<>>)
  BY NoneDue
<1>4. Books(jobs, coalescePromises, trailingDirty, finals, {})
  BY <1>3, InvParts
<1> DEFINE asked == unseen \cup {r.key}
<1>5. OwedBut(asked, r.key, trailingDirty)
  BY <1>3 DEF OwedBut
<1> HIDE DEF asked
<1>6. Admit(r.priority, r.key, r.signal, coalescePromises, trailingDirty, finals, asked)
  BY <1>2 DEF asked
<1>7. finals = <<>>
  OBVIOUS
<1>8. QueueInv /\ BoundTo(coalescePromises, <<>>)
  BY <1>3
<1> QED BY ONLY <1>1, <1>4, <1>5, <1>6, <1>7, <1>8, AdmitAsks

\* A request that joins a queued job of its key.
LEMMA JoinPendingAsks ==
    ASSUME AskedInv, finals = <<>>, NEW r \in Requests, JoinPending(r)
    PROVE  AskedKept
<1> DEFINE at == First(PendingOf(r.key))
           j == pending[at]
           upgrade == Rank[r.priority] < Rank[jobs[j].priority]
<1> USE NoneDue
<1>1. /\ jobs' = [jobs EXCEPT ![j].priority = IF upgrade THEN r.priority ELSE @,
                              ![j].signal = @ \/ r.signal]
      /\ preemptRequested' = (preemptRequested \/ (upgrade /\ PreemptsActive(r.priority)))
      /\ UNCHANGED <<active, coalescePromises, trailingDirty, finals>> /\ Seen(unseen \cup {r.key})
  BY DEF JoinPending
<1>2. /\ DOMAIN jobs' = DOMAIN jobs
      /\ \A i \in DOMAIN jobs : jobs'[i].key = jobs[i].key /\ jobs'[i].promise = jobs[i].promise
  <2> HIDE DEF j, upgrade
  <2>1. jobs \in Seq(JobRec)
    BY InvParts
  <2>2. \A i \in DOMAIN jobs : jobs[i] \in JobRec
    BY <2>1
  <2> QED BY <1>1, <2>1, <2>2 DEF JobRec
<1> HIDE DEF at, j
<1>3. preemptRequested => preemptRequested'
  BY <1>1, Zenon
<1>4. PICK q \in DOMAIN jobs : q # active /\ jobs[q].promise = "waiting" /\ jobs[q].key = r.key
  <2>1. PendingOf(r.key) # {}
    BY DEF JoinPending
  <2> QED BY <2>1, PendingIs
<1>5. ASSUME NEW k \in unseen' PROVE Owed(k, trailingDirty, finals)'
  <2>1. /\ k \in Keys
        /\ k \in unseen \cup {r.key} \/ (preemptRequested' /\ ~preemptRequested /\ k = jobs[active].key)
    BY <1>1, <1>5 DEF Seen
  <2>2. CASE k = r.key
    <3>1. q \in DOMAIN jobs' /\ q # active' /\ jobs'[q].promise = "waiting" /\ jobs'[q].key = k
      BY <1>1, <1>2, <1>4, <2>2
    <3> QED BY <3>1 DEF Owed
  <2>3. CASE k \in unseen
    <3>1. Owed(k, trailingDirty, <<>>)
      BY <2>3
    <3> QED BY <1>1, <1>2, <1>3, <2>1, <3>1, StillOwed
  <2>4. CASE preemptRequested' /\ ~preemptRequested /\ k = jobs[active].key
    <3>1. PreemptsActive(r.priority)
      <4> HIDE DEF upgrade
      <4> QED BY <1>1, <2>4, Zenon
    <3>2. active # NoJob /\ active' = active /\ jobs'[active].key = k
      BY <1>1, <1>2, <2>4, <3>1, InvParts DEF PreemptsActive
    <3> QED BY <2>4, <3>2 DEF Owed
  <2> QED BY <2>1, <2>2, <2>3, <2>4
<1>6. BoundTo(coalescePromises, finals)' /\ finals' = <<>>
  BY <1>1, <1>2 DEF BoundTo
<1> QED BY <1>5, <1>6 DEF AskedKept, RerunFits

\* A request that joins the running job: its promise is that of the job in the slot.
LEMMA JoinRunningAsks ==
    ASSUME AskedInv, finals = <<>>, NEW r \in Requests, JoinRunning(r)
    PROVE  AskedKept
<1> USE NoneDue
<1>1. r.priority \in Prio /\ r.key \in Keys
  BY RequestAssumption DEF RequestRec, JoinRunning, Joins
<1>2. /\ coalescePromises[r.key] # NoJob /\ PendingOf(r.key) = {}
      /\ trailingDirty' = [trailingDirty EXCEPT ![r.key] = r.priority]
      /\ unseen' = unseen \cup {r.key}
      /\ UNCHANGED <<jobs, pending, active, preemptRequested, coalescePromises, finals>>
  BY DEF JoinRunning, Joins
<1>3. active = coalescePromises[r.key] /\ active # NoJob /\ jobs[active].key = r.key
  <2> DEFINE b == coalescePromises[r.key]
  <2>1. b # NoJob /\ b \in DOMAIN jobs /\ jobs[b].key = r.key /\ jobs[b].promise = "waiting"
    BY <1>1, <1>2, MembersOfNone DEF BoundTo
  <2>2. ~\E j \in DOMAIN jobs : j # active /\ jobs[j].promise = "waiting" /\ jobs[j].key = r.key
    BY <1>2, PendingIs
  <2> QED BY <2>1, <2>2
<1>4. trailingDirty \in [Keys -> Prio \cup {NoRerun}]
  BY InvParts DEF Books
<1>5. ASSUME NEW k \in unseen' PROVE Owed(k, trailingDirty, finals)'
  <2>1. CASE k = r.key
    <3>1. trailingDirty'[k] # NoRerun
      BY <1>1, <1>2, <1>4, <2>1 DEF Prio, NoRerun
    <3> QED BY <1>2, <1>3, <2>1, <3>1 DEF Owed
  <2>2. CASE k # r.key
    <3>1. k \in unseen /\ k \in Keys /\ trailingDirty'[k] = trailingDirty[k]
      BY <1>2, <1>4, <1>5, <2>2
    <3>2. Owed(k, trailingDirty, <<>>)
      BY <3>1
    <3> QED BY <1>2, <3>1, <3>2, StillOwed
  <2> QED BY <2>1, <2>2
<1>6. BoundTo(coalescePromises, finals)' /\ finals' = <<>>
  BY <1>2 DEF BoundTo
<1> QED BY <1>5, <1>6 DEF AskedKept, RerunFits

\* A queued job given up takes what was asked for under its key with it, and leaves the rest.
LEMMA GiveUpAsks ==
    ASSUME AskedInv, finals = <<>>, NEW at \in DOMAIN pending, NEW how \in {"aborted", "undefined"},
           GiveUp(at, how)
    PROVE  AskedKept
<1> DEFINE d == pending[at]
           key == jobs[d].key
<1> USE NoneDue
<1>1. d \in DOMAIN jobs /\ how \in Answer /\ jobs \in Seq(JobRec)
  BY InvParts DEF Answer
<1>2. /\ jobs' = Settled(jobs, d, how)
      /\ active' = active /\ preemptRequested' = preemptRequested
      /\ ClearCoalesceState(key) /\ finals' = WithFinal(finals, d)
      /\ unseen' = unseen \ {key}
  BY DEF GiveUp
<1> HIDE DEF d
<1>3. /\ DOMAIN jobs' = DOMAIN jobs
      /\ \A i \in DOMAIN jobs : jobs'[i].key = jobs[i].key /\ (i # d => jobs'[i] = jobs[i])
  BY ONLY <1>1, <1>2, SettledIs
<1>4. \A k \in Keys : /\ coalescePromises'[k] = IF k = key THEN NoJob ELSE coalescePromises[k]
                      /\ trailingDirty'[k] = IF k = key THEN NoRerun ELSE trailingDirty[k]
  BY <1>2 DEF ClearCoalesceState, Without
<1>5. finals' = <<>> \/ (finals' = <<d>> /\ key # NoKey)
  BY <1>2 DEF WithFinal
<1>6. ASSUME NEW k \in unseen' PROVE Owed(k, trailingDirty, finals)'
  <2>1. k \in unseen /\ k \in Keys /\ k # key /\ Owed(k, trailingDirty, <<>>)
    BY <1>2, <1>6
  <2>2. trailingDirty'[k] = trailingDirty[k]
    BY <1>4, <2>1
  <2>3. \A j \in DOMAIN jobs : /\ j \in DOMAIN jobs' /\ jobs'[j].key = jobs[j].key
                               /\ jobs[j].key = k => jobs'[j].promise = jobs[j].promise
    BY <1>3, <2>1
  <2> QED BY <1>2, <2>1, <2>2, <2>3, StillOwed
<1>7. BoundTo(coalescePromises, finals)'
  <2> SUFFICES ASSUME NEW k \in Keys, coalescePromises'[k] # NoJob
               PROVE  /\ coalescePromises'[k] \in DOMAIN jobs' /\ jobs'[coalescePromises'[k]].key = k
                      /\ jobs'[coalescePromises'[k]].promise = "waiting"
    BY DEF BoundTo
  <2>1. k # key /\ coalescePromises'[k] = coalescePromises[k]
    BY <1>4
  <2>2. /\ coalescePromises[k] \in DOMAIN jobs /\ jobs[coalescePromises[k]].key = k
        /\ jobs[coalescePromises[k]].promise = "waiting"
    BY <2>1, MembersOfNone DEF BoundTo
  <2> QED BY <1>3, <2>1, <2>2
<1>8. RerunFits'
  <2>1. CASE finals' = <<d>> /\ key # NoKey
    <3>1. jobs[d] \in JobRec
      BY <1>1
    <3>2. key \in Keys
      BY <2>1, <3>1 DEF JobRec
    <3>3. trailingDirty'[jobs'[d].key] = NoRerun
      BY <1>1, <1>3, <1>4, <3>2
    <3> QED BY <2>1, <3>3, MembersOfOne DEF RerunFits
  <2>2. CASE finals' = <<>>
    BY <2>2 DEF RerunFits
  <2> QED BY <1>5, <2>1, <2>2
<1> QED BY <1>5, <1>6, <1>7, <1>8 DEF AskedKept

\* A drop of a key with no queued job forgets what was asked for under that key only.
LEMMA DropAsks ==
    ASSUME AskedInv, finals = <<>>, NEW key \in Keys, DropPendingByCoalesceKey(key)
    PROVE  AskedKept
<1> USE NoneDue
<1>1. CASE PendingOf(key) # {} /\ GiveUp(First(PendingOf(key)), "undefined")
  <2>1. PendingOf(key) \in SUBSET Nat /\ PendingOf(key) \subseteq DOMAIN pending
    BY InvParts DEF PendingOf
  <2>2. First(PendingOf(key)) \in DOMAIN pending
    BY <1>1, <2>1, FirstIs
  <2> QED BY <1>1, <2>2, GiveUpAsks
<1>2. CASE PendingOf(key) = {}
  <2>1. /\ ClearCoalesceState(key) /\ unseen' = unseen \ {key}
        /\ UNCHANGED <<jobs, pending, active, preemptRequested, finals, calls>>
    BY <1>2 DEF DropPendingByCoalesceKey
  <2>2. \A k \in Keys : /\ coalescePromises'[k] = IF k = key THEN NoJob ELSE coalescePromises[k]
                        /\ trailingDirty'[k] = IF k = key THEN NoRerun ELSE trailingDirty[k]
    BY <2>1 DEF ClearCoalesceState, Without
  <2>3. ASSUME NEW k \in unseen' PROVE Owed(k, trailingDirty, finals)'
    <3>1. k \in unseen /\ k \in Keys /\ trailingDirty'[k] = trailingDirty[k]
      BY <2>1, <2>2, <2>3
    <3>2. Owed(k, trailingDirty, <<>>)
      BY <3>1
    <3> QED BY <2>1, <3>1, <3>2, StillOwed
  <2>4. BoundTo(coalescePromises, finals)' /\ finals' = <<>>
    BY <2>1, <2>2 DEF BoundTo
  <2> QED BY <2>3, <2>4 DEF AskedKept, RerunFits
<1> QED BY <1>1, <1>2 DEF DropPendingByCoalesceKey

\* The end of a run: the copy of a preempted job is owed to its key, and the mark of a finished
\* one waits for the .finally(), which finds room, since the queue has just given up a job.
LEMMA RunEndsAsks ==
    ASSUME AskedInv, finals = <<>>, NEW how \in {"done", "failed"}, RunEnds(how)
    PROVE  AskedKept
<1> DEFINE key == jobs[active].key
           copy == Len(jobs) + 1
           answer == IF preemptRequested THEN "undefined" ELSE how
           ended == Settled(jobs, active, answer)
           new == NewJob("warm", key, FALSE)
           made == IF preemptRequested THEN Append(ended, new) ELSE ended
           queue == IF preemptRequested THEN InsertByPriority(pending, copy, made) ELSE pending
<1> USE NoneDue, InvParts
<1>0. active \in DOMAIN jobs /\ active # NoJob /\ answer \in Answer
  BY DEF RunEnds, Answer
<1>1. /\ jobs' = made
      /\ coalescePromises' = [k \in Keys |-> IF preemptRequested /\ k = key THEN copy
                                             ELSE coalescePromises[k]]
      /\ active' = IF queue = <<>> THEN NoJob ELSE Head(queue)
      /\ pending' = IF queue = <<>> THEN <<>> ELSE Tail(queue)
      /\ finals' = WithFinal(finals, active) /\ preemptRequested' = FALSE /\ Seen(unseen)
      /\ trailingDirty' = trailingDirty
  BY DEF RunEnds
<1>2. /\ ended \in Seq(JobRec) /\ Len(ended) = Len(jobs) /\ DOMAIN ended = DOMAIN jobs
      /\ ended[active].promise # "waiting"
      /\ \A i \in DOMAIN jobs : ended[i].key = jobs[i].key /\ (i # active => ended[i] = jobs[i])
  BY <1>0, SettledIs
<1>3. key \in Keys \cup {NoKey} /\ copy \notin DOMAIN jobs /\ DOMAIN jobs = 1..Len(jobs)
      /\ Len(jobs) \in Nat /\ new.key = key /\ new.promise = "waiting" /\ new \in JobRec
      /\ copy # NoJob
  <2>1. jobs[active] \in JobRec
    BY <1>0
  <2> QED BY <2>1 DEF JobRec, NewJob, Prio, NoJob
<1> HIDE DEF ended, answer, key, copy, new
<1>4. /\ \A i \in DOMAIN jobs : /\ i \in DOMAIN jobs' /\ jobs'[i].key = jobs[i].key
                                /\ i # active => jobs'[i] = jobs[i]
      /\ jobs'[active].promise # "waiting"
      /\ preemptRequested => /\ copy \in DOMAIN jobs' /\ jobs'[copy].key = key
                             /\ jobs'[copy].promise = "waiting"
  <2>1. CASE ~preemptRequested
    <3>1. jobs' = ended
      BY <1>1, <2>1
    <3> QED BY <1>0, <1>2, <2>1, <3>1
  <2>2. CASE preemptRequested
    <3>1. jobs' = Append(ended, new)
      BY <1>1, <2>2
    <3>2. /\ DOMAIN jobs' = 1..copy /\ jobs'[copy] = new
          /\ \A i \in 1..Len(jobs) : jobs'[i] = ended[i]
      BY <1>2, <1>3, <3>1 DEF copy
    <3>3. 1..Len(jobs) \subseteq 1..copy /\ copy \in 1..copy
      BY <1>3 DEF copy
    <3> QED BY <1>0, <1>2, <1>3, <3>2, <3>3
  <2> QED BY <2>1, <2>2
<1>5. active' # active /\ active' \in DOMAIN jobs' \cup {NoJob}
  <2>1. Kept
    BY RunEndsKeeps
  <2>2. Ordered'
    BY <2>1 DEF Kept
  <2> QED BY <1>0, <1>4, <2>2 DEF Ordered, Orderly
<1>6. \A k \in unseen' : k \in unseen /\ k \in Keys /\ (active' # NoJob => jobs'[active'].key # k)
  BY <1>1, <1>5 DEF Seen
<1>7. finals' = <<>> \/ (finals' = <<active>> /\ key # NoKey)
  BY <1>1 DEF WithFinal, key
<1>8. key # NoKey => finals' = <<active>>
  BY <1>1 DEF WithFinal, key
<1>9. \A k \in Keys : coalescePromises'[k] = IF preemptRequested /\ k = key THEN copy
                                             ELSE coalescePromises[k]
  BY <1>1
<1>10. ~preemptRequested => HasRoom'
  <2> SUFFICES ASSUME ~preemptRequested PROVE Len(pending') < MaxPending
    BY DEF HasRoom
  <2>1. pending' = IF pending = <<>> THEN <<>> ELSE Tail(pending)
    BY <1>1
  <2>2. Len(pending) <= MaxPending /\ MaxPending >= 1
    BY QueueBounds DEF QueueInv
  <2>3. CASE pending = <<>>
    BY <2>1, <2>2, <2>3
  <2>4. CASE pending # <<>>
    BY <2>1, <2>2, <2>4
  <2> QED BY <2>3, <2>4
<1> HIDE DEF made, queue
<1>11. ASSUME NEW k \in unseen' PROVE Owed(k, trailingDirty, finals)'
  <2>1. k \in unseen /\ k \in Keys /\ (active' # NoJob => jobs'[active'].key # k)
    BY <1>6
  <2>2. Owed(k, trailingDirty, <<>>)
    BY <2>1
  <2>3. CASE \E j \in DOMAIN jobs : j # active /\ jobs[j].promise = "waiting" /\ jobs[j].key = k
    <3>1. PICK j \in DOMAIN jobs : j # active /\ jobs[j].promise = "waiting" /\ jobs[j].key = k
      BY <2>3
    <3>2. j \in DOMAIN jobs' /\ jobs'[j] = jobs[j] /\ j # active'
      <4>1. j # NoJob
        BY NoJobIsNone
      <4> QED BY <1>4, <2>1, <3>1, <4>1
    <3> QED BY <3>1, <3>2 DEF Owed
  <2>4. CASE active # NoJob /\ jobs[active].key = k /\ preemptRequested
    <3>1. copy \in DOMAIN jobs' /\ jobs'[copy].key = k /\ jobs'[copy].promise = "waiting"
      BY <1>4, <2>4 DEF key
    <3>2. copy # active'
      BY <1>3, <2>1, <3>1
    <3> QED BY <3>1, <3>2 DEF Owed
  <2>5. CASE trailingDirty[k] # NoRerun /\ active # NoJob /\ jobs[active].key = k
    <3>1. finals' = <<active>> /\ jobs'[active].key = k
      BY <1>0, <1>4, <1>8, <2>1, <2>5, KeyAssumption DEF key
    <3>2. active \in Members(finals')
      BY <3>1, MembersOfOne
    <3>3. trailingDirty'[k] # NoRerun
      BY <1>1, <2>5
    <3> QED BY <3>1, <3>2, <3>3 DEF Owed
  <2> QED BY <2>2, <2>3, <2>4, <2>5, MembersOfNone DEF Owed
<1>12. BoundTo(coalescePromises, finals)'
  <2> SUFFICES ASSUME NEW k \in Keys, coalescePromises'[k] # NoJob
               PROVE  /\ coalescePromises'[k] \in DOMAIN jobs' /\ jobs'[coalescePromises'[k]].key = k
                      /\ \/ jobs'[coalescePromises'[k]].promise = "waiting"
                         \/ coalescePromises'[k] \in Members(finals')
    BY DEF BoundTo
  <2>1. CASE preemptRequested /\ k = key
    BY <1>4, <1>9, <2>1
  <2>2. CASE ~(preemptRequested /\ k = key)
    <3>1. coalescePromises'[k] = coalescePromises[k]
      BY <1>9, <2>2
    <3>2. /\ coalescePromises[k] \in DOMAIN jobs /\ jobs[coalescePromises[k]].key = k
          /\ jobs[coalescePromises[k]].promise = "waiting"
      BY <3>1, MembersOfNone DEF BoundTo
    <3>3. CASE coalescePromises[k] = active
      <4>1. finals' = <<active>>
        BY <1>8, <3>2, <3>3, KeyAssumption DEF key
      <4>2. active \in Members(finals')
        BY <4>1, MembersOfOne
      <4> QED BY <1>4, <3>1, <3>2, <3>3, <4>2
    <3>4. CASE coalescePromises[k] # active
      BY <1>4, <3>1, <3>2, <3>4
    <3> QED BY <3>3, <3>4
  <2> QED BY <2>1, <2>2
<1>13. RerunFits'
  <2>1. CASE finals' = <<active>> /\ key # NoKey
    <3>1. jobs'[active].key = key /\ key \in Keys
      BY <1>0, <1>3, <1>4, <2>1 DEF key
    <3>2. active' # NoJob => jobs'[active'].key \notin unseen'
      BY <1>6
    <3>3. coalescePromises'[key] \in {NoJob, active} => ~preemptRequested
      BY <1>0, <1>3, <1>9, <3>1
    <3> QED BY <1>10, <2>1, <3>1, <3>2, <3>3, MembersOfOne DEF RerunFits
  <2>2. CASE finals' = <<>>
    BY <2>2 DEF RerunFits
  <2> QED BY <1>7, <2>1, <2>2
<1>14. finals' = <<>> \/ finals' = <<Head(finals')>>
  BY <1>7, MembersOfOne
<1> QED BY <1>11, <1>12, <1>13, <1>14 DEF AskedKept

\* The .finally() of a promise: a mark it takes off is turned into a rerun, or the key has a job
\* that begins after what was asked for.
LEMMA FinallyAsks ==
    ASSUME AskedInv, Finally
    PROVE  AskedKept
<1> DEFINE j == Head(finals)
           key == jobs[j].key
           promises == IF coalescePromises[key] = j THEN Without(coalescePromises, key, NoJob)
                       ELSE coalescePromises
           dirty == Without(trailingDirty, key, NoRerun)
           rest == Tail(finals)
           rerun == trailingDirty[key] # NoRerun /\ PendingOf(key) = {} /\ promises[key] = NoJob
<1>0. QueueInv /\ Ordered /\ unseen \subseteq Keys
  BY DEF AskedInv, QueueInv, Booked, Books
<1> USE InvParts, <1>0
<1>1. /\ finals # <<>>
      /\ \/ rerun /\ Admit(trailingDirty[key], key, FALSE, promises, dirty, rest, unseen)
         \/ /\ ~(rerun /\ (HasRoom \/ Displaces(trailingDirty[key])))
            /\ coalescePromises' = promises /\ trailingDirty' = dirty /\ finals' = rest
            /\ UNCHANGED <<jobs, pending, active, preemptRequested, unseen>>
  BY DEF Finally
<1>2. j \in DOMAIN jobs /\ key \in Keys
  <2>1. finals \in Seq(DOMAIN jobs) /\ jobs[finals[1]].key # NoKey /\ finals[1] \in DOMAIN jobs
    BY <1>1 DEF Books
  <2>2. j = finals[1] /\ jobs[j] \in JobRec
    BY <1>1, <2>1
  <2> QED BY <2>1, <2>2 DEF JobRec
<1>3. finals = <<j>> /\ rest = <<>> /\ Members(finals) = {j}
  <2>1. finals = <<j>>
    BY <1>1 DEF AskedInv
  <2> HIDE DEF j
  <2> QED BY <2>1, MembersOfOne
<1>4. /\ promises \in [Keys -> DOMAIN jobs \cup {NoJob}]
      /\ dirty \in [Keys -> Prio \cup {NoRerun}]
  BY WithoutType DEF Books
<1>5. \A k \in Keys : /\ promises[k] = IF k = key /\ coalescePromises[k] = j THEN NoJob
                                       ELSE coalescePromises[k]
                      /\ dirty[k] = IF k = key THEN NoRerun ELSE trailingDirty[k]
  <2> HIDE DEF j, key
  <2> QED BY <1>2 DEF Without
<1>6. RerunFits /\ BoundTo(coalescePromises, finals) /\ \A k \in unseen : Owed(k, trailingDirty, finals)
  BY DEF AskedInv
<1>7. trailingDirty[key] # NoRerun =>
         /\ active # NoJob => jobs[active].key \notin unseen
         /\ coalescePromises[key] \in {NoJob, j} => HasRoom
  BY <1>1, <1>6 DEF RerunFits
<1> HIDE DEF promises, dirty, j, key, rest
<1>8. BoundTo(promises, <<>>)
  <2> SUFFICES ASSUME NEW k \in Keys, promises[k] # NoJob
               PROVE  /\ promises[k] \in DOMAIN jobs /\ jobs[promises[k]].key = k
                      /\ jobs[promises[k]].promise = "waiting"
    BY DEF BoundTo
  <2>1. promises[k] = coalescePromises[k]
    BY <1>5
  <2>2. /\ promises[k] \in DOMAIN jobs /\ jobs[promises[k]].key = k
        /\ jobs[promises[k]].promise = "waiting" \/ promises[k] = j
    BY <1>3, <1>6, <2>1 DEF BoundTo
  <2>3. promises[k] # j
    BY <1>5, <2>1, <2>2 DEF key
  <2> QED BY <2>2, <2>3
<1>9. ASSUME NEW k \in unseen, k # key PROVE Owed(k, dirty, <<>>)
  <2>1. k \in Keys /\ dirty[k] = trailingDirty[k] /\ jobs[j].key # k
    BY <1>5, <1>9 DEF key
  <2>2. Owed(k, trailingDirty, finals)
    BY <1>6
  <2> QED BY <1>3, <2>1, <2>2, MembersOfNone DEF Owed
<1>10. CASE rerun /\ Admit(trailingDirty[key], key, FALSE, promises, dirty, rest, unseen)
  <2>1. trailingDirty[key] \in Prio
    BY <1>2, <1>10 DEF Books
  <2>2. Books(jobs, promises, dirty, rest, {})
    BY <1>3, <1>4 DEF Books
  <2>3. OwedBut(unseen, key, dirty)
    BY <1>9 DEF OwedBut
  <2> DEFINE p == trailingDirty[key]
             s == FALSE
             asked == unseen
  <2>4. p \in Prio /\ key \in Keys \cup {NoKey} /\ s \in BOOLEAN /\ QueueInv
    BY <1>2, <2>1
  <2>5. Admit(p, key, s, promises, dirty, rest, asked) /\ OwedBut(asked, key, dirty)
    BY <1>10, <2>3
  <2> HIDE DEF p, s, asked
  <2> QED BY ONLY <1>3, <1>8, <2>2, <2>4, <2>5, AdmitAsks
<1>11. CASE /\ ~(rerun /\ (HasRoom \/ Displaces(trailingDirty[key])))
            /\ coalescePromises' = promises /\ trailingDirty' = dirty /\ finals' = rest
            /\ UNCHANGED <<jobs, pending, active, preemptRequested, unseen>>
  <2>1. finals' = <<>> /\ RerunFits'
    BY <1>3, <1>11 DEF RerunFits
  <2>2. BoundTo(coalescePromises, finals)'
    BY <1>8, <1>11, <2>1 DEF BoundTo
  <2>3. ASSUME key \in unseen PROVE Owed(key, dirty, <<>>)
    <3>1. Owed(key, trailingDirty, finals)
      BY <1>6, <2>3
    <3>2. CASE \E i \in DOMAIN jobs : i # active /\ jobs[i].promise = "waiting" /\ jobs[i].key = key
      BY <3>2 DEF Owed
    <3>3. CASE active # NoJob /\ jobs[active].key = key /\ preemptRequested
      BY <3>3 DEF Owed
    <3>4. CASE trailingDirty[key] # NoRerun /\ PendingOf(key) = {}
      <4>1. active # NoJob => jobs[active].key # key
        BY <1>7, <2>3, <3>4
      <4>2. ~\E i \in DOMAIN jobs : i # active /\ jobs[i].promise = "waiting" /\ jobs[i].key = key
        BY <3>4, PendingIs
      <4>3. promises[key] = NoJob
        <5>1. CASE promises[key] # NoJob
          <6>1. /\ promises[key] \in DOMAIN jobs /\ jobs[promises[key]].key = key
                /\ jobs[promises[key]].promise = "waiting"
            BY <1>2, <1>8, <5>1, MembersOfNone DEF BoundTo
          <6>2. promises[key] # active
            BY <4>1, <5>1, <6>1
          <6> QED BY <4>2, <6>1, <6>2
        <5> QED BY <5>1
      <4>4. coalescePromises[key] \in {NoJob, j}
        BY <1>2, <1>5, <4>3
      <4>5. HasRoom
        BY <1>7, <3>4, <4>4
      <4> QED BY <1>11, <3>4, <4>3, <4>5
    <3>5. PendingOf(key) # {} => Owed(key, dirty, <<>>)
      BY PendingIs DEF Owed
    <3> QED BY <3>1, <3>2, <3>3, <3>4, <3>5 DEF Owed
  <2>4. ASSUME NEW k \in unseen' PROVE Owed(k, trailingDirty, finals)'
    <3>1. k \in unseen /\ Owed(k, dirty, <<>>)
      BY <1>9, <1>11, <2>3, <2>4
    <3> QED BY <1>11, <2>1, <3>1 DEF Owed
  <2> QED BY <2>1, <2>2, <2>4 DEF AskedKept
<1> QED BY <1>1, <1>10, <1>11

\* Every step keeps what was asked for.
LEMMA AskedStep == AskedInv /\ [QueueNext]_queueVars => AskedInv'
<1> SUFFICES ASSUME AskedInv, [QueueNext]_queueVars PROVE AskedInv'
  OBVIOUS
<1>1. QueueInv'
  BY QueueStep DEF AskedInv
<1>2. CASE UNCHANGED queueVars
  BY <1>1, <1>2 DEF queueVars, AskedInv, BoundTo, RerunFits, HasRoom, Owed
<1>3. CASE QueueNext
  <2>1. AskedKept
    <3>1. CASE Finally
      BY <3>1, FinallyAsks
    <3>2. ASSUME finals = <<>>, NEW r \in Requests, Enqueue(r) PROVE AskedKept
      BY <3>2, EnqueueNewAsks, JoinPendingAsks, JoinRunningAsks DEF Enqueue
    <3>3. ASSUME finals = <<>>, NEW at \in DOMAIN pending, Abort(at) PROVE AskedKept
      BY <3>3, GiveUpAsks DEF Abort
    <3>4. ASSUME finals = <<>>, NEW key \in Keys, DropPendingByCoalesceKey(key) PROVE AskedKept
      BY <3>4, DropAsks
    <3>5. ASSUME finals = <<>>, NEW how \in {"done", "failed"}, RunEnds(how) PROVE AskedKept
      BY <3>5, RunEndsAsks
    <3> QED BY <1>3, <3>1, <3>2, <3>3, <3>4, <3>5 DEF QueueNext
  <2> QED BY <1>1, <2>1 DEF AskedKept, AskedInv
<1> QED BY <1>2, <1>3

\* What was asked for since the last run of its key began is still to be run, for every set of
\* keys, limit of the queue and number of calls: the trailing rerun is never refused for want of
\* room, because its mark is read when the run that ended has just left a place in the queue.
THEOREM AskedIsNeverLost == QueueSpec => []AskedIsKept
<1>1. QueueSpec => []AskedInv
  BY AskedInitial, AskedStep, PTL DEF QueueSpec
<1> QED BY <1>1, AskedInvGives, PTL
=============================================================================

-------------------------- MODULE FollowUps_proofs --------------------------
(***************************************************************************)
(* The follow-ups, composed with the registry, take no step the registry    *)
(* does not take: FollowUps implements RunRegistry, so what RunRegistry     *)
(* promises holds of the composition too.                                   *)
(*                                                                         *)
(* Then what the user is promised.  The three promises rest on one          *)
(* invariant (FollowInv), of which the conjunct of one follow-up (OnceInv)  *)
(* says where its append and its rewrite stand on the chain: an instruction *)
(* runs once.  SettledInv adds that nothing queued was called off, AckedInv *)
(* where an acknowledged follow-up is (Owed).                               *)
(***************************************************************************)
EXTENDS FollowUps, RunRegistry_proofs, SequenceTheorems, FiniteSetTheorems

-----------------------------------------------------------------------------
(* Queues: a filter, and the batch at the front.                             *)

\* A follow-up put behind the queue.
LEMMA PutLastIds ==
    ASSUME NEW S, NEW q \in Seq(S), NEW x \in S
    PROVE  /\ Append(q, x) \in Seq(S)
           /\ Ids(Append(q, x)) = Ids(q) \cup {x}
           /\ DOMAIN Append(q, x) = 1 .. Len(q) + 1 /\ DOMAIN q = 1 .. Len(q)
           /\ Append(q, x)[Len(q) + 1] = x /\ \A k \in 1 .. Len(q) : Append(q, x)[k] = q[k]
<1> DEFINE a == Append(q, x)
<1>1. /\ a \in Seq(S) /\ Len(q) \in Nat /\ Len(a) = Len(q) + 1 /\ a[Len(q) + 1] = x
      /\ \A k \in 1 .. Len(q) : a[k] = q[k]
  BY AppendProperties
<1>2. DOMAIN a = 1 .. Len(q) + 1 /\ DOMAIN q = 1 .. Len(q)
  BY <1>1
<1>3. \A k : k \in 1 .. Len(q) + 1 <=> k \in 1 .. Len(q) \/ k = Len(q) + 1
  BY <1>1
<1> HIDE DEF a
<1>4. Ids(a) = Ids(q) \cup {x}
  BY <1>1, <1>2, <1>3 DEF Ids
<1> QED BY <1>1, <1>2, <1>4 DEF a

LEMMA PutLast ==
    ASSUME NEW S, NEW q \in Seq(S), NEW x \in S, x \notin Ids(q), Distinct(q)
    PROVE  Distinct(Append(q, x))
<1>1. \A k : k \in 1 .. Len(q) + 1 <=> k \in 1 .. Len(q) \/ k = Len(q) + 1
  OBVIOUS
<1> DEFINE a == Append(q, x)
<1>2. /\ DOMAIN a = 1 .. Len(q) + 1 /\ DOMAIN q = 1 .. Len(q)
      /\ a[Len(q) + 1] = x /\ \A k \in 1 .. Len(q) : a[k] = q[k]
  BY PutLastIds
<1> HIDE DEF a
<1>3. Distinct(a)
  BY <1>1, <1>2 DEF Ids, Distinct
<1> QED BY <1>3 DEF a

\* Without is the filter it reads as.
LEMMA WithoutIs ==
    ASSUME NEW S, NEW q \in Seq(S), NEW gone
    PROVE  /\ Without(q, gone) \in Seq(S)
           /\ Ids(Without(q, gone)) = Ids(q) \ gone
           /\ Distinct(q) => Distinct(Without(q, gone))
<1> DEFINE step(f, n) == IF n = 0 THEN <<>>
                         ELSE IF q[n] \in gone THEN f[n - 1] ELSE Append(f[n - 1], q[n])
           Is(f, m) == f = [n \in 0 .. m |-> step(f, n)]
           exists == {m \in Nat : \E f : Is(f, m)}
<1>1. \A m \in Nat : m \in exists
  <2>1. 0 \in exists
    <3> DEFINE g == [n \in 0 .. 0 |-> <<>>]
    <3>1. Is(g, 0)
      OBVIOUS
    <3> QED BY <3>1
  <2>2. ASSUME NEW m \in Nat, m \in exists PROVE m + 1 \in exists
    <3>1. PICK f : Is(f, m)
      BY <2>2
    <3> DEFINE g == [n \in 0 .. m + 1 |-> IF n = m + 1 THEN step(f, n) ELSE f[n]]
    <3>2. ASSUME NEW n \in 0 .. m + 1 PROVE g[n] = step(g, n)
      <4>1. CASE n = m + 1
        BY <4>1
      <4>2. CASE n \in 0 .. m
        <5>1. f[n] = step(f, n)
          BY <3>1, <4>2
        <5> QED BY <4>2, <5>1
      <4> QED BY ONLY m \in Nat, n \in 0 .. m + 1, <4>1, <4>2
    <3>3. Is(g, m + 1)
      <4> HIDE DEF step
      <4> QED BY <3>2
    <3>4. \E f1 : Is(f1, m + 1)
      <4> HIDE DEF Is, g
      <4> QED BY <3>3
    <3> HIDE DEF Is
    <3> QED BY <3>4
  <2> HIDE DEF exists
  <2> QED BY <2>1, <2>2, Climb
<1> DEFINE rest == CHOOSE f : Is(f, Len(q))
<1>2. Is(rest, Len(q))
  <2>1. Len(q) \in Nat
    OBVIOUS
  <2> HIDE DEF Is
  <2>2. Len(q) \in exists
    <3> HIDE DEF exists
    <3> QED BY ONLY <1>1, <2>1
  <2>3. \E f : Is(f, Len(q))
    BY ONLY <2>2 DEF exists
  <2> QED BY ONLY <2>3 DEF rest
<1>3. Without(q, gone) = rest[Len(q)]
  BY DEF Without
<1> HIDE DEF rest, exists
<1>4. /\ rest[0] = <<>>
      /\ \A n \in 1 .. Len(q) :
            rest[n] = IF q[n] \in gone THEN rest[n - 1] ELSE Append(rest[n - 1], q[n])
  <2>1. Len(q) \in Nat /\ \A n \in 0 .. Len(q) : rest[n] = step(rest, n)
    <3> HIDE DEF step
    <3> QED BY <1>2
  <2>2. rest[0] = step(rest, 0) /\ \A n \in 1 .. Len(q) : rest[n] = step(rest, n)
    <3> HIDE DEF step
    <3> QED BY <2>1
  <2> QED BY <2>2
<1> HIDE DEF Is, step
<1> DEFINE Front(n) == {q[k] : k \in 1 .. n}
           Fine(n) == /\ rest[n] \in Seq(S)
                      /\ Ids(rest[n]) = Front(n) \ gone
                      /\ Distinct(q) => Distinct(rest[n])
           good == {n \in Nat : n <= Len(q) => Fine(n)}
<1>5. \A n \in Nat : n \in good
  <2>1. Fine(0)
    <3>1. <<>> \in Seq(S) /\ Ids(<<>>) = {} /\ Distinct(<<>>)
      BY DEF Ids, Distinct
    <3>2. Front(0) = {}
      OBVIOUS
    <3> QED BY <1>4, <3>1, <3>2
  <2>2. ASSUME NEW n \in Nat, Fine(n), n + 1 <= Len(q)
        PROVE  Fine(n + 1)
    <3>1. /\ rest[n] \in Seq(S)
          /\ Ids(rest[n]) = Front(n) \ gone
          /\ Distinct(q) => Distinct(rest[n])
      BY <2>2
    <3>2. /\ q[n + 1] \in S /\ Front(n + 1) = Front(n) \cup {q[n + 1]}
          /\ Distinct(q) => q[n + 1] \notin Front(n)
      BY <2>2 DEF Distinct
    <3>3. rest[n + 1] = IF q[n + 1] \in gone THEN rest[n] ELSE Append(rest[n], q[n + 1])
      BY <1>4, <2>2
    <3>4. CASE q[n + 1] \in gone
      BY <3>1, <3>2, <3>3, <3>4
    <3>5. CASE q[n + 1] \notin gone
      <4> DEFINE r == rest[n]  x == q[n + 1]
      <4>1. r \in Seq(S) /\ x \in S
        BY <3>1, <3>2
      <4>2. Distinct(q) => x \notin Ids(r)
        BY <3>1, <3>2
      <4> HIDE DEF r, x
      <4>3. Append(r, x) \in Seq(S) /\ Ids(Append(r, x)) = Ids(r) \cup {x}
        BY <4>1, PutLastIds
      <4>4. Distinct(r) /\ x \notin Ids(r) => Distinct(Append(r, x))
        BY <4>1, PutLast
      <4> QED BY <3>1, <3>2, <3>3, <3>5, <4>2, <4>3, <4>4 DEF r, x
    <3> QED BY <3>4, <3>5
  <2> HIDE DEF Fine
  <2>3. \A n \in Nat : n \in good => n + 1 \in good
    BY <2>2
  <2>4. 0 \in good
    BY <2>1
  <2> HIDE DEF good
  <2> QED BY <2>3, <2>4, Climb
<1>6. Front(Len(q)) = Ids(q)
  BY DEF Ids
<1>7. Fine(Len(q))
  <2> HIDE DEF Fine
  <2> QED BY <1>5
<1> QED BY <1>3, <1>6, <1>7


\* The batch of an apply is taken from the front of the queue.
LEMMA BatchLengthIs ==
    ASSUME NEW mode, queue \in Seq(FollowUp), queue # <<>>
    PROVE  BatchLength(mode) \in 1 .. Len(queue)
<1> DEFINE joined(k) == queue[1] \in Spoken /\ Joins(queue[k], mode)
           Ends(n) == /\ \A k \in 2 .. n : joined(k)
                      /\ n < Len(queue) => ~joined(n + 1)
           stops == {n \in 1 .. Len(queue) : n < Len(queue) => ~joined(n + 1)}
<1>1. Len(queue) \in Nat /\ Len(queue) >= 1
  OBVIOUS
<1>2. PICK n \in stops : \A y \in stops : n <= y
  <2>1. Len(queue) \in stops
    BY <1>1
  <2> HIDE DEF joined
  <2>2. stops \subseteq Nat /\ stops # {}
    BY <2>1
  <2> HIDE DEF stops
  <2> QED BY <2>2, Least
<1>3. Ends(n)
  <2>1. ASSUME NEW k \in 2 .. n PROVE joined(k)
    <3> HIDE DEF joined
    <3>1. k - 1 \in 1 .. Len(queue) /\ k - 1 < n /\ k - 1 < Len(queue) /\ (k - 1) + 1 = k
      BY <1>1
    <3>2. k - 1 \notin stops
      <4>1. k - 1 \in stops => n <= k - 1
        BY <1>2
      <4> QED BY <3>1, <4>1
    <3> QED BY <3>1, <3>2
  <2> HIDE DEF joined
  <2> QED BY <1>2, <2>1
<1>4. \E m \in 1 .. Len(queue) : Ends(m)
  BY <1>3, <1>2
<1>5. BatchLength(mode) = CHOOSE m \in 1 .. Len(queue) : Ends(m)
  BY DEF BatchLength
<1> HIDE DEF Ends
<1> QED BY <1>4, <1>5

\* What is left of a queue behind a batch.
LEMMA RestIs ==
    ASSUME NEW S, NEW q \in Seq(S), NEW n \in 1 .. Len(q), Distinct(q)
    PROVE  LET r == SubSeq(q, n + 1, Len(q))
               ids == {q[k] : k \in 1 .. n}
           IN /\ r \in Seq(S) /\ Distinct(r)
              /\ Ids(r) = Ids(q) \ ids
              /\ ids \subseteq Ids(q)
<1> DEFINE r == SubSeq(q, n + 1, Len(q))
           ids == {q[k] : k \in 1 .. n}
<1>0. Len(q) \in Nat /\ DOMAIN q = 1 .. Len(q)
  OBVIOUS
<1>1. r \in Seq(S) /\ Len(r) = Len(q) - n /\ \A k \in 1 .. Len(q) - n : r[k] = q[n + k]
  <2>1. CASE n = Len(q)
    BY <2>1
  <2>2. CASE n < Len(q)
    BY <2>2
  <2> QED BY <2>1, <2>2
<1>2. DOMAIN r = 1 .. Len(q) - n
  BY <1>1
<1> HIDE DEF r
<1>3. Distinct(r)
  <2>1. SUFFICES ASSUME NEW j \in 1 .. Len(q) - n, NEW k \in 1 .. Len(q) - n, r[j] = r[k]
                 PROVE  j = k
    BY <1>2 DEF Distinct
  <2>2. n + j \in DOMAIN q /\ n + k \in DOMAIN q /\ q[n + j] = q[n + k]
    BY <1>0, <1>1, <2>1
  <2>3. n + j = n + k
    BY <2>2 DEF Distinct
  <2> QED BY <2>3
<1>4. ASSUME NEW x PROVE x \in Ids(r) <=> x \in Ids(q) \ ids
  <2>1. x \in Ids(r) => x \in Ids(q) \ ids
    <3>1. SUFFICES ASSUME NEW k \in 1 .. Len(q) - n, x = r[k]
                   PROVE  x \in Ids(q) \ ids
      BY <1>2 DEF Ids
    <3>2. n + k \in DOMAIN q /\ x = q[n + k] /\ n + k > n
      BY <1>0, <1>1, <3>1
    <3>3. \A j \in 1 .. n : q[j] # x
      BY <1>0, <3>2 DEF Distinct
    <3> QED BY <3>2, <3>3 DEF Ids
  <2>2. x \in Ids(q) \ ids => x \in Ids(r)
    <3>1. SUFFICES ASSUME NEW k \in 1 .. Len(q), x = q[k], x \notin ids
                   PROVE  x \in Ids(r)
      BY <1>0 DEF Ids
    <3>2. k - n \in 1 .. Len(q) - n /\ n + (k - n) = k
      BY <1>0, <3>1
    <3> QED BY <1>1, <1>2, <3>1, <3>2 DEF Ids
  <2> QED BY <2>1, <2>2
<1>5. ids \subseteq Ids(q)
  BY <1>0 DEF Ids
<1> QED BY <1>1, <1>3, <1>4, <1>5 DEF r

\* A follow-up put in front of the queue.
LEMMA PutFirst ==
    ASSUME NEW S, NEW q \in Seq(S), NEW x \in S, x \notin Ids(q), Distinct(q)
    PROVE  /\ <<x>> \o q \in Seq(S) /\ Distinct(<<x>> \o q)
           /\ Ids(<<x>> \o q) = {x} \cup Ids(q)
<1> DEFINE a == <<x>> \o q
<1>1. /\ a \in Seq(S) /\ Len(q) \in Nat /\ Len(a) = Len(q) + 1 /\ a[1] = x
      /\ \A k \in 2 .. Len(q) + 1 : a[k] = q[k - 1]
  OBVIOUS
<1>2. DOMAIN a = 1 .. Len(q) + 1 /\ DOMAIN q = 1 .. Len(q)
  BY <1>1
<1>3. \A k : k \in 1 .. Len(q) + 1 <=> k = 1 \/ (k \in 2 .. Len(q) + 1 /\ k - 1 \in 1 .. Len(q))
  BY <1>1
<1>6. \A k \in 1 .. Len(q) : k + 1 \in 2 .. Len(q) + 1 /\ (k + 1) - 1 = k
  BY <1>1
<1> HIDE DEF a
<1>4. Ids(a) = {x} \cup Ids(q)
  <2>1. \A k \in 1 .. Len(q) : a[k + 1] = q[k]
    BY <1>1, <1>6
  <2>2. \A k \in 1 .. Len(q) : k + 1 \in DOMAIN a
    BY <1>2, <1>3, <1>6
  <2>3. \A k \in DOMAIN a : a[k] \in {x} \cup Ids(q)
    BY <1>1, <1>2, <1>3 DEF Ids
  <2>4. x \in Ids(a)
    BY <1>1, <1>2, <1>3 DEF Ids
  <2> QED BY <1>2, <2>1, <2>2, <2>3, <2>4 DEF Ids
<1>5. Distinct(a)
  BY <1>1, <1>2, <1>3 DEF Ids, Distinct
<1> QED BY <1>1, <1>4, <1>5 DEF a

-----------------------------------------------------------------------------
(* The append chain.                                                         *)

\* The jobs of one kind that wait in the chain for a follow-up.
Pending(kind, f) == {k \in DOMAIN chain : chain[k].kind = kind /\ f \in chain[k].ids}

\* An apply puts its append, and its rewrite behind it, at the end of the chain.
LEMMA ChainGrows ==
    ASSUME chain \in Seq(Job), NEW ids \in SUBSET FollowUp, chain' = chain \o ApplyJobs(ids)
    PROVE  /\ chain' \in Seq(Job) /\ chain' # <<>>
           /\ \A f : /\ Pending("append", f)' =
                          Pending("append", f) \cup {k \in {Len(chain) + 1} : f \in ids}
                     /\ Pending("rewrite", f)' =
                          Pending("rewrite", f) \cup {k \in {Len(chain) + 2} : f \in ids}
<1> DEFINE n == Len(chain)
           a == [kind |-> "append", ids |-> ids]
           b == [kind |-> "rewrite", ids |-> ids]
<1>1. a \in Job /\ b \in Job
  BY DEF Job
<1>2. chain' = chain \o <<a, b>>
  BY DEF ApplyJobs
<1> HIDE DEF a, b
<1>3. /\ chain' \in Seq(Job) /\ n \in Nat /\ Len(chain') = n + 2
      /\ chain'[n + 1] = a /\ chain'[n + 2] = b
      /\ \A k \in 1 .. n : chain'[k] = chain[k]
  BY <1>1, <1>2
<1>4. /\ DOMAIN chain' = 1 .. n + 2 /\ DOMAIN chain = 1 .. n
      /\ \A k : k \in 1 .. n + 2 <=> k \in 1 .. n \/ k = n + 1 \/ k = n + 2
  BY <1>3
<1>5. /\ a.kind = "append" /\ a.ids = ids /\ b.kind = "rewrite" /\ b.ids = ids
      /\ "append" # "rewrite"
  BY DEF a, b
<1>6. chain' # <<>>
  BY <1>3
<1>7. ASSUME NEW f
      PROVE  /\ Pending("append", f)' = Pending("append", f) \cup {k \in {n + 1} : f \in ids}
             /\ Pending("rewrite", f)' = Pending("rewrite", f) \cup {k \in {n + 2} : f \in ids}
  BY <1>3, <1>4, <1>5 DEF Pending
<1> QED BY <1>3, <1>6, <1>7

\* A job done leaves the front of the chain.
LEMMA ChainShrinks ==
    ASSUME chain \in Seq(Job), chain # <<>>, chain' = Tail(chain)
    PROVE  /\ chain' \in Seq(Job) /\ Head(chain) \in Job
           /\ \A f, kind :
                /\ \A k \in Nat : k \in Pending(kind, f)' <=> k > 0 /\ k + 1 \in Pending(kind, f)
                /\ 1 \in Pending(kind, f) <=> Head(chain).kind = kind /\ f \in Head(chain).ids
<1>1. /\ chain' \in Seq(Job) /\ Head(chain) \in Job /\ Head(chain) = chain[1]
      /\ Len(chain) \in Nat /\ Len(chain) > 0 /\ Len(chain') = Len(chain) - 1
      /\ \A k \in 1 .. Len(chain) - 1 : chain'[k] = chain[k + 1]
  OBVIOUS
<1>2. DOMAIN chain' = 1 .. Len(chain) - 1 /\ DOMAIN chain = 1 .. Len(chain)
  BY <1>1
<1> DEFINE n == Len(chain)
<1>3. ASSUME NEW k \in Nat
      PROVE  k \in 1 .. n - 1 <=> k > 0 /\ k + 1 \in 1 .. n
  BY <1>1
<1>4. ASSUME NEW f, NEW kind
      PROVE  /\ \A k \in Nat : k \in Pending(kind, f)' <=> k > 0 /\ k + 1 \in Pending(kind, f)
             /\ 1 \in Pending(kind, f) <=> Head(chain).kind = kind /\ f \in Head(chain).ids
  <2>1. ASSUME NEW k \in Nat
        PROVE  k \in Pending(kind, f)' <=> k > 0 /\ k + 1 \in Pending(kind, f)
    BY <1>1, <1>2, <1>3, <2>1 DEF Pending
  <2>2. 1 \in 1 .. n
    BY <1>1
  <2> QED BY <1>1, <1>2, <2>1, <2>2 DEF Pending
<1> QED BY <1>1, <1>4

-----------------------------------------------------------------------------
(* The types, and what a step leaves alone.                                  *)

FollowTypes ==
    /\ queue \in Seq(FollowUp) /\ Distinct(queue)
    /\ file \in Seq(FollowUp) /\ Distinct(file)
    /\ ready \in SUBSET FollowUp
    /\ chain \in Seq(Job)
    /\ copies \in [FollowUp -> Nat]
    /\ fate \in [FollowUp -> Fate]
    /\ exposed \in SUBSET FollowUp
    /\ removes \in 0 .. MaxRemoves

LEMMA EmptyQueue == <<>> \in Seq(FollowUp) /\ Distinct(<<>>) /\ Ids(<<>>) = {} /\ <<>> \in Seq(Job)
BY DEF Distinct, Ids

LEMMA QueueOf ==
    ASSUME NEW q \in Seq(FollowUp)
    PROVE  Ids(q) \subseteq FollowUp /\ (q # <<>> <=> Ids(q) # {})
<1>1. DOMAIN q = 1 .. Len(q) /\ Len(q) \in Nat /\ (q # <<>> <=> 1 \in 1 .. Len(q))
  OBVIOUS
<1>2. q = <<>> => Ids(q) = {}
  BY EmptyQueue
<1>3. Ids(q) \subseteq FollowUp
  BY <1>1 DEF Ids
<1>4. Ids(q) # {} <=> 1 .. Len(q) # {}
  BY <1>1 DEF Ids
<1> QED BY <1>1, <1>2, <1>3, <1>4

\* What waits to be appended.
LEMMA UnappendedIs ==
    ASSUME chain \in Seq(Job)
    PROVE  /\ Unappended \in SUBSET FollowUp
           /\ \A f : f \in Unappended <=> Pending("append", f) # {}
<1>1. \A k \in DOMAIN chain : chain[k] \in Job
  OBVIOUS
<1>2. \A k \in DOMAIN chain : chain[k].ids \in SUBSET FollowUp
  BY <1>1 DEF Job
<1>3. \A f : f \in Unappended <=> \E k \in DOMAIN chain : chain[k].kind = "append" /\ f \in chain[k].ids
  BY DEF Unappended, Ids
<1> QED BY <1>2, <1>3 DEF Pending

\* What the user is told when follow-ups are called off.
LEMMA CalledOff ==
    ASSUME NEW ids, NEW what \in Settled, fate \in [FollowUp -> Fate], CallOff(ids, what)
    PROVE  /\ fate' \in [FollowUp -> Fate]
           /\ \A f \in FollowUp :
                /\ fate'[f] \in {fate[f], what}
                /\ fate[f] \in Settled => fate'[f] = fate[f]
                /\ f \in ids => fate'[f] \in Settled
                /\ f \notin ids => fate'[f] = fate[f]
BY DEF CallOff, Tell, Settled, Fate

-----------------------------------------------------------------------------
(* Follow-ups and the registry.                                              *)

\* A step of the composition is a step of the registry or leaves it alone.
LEMMA StepMaps ==
    ASSUME [Next]_vars
    PROVE  [RegNext]_regVars
<1>1. CASE UNCHANGED vars
  BY <1>1 DEF vars
<1>2. ASSUME NEW r, Launch(r) PROVE RegNext
  BY <1>2 DEF Launch, RegNext
<1>3. ASSUME NEW f, Enqueue(f) \/ Remove(f) \/ Promote(f) \/ Update(f)
      PROVE  UNCHANGED regVars
  BY <1>3 DEF Enqueue, Remove, Promote, Update
<1>4. CASE CancelRun
  BY <1>4 DEF CancelRun, RegNext, Others
<1>5. CASE Die
  BY <1>5 DEF Die, RegNext, Others
<1>6. CASE ChainStep
  BY <1>6 DEF ChainStep
<1>7. CASE RegistryOnly
  BY <1>7 DEF RegistryOnly, RegNext, Others, InvokeStep
<1>8. ASSUME NEW i \in Invoke, LoopStep(i)
      PROVE  RegNext \/ UNCHANGED regVars
  <2>1. ASSUME NEW mode, Apply(i, mode) PROVE UNCHANGED regVars
    BY <2>1 DEF Apply
  <2>2. CASE Close(i)
    BY <2>2 DEF Close, RegNext, InvokeStep
  <2>3. CASE End(i) \/ EndUnsaved(i)
    BY <2>3 DEF End, EndUnsaved, RegNext, InvokeStep
  <2>4. CASE StopDropping(i) \/ StopPreserving(i) \/ StopLeaving(i)
    BY <2>4 DEF StopDropping, StopPreserving, StopLeaving, RegNext, InvokeStep
  <2>5. CASE StopAborted(i) \/ StartThrows(i)
    BY <2>5 DEF StopAborted, StartThrows, RegNext, InvokeStep
  <2>6. CASE Flush(i) \/ Finish(i) \/ FinishTail(i)
    BY <2>6 DEF Flush, Finish, FinishTail, RegNext, InvokeStep
  <2> QED
    BY <1>8, <2>1, <2>2, <2>3, <2>4, <2>5, <2>6 DEF LoopStep
<1> QED
  BY <1>1, <1>2, <1>3, <1>4, <1>5, <1>6, <1>7, <1>8 DEF Next

\* FollowUps implements RunRegistry: the handlers that queue follow-ups and the
\* loop that applies them never move the slot, the phase of an invoke or the
\* status of the run other than as the registry does.
THEOREM ImplementsRegistry == Spec => RegSpec
<1>1. Init => RegInit
  BY DEF Init
<1>2. [Next]_vars => [RegNext]_regVars
  BY StepMaps
<1> QED
  BY <1>1, <1>2, PTL DEF Spec, RegSpec

\* With follow-ups applied, preserved and dropped in between, the run still has
\* one loop at a time; its outcome is on disk before its slot is free, unless the
\* flush of its finally and the retry both failed; and until an orphan sweep finds
\* it, it reads as running while it works.
THEOREM RegistryHoldsOfFollowUps ==
    Spec => [](OneLoopPerRun /\ ReleasedRunIsOnDisk /\ LiveRunReadsRunning)
  BY ImplementsRegistry, OneLoop, OutcomeIsOnDisk, LiveRunIsRunning, PTL
-----------------------------------------------------------------------------
(* The steps, by what they do to the follow-ups.                             *)

\* The steps of the registry that touch no follow-up count no crash.
LEMMA RegistryOnlyIs ==
    ASSUME RegistryOnly
    PROVE  UNCHANGED <<followVars, crashes, removes>>
BY DEF RegistryOnly, ForceFinish, StatusLands, SweepFindsOrphan, SweepWrites, followVars,
       RuntimeRefuses, Resume, WriteStep, Hang, Unhang, counts

\* A step of the loop applies a batch, drops or preserves what is queued, lets the
\* queue go with its entry, or leaves the follow-ups alone.
LEMMA LoopStepIs ==
    ASSUME NEW i, LoopStep(i)
    PROVE  /\ crashes' = crashes
           /\ \/ \E mode : Apply(i, mode)
              \/ UNCHANGED followVars
              \/ DropPending
              \/ PreservePending
              \/ queue' = <<>> /\ UNCHANGED <<ready, file, chain, copies, fate, exposed, removes>>
              \/ /\ StartThrows(i)
                 /\ queue' = <<>> /\ UNCHANGED <<ready, file, chain, copies, exposed, removes>>
                 /\ CallOff(Ids(queue), "dropped")
<1> USE DEF counts, regVars
<1>1. ASSUME NEW mode, Apply(i, mode) PROVE crashes' = crashes
  BY <1>1 DEF Apply
<1>2. CASE Close(i) \/ End(i) \/ Flush(i)
  BY <1>2 DEF Close, CloseTurn, End, EndTurn, Flush, FinallyFlushed, FinallyFails
<1>3. CASE EndUnsaved(i) \/ StopDropping(i) \/ Finish(i)
  BY <1>3 DEF EndUnsaved, EndTurn, StopDropping, Stop, Finish, ReleaseSlot
<1>4. CASE StopPreserving(i)
  BY <1>4 DEF StopPreserving, Stop
<1>5. CASE StopLeaving(i)
  BY <1>5 DEF StopLeaving, Stop
<1>6. CASE StopAborted(i)
  BY <1>6 DEF StopAborted, StopCancelled, Stop
<1>7. CASE StartThrows(i)
  BY <1>7 DEF StartThrows, ResumeThrows
<1>8. CASE FinishTail(i)
  BY <1>8 DEF FinishTail, EndTail, followVars
<1> QED
  BY <1>1, <1>2, <1>3, <1>4, <1>5, <1>6, <1>7, <1>8 DEF LoopStep

\* What an apply does.
LEMMA ApplyDoes ==
    ASSUME FollowTypes, NEW i, NEW mode, Apply(i, mode)
    PROVE  \E ids \in SUBSET Ids(queue) :
             /\ queue' \in Seq(FollowUp) /\ Distinct(queue')
             /\ Ids(queue') = Ids(queue) \ ids
             /\ chain' = chain \o ApplyJobs(ids)
             /\ Tell(ids, "applied")
             /\ phase[i] = "stepping" /\ isCurrentInvoke(i) /\ queue # <<>>
             /\ UNCHANGED <<regVars, ready, file, copies, exposed, removes>>
<1> DEFINE n == BatchLength(mode)
           ids == {queue[k] : k \in 1 .. n}
<1>1. n \in 1 .. Len(queue)
  BY BatchLengthIs DEF Apply, FollowTypes
<1>2. /\ queue' = SubSeq(queue, n + 1, Len(queue))
      /\ chain' = chain \o ApplyJobs(ids)
      /\ Tell(ids, "applied")
      /\ phase[i] = "stepping" /\ isCurrentInvoke(i) /\ queue # <<>>
      /\ UNCHANGED <<regVars, ready, file, copies, exposed, removes>>
  BY DEF Apply
<1> HIDE DEF n
<1>3. /\ queue' \in Seq(FollowUp) /\ Distinct(queue')
      /\ Ids(queue') = Ids(queue) \ ids /\ ids \subseteq Ids(queue)
  <2>1. queue \in Seq(FollowUp) /\ Distinct(queue)
    BY DEF FollowTypes
  <2>2. /\ SubSeq(queue, n + 1, Len(queue)) \in Seq(FollowUp)
        /\ Distinct(SubSeq(queue, n + 1, Len(queue)))
        /\ Ids(SubSeq(queue, n + 1, Len(queue))) = Ids(queue) \ ids
        /\ ids \subseteq Ids(queue)
    BY ONLY <1>1, <2>1, RestIs
  <2> QED BY ONLY <1>2, <2>2
<1> HIDE DEF ids
<1> QED BY <1>2, <1>3

\* What a handler that mirrors the queue leaves in the two queues.
LEMMA MirrorDoes ==
    ASSUME FollowTypes, NEW f \in FollowUp, Remove(f) \/ Promote(f) \/ Update(f)
    PROVE  /\ queue' \in Seq(FollowUp) /\ Distinct(queue')
           /\ Ids(queue') \subseteq Ids(queue) /\ file' = queue'
           /\ Remove(f) => Ids(queue') = Ids(queue) \ {f}
           /\ ~Remove(f) => Ids(queue') = Ids(queue)
           /\ ready' \in SUBSET FollowUp
           /\ UNCHANGED <<regVars, chain, copies>>
<1>0. queue \in Seq(FollowUp) /\ Distinct(queue) /\ ready \in SUBSET FollowUp
  BY DEF FollowTypes
<1> DEFINE w == Without(queue, {f})
<1>1. w \in Seq(FollowUp) /\ Distinct(w) /\ Ids(w) = Ids(queue) \ {f}
  BY <1>0, WithoutIs
<1> HIDE DEF w
<1>2. CASE Remove(f)
  BY <1>0, <1>1, <1>2 DEF Remove, w
<1>3. CASE Promote(f) /\ ~Remove(f)
  <2>1. /\ <<f>> \o w \in Seq(FollowUp) /\ Distinct(<<f>> \o w)
        /\ Ids(<<f>> \o w) = {f} \cup Ids(w)
    BY <1>1, PutFirst
  <2>2. f \in Ids(queue) /\ queue' = <<f>> \o w
    BY <1>3 DEF Promote, w
  <2> QED BY <1>0, <1>1, <1>3, <2>1, <2>2 DEF Promote
<1>4. CASE Update(f) /\ ~Remove(f)
  BY <1>0, <1>4 DEF Update
<1> QED BY <1>2, <1>3, <1>4

\* The types are kept.
LEMMA FollowTypesStep ==
    ASSUME FollowTypes, [Next]_vars,
           \A f \in FollowUp : fate[f] = "unsent" => f \notin Ids(queue)
    PROVE  FollowTypes'
<1>0. /\ queue \in Seq(FollowUp) /\ Distinct(queue)
      /\ file \in Seq(FollowUp) /\ Distinct(file)
      /\ ready \in SUBSET FollowUp
      /\ chain \in Seq(Job)
      /\ copies \in [FollowUp -> Nat]
      /\ fate \in [FollowUp -> Fate]
      /\ removes \in 0 .. MaxRemoves /\ MaxRemoves \in Nat
      /\ Ids(queue) \subseteq FollowUp /\ Ids(file) \subseteq FollowUp
      /\ exposed \in SUBSET FollowUp /\ Unappended \in SUBSET FollowUp
  BY FollowUpAssumption, QueueOf, UnappendedIs DEF FollowTypes
<1> USE EmptyQueue
<1>1. CASE UNCHANGED followVars
  BY <1>0, <1>1 DEF followVars, FollowTypes
<1>2. ASSUME NEW r, Launch(r) PROVE FollowTypes'
  <2>1. file' \in Seq(FollowUp) /\ Distinct(file') /\ queue' = file'
    BY <1>0, <1>2, WithoutIs DEF Launch
  <2>2. fate' \in [FollowUp -> Fate]
    BY <1>0, <1>2, CalledOff DEF Launch, Settled
  <2> QED BY <1>0, <1>2, <2>1, <2>2 DEF FollowTypes, Launch
<1>3. ASSUME NEW f \in FollowUp, Enqueue(f) PROVE FollowTypes'
  <2>1. f \notin Ids(queue) /\ queue' = Append(queue, f)
    BY <1>3 DEF Enqueue
  <2>2. queue' \in Seq(FollowUp) /\ Distinct(queue') /\ file' = queue'
    BY <1>0, <1>3, <2>1, PutLastIds, PutLast DEF Enqueue
  <2>3. fate' \in [FollowUp -> Fate]
    BY <1>0, <1>3 DEF Enqueue, Tell, Fate
  <2> QED BY <1>0, <1>3, <2>2, <2>3 DEF FollowTypes, Enqueue, Overwrites
<1>4. ASSUME NEW f \in FollowUp, Remove(f) \/ Promote(f) \/ Update(f) PROVE FollowTypes'
  <2>1. fate' \in [FollowUp -> Fate] /\ removes' \in 0 .. MaxRemoves
    <3>1. CASE Remove(f)
      BY <1>0, <3>1, CalledOff DEF Remove, Settled
    <3>2. CASE Promote(f) \/ Update(f)
      BY <1>0, <3>2 DEF Promote, Update
    <3> QED BY <1>4, <3>1, <3>2
  <2>2. exposed' \in SUBSET FollowUp
    BY <1>0, <1>4 DEF Remove, Promote, Update, Overwrites
  <2> QED BY <1>0, <1>4, <2>1, <2>2, MirrorDoes DEF FollowTypes
<1>5. CASE CancelRun
  BY <1>0, <1>5, CalledOff DEF CancelRun, Settled, FollowTypes
<1>6. CASE Die
  <2>1. fate' \in [FollowUp -> Fate]
    BY <1>0, <1>6 DEF Die, Fate
  <2> QED BY <1>0, <1>6, <2>1 DEF Die, FollowTypes
<1>7. CASE ChainStep
  <2>1. chain' \in Seq(Job) /\ Head(chain) \in Job
    BY <1>0, <1>7, ChainShrinks DEF ChainStep
  <2>2. copies' \in [FollowUp -> Nat] /\ file' \in Seq(FollowUp) /\ Distinct(file')
    <3>1. CASE Head(chain).kind = "append"
      BY <1>0, <1>7, <3>1 DEF ChainStep
    <3>2. CASE Head(chain).kind # "append"
      BY <1>0, <1>7, <3>2, WithoutIs DEF ChainStep, Rewritten
    <3> QED BY <3>1, <3>2
  <2> QED BY <1>0, <1>7, <2>1, <2>2 DEF ChainStep, FollowTypes
<1>8. ASSUME NEW i, NEW mode, Apply(i, mode) PROVE FollowTypes'
  <2>1. PICK ids \in SUBSET Ids(queue) :
             /\ queue' \in Seq(FollowUp) /\ Distinct(queue')
             /\ chain' = chain \o ApplyJobs(ids)
             /\ Tell(ids, "applied")
             /\ UNCHANGED <<ready, file, copies, exposed, removes>>
    BY <1>8, ApplyDoes
  <2>2. chain' \in Seq(Job)
    BY <1>0, <2>1, ChainGrows
  <2>3. fate' \in [FollowUp -> Fate]
    BY <1>0, <2>1 DEF Tell, Fate
  <2> QED BY <1>0, <2>1, <2>2, <2>3 DEF FollowTypes
<1>9. CASE DropPending
  <2>1. fate' \in [FollowUp -> Fate]
    BY <1>0, <1>9, CalledOff DEF DropPending, Settled
  <2>2. exposed' \in SUBSET FollowUp
    BY <1>0, <1>9 DEF DropPending, Overwrites
  <2> QED BY <1>0, <1>9, <2>1, <2>2 DEF DropPending, FollowTypes
<1>10. CASE PreservePending
  <2>1. exposed' \in SUBSET FollowUp
    BY <1>0, <1>10 DEF PreservePending, Overwrites
  <2> QED BY <1>0, <1>10, <2>1 DEF PreservePending, FollowTypes
<1>11. CASE queue' = <<>> /\ UNCHANGED <<ready, file, chain, copies, fate, exposed, removes>>
  BY <1>0, <1>11 DEF FollowTypes
<1>12. CASE queue' = <<>> /\ UNCHANGED <<ready, file, chain, copies, exposed, removes>>
            /\ CallOff(Ids(queue), "dropped")
  <2>1. fate' \in [FollowUp -> Fate]
    BY <1>0, <1>12, CalledOff DEF Settled
  <2> QED BY <1>0, <1>12, <2>1 DEF FollowTypes
<1> QED
  BY <1>1, <1>2, <1>3, <1>4, <1>5, <1>6, <1>7, <1>8, <1>9, <1>10, <1>11, <1>12,
     RegistryOnlyIs, LoopStepIs DEF Next, vars
-----------------------------------------------------------------------------
(* An instruction is executed once.                                          *)

\* Of one follow-up: its append is queued once, in front of the rewrite that takes
\* it out of followups.json; what waits to be appended has been appended by earlier
\* lives of the process only; and what is queued, or on disk with no rewrite to
\* come, waits for its append of this life.
OnceInv(f) ==
    /\ \A j, k \in Pending("append", f) : j = k
    /\ \A j \in Pending("append", f) : \E k \in Pending("rewrite", f) : j < k
    /\ copies[f] <= 1 + crashes
    /\ Pending("append", f) # {} => copies[f] <= crashes
    /\ f \in Ids(queue) => copies[f] <= crashes /\ Pending("append", f) = {}
    /\ f \in Ids(file) => copies[f] <= crashes \/ Pending("rewrite", f) # {}
    /\ fate[f] = "unsent" => /\ copies[f] = 0 /\ f \notin Ids(queue) \cup Ids(file)
                             /\ Pending("append", f) = {} /\ Pending("rewrite", f) = {}

\* The chain is empty where no loop is left to flush it, and the queue is empty
\* where no run holds the slot.
FollowInv ==
    /\ SlotInv
    /\ FollowTypes
    /\ chain # <<>> => \E i \in Invoke : phase[i] \in Unflushed
    /\ ~isActive => queue = <<>>
    /\ \A f \in FollowUp : OnceInv(f)

\* A step that appends nothing and brings no follow-up to where it was not.
Quiet(f) ==
    /\ UNCHANGED <<chain, crashes>> /\ copies'[f] = copies[f]
    /\ f \in Ids(queue') => f \in Ids(queue)
    /\ f \in Ids(file') => f \in Ids(queue) \cup Ids(file)
    /\ fate'[f] = "unsent" => fate[f] = "unsent"

LEMMA QuietKeeps ==
    ASSUME NEW f, OnceInv(f), Quiet(f)
    PROVE  OnceInv(f)'
BY DEF OnceInv, Quiet, Pending

\* Nothing is pending in an empty chain.
LEMMA NothingPending == ASSUME chain = <<>> PROVE \A kind, f : Pending(kind, f) = {}
BY DEF Pending

LEMMA OnceStep ==
    ASSUME FollowInv, [Next]_vars, NEW g \in FollowUp
    PROVE  OnceInv(g)'
<1>0. /\ FollowTypes /\ OnceInv(g) /\ crashes \in Nat /\ copies[g] \in Nat
      /\ queue \in Seq(FollowUp) /\ Distinct(queue) /\ file \in Seq(FollowUp)
      /\ chain \in Seq(Job) /\ fate \in [FollowUp -> Fate] /\ copies \in [FollowUp -> Nat]
  BY RegistryAssumption DEF FollowInv, FollowTypes, SlotInv, RegTypeOK
<1>1. CASE UNCHANGED <<followVars, crashes>>
  BY <1>0, <1>1, QuietKeeps DEF followVars, Quiet
<1>2. ASSUME NEW r, Launch(r) PROVE OnceInv(g)'
  <2>1. chain = <<>>
    BY <1>2 DEF Launch, Register, FollowInv, SlotInv, OneLoopPerRun, Unflushed, isActive,
       isCurrentInvoke, InLoop
  <2>2. /\ Ids(file') \subseteq Ids(file) /\ queue' = file'
        /\ UNCHANGED <<chain, copies, crashes>>
    BY <1>0, <1>2, WithoutIs DEF Launch, Register, counts
  <2>3. fate'[g] = "unsent" => fate[g] = "unsent"
    BY <1>0, <1>2, CalledOff DEF Launch, Settled
  <2>4. \A kind, f : Pending(kind, f) = {} /\ Pending(kind, f)' = {}
    BY <2>1, <2>2 DEF Pending
  <2> QED BY <1>0, <2>2, <2>3, <2>4 DEF OnceInv
<1>3. ASSUME NEW f \in FollowUp, Enqueue(f) PROVE OnceInv(g)'
  <2>1. /\ fate[f] = "unsent" /\ queue' = Append(queue, f) /\ file' = queue'
        /\ UNCHANGED <<chain, copies, crashes>> /\ fate'[f] = "acked"
        /\ g # f => fate'[g] = fate[g]
    BY <1>0, <1>3 DEF Enqueue, Tell, regVars, counts
  <2>2. Ids(queue') = Ids(queue) \cup {f}
    BY <1>0, <2>1, PutLastIds
  <2>3. CASE g # f
    BY <1>0, <2>1, <2>2, <2>3, QuietKeeps DEF Quiet
  <2>4. CASE g = f
    <3>1. copies'[g] = 0 /\ \A kind : Pending(kind, g)' = Pending(kind, g)
      BY <1>0, <2>1, <2>4 DEF OnceInv, Pending
    <3> QED BY <1>0, <2>1, <2>4, <3>1 DEF OnceInv
  <2> QED BY <2>3, <2>4
<1>4. ASSUME NEW f \in FollowUp, Remove(f) \/ Promote(f) \/ Update(f) PROVE OnceInv(g)'
  <2>1. fate'[g] = "unsent" => fate[g] = "unsent"
    <3>1. CASE Remove(f)
      BY <1>0, <3>1, CalledOff DEF Remove, Settled
    <3>2. CASE Promote(f) \/ Update(f)
      BY <3>2 DEF Promote, Update
    <3> QED BY <1>4, <3>1, <3>2
  <2>2. Quiet(g)
    BY <1>0, <1>4, <2>1, MirrorDoes DEF Quiet, regVars, counts
  <2> QED BY <1>0, <2>2, QuietKeeps
<1>5. CASE CancelRun
  <2>1. Quiet(g)
    BY <1>0, <1>5, EmptyQueue, CalledOff DEF Quiet, CancelRun, Cancel, counts, Settled
  <2> QED BY <1>0, <2>1, QuietKeeps
<1>6. CASE Die
  <2>1. /\ queue' = <<>> /\ chain' = <<>> /\ crashes' = crashes + 1 /\ UNCHANGED <<file, copies>>
        /\ fate'[g] = "unsent" => fate[g] = "unsent"
    BY <1>0, <1>6 DEF Die, Crash
  <2>2. \A kind : Pending(kind, g)' = {}
    BY <2>1 DEF Pending
  <2>3. Ids(queue') = {}
    BY <2>1, EmptyQueue
  <2> QED BY <1>0, <2>1, <2>2, <2>3 DEF OnceInv
<1>7. CASE ChainStep
  <2>1. /\ chain' = Tail(chain) /\ chain # <<>> /\ UNCHANGED <<queue, fate, crashes>>
        /\ Head(chain).kind = "append" =>
             /\ copies'[g] = IF g \in Head(chain).ids THEN copies[g] + 1 ELSE copies[g]
             /\ UNCHANGED file
        /\ Head(chain).kind # "append" =>
             file' = Rewritten(Head(chain).ids) /\ UNCHANGED copies
    BY <1>0, <1>7 DEF ChainStep, regVars, counts
  <2>2. /\ Head(chain).kind \in {"append", "rewrite"}
        /\ \A kind :
             /\ \A k \in Nat : k \in Pending(kind, g)' <=> k > 0 /\ k + 1 \in Pending(kind, g)
             /\ 1 \in Pending(kind, g) <=> Head(chain).kind = kind /\ g \in Head(chain).ids
    BY <1>0, <2>1, ChainShrinks DEF Job
  <2>3. \A kind : Pending(kind, g) \subseteq Nat \ {0} /\ Pending(kind, g)' \subseteq Nat \ {0}
    <3>1. chain' \in Seq(Job)
      BY <1>0, <2>1, ChainShrinks
    <3> QED BY <1>0, <3>1 DEF Pending
  <2>4. \A kind : \A k \in Pending(kind, g) : k # 1 => k - 1 \in Pending(kind, g)'
    <3>1. SUFFICES ASSUME NEW kind, NEW k \in Pending(kind, g), k # 1
                   PROVE  k - 1 \in Pending(kind, g)'
      OBVIOUS
    <3>2. k - 1 \in Nat /\ k - 1 > 0 /\ (k - 1) + 1 = k
      BY <2>3, <3>1
    <3> QED BY <2>2, <3>2
  <2>5. \A kind : Pending(kind, g)' # {} => Pending(kind, g) # {}
    BY <2>2, <2>3
  <2>6. \A j, k \in Pending("append", g)' : j = k
    <3>1. SUFFICES ASSUME NEW j \in Pending("append", g)', NEW k \in Pending("append", g)'
                   PROVE  j = k
      OBVIOUS
    <3>2. j \in Nat /\ k \in Nat /\ j + 1 \in Pending("append", g) /\ k + 1 \in Pending("append", g)
      BY <2>2, <2>3, <3>1
    <3>3. j + 1 = k + 1
      BY <1>0, <3>2 DEF OnceInv
    <3> QED BY <3>2, <3>3
  <2>7. \A j \in Pending("append", g)' : \E k \in Pending("rewrite", g)' : j < k
    <3>1. SUFFICES ASSUME NEW j \in Pending("append", g)'
                   PROVE  \E k \in Pending("rewrite", g)' : j < k
      OBVIOUS
    <3>2. j \in Nat /\ j > 0 /\ j + 1 \in Pending("append", g)
      BY <2>2, <2>3, <3>1
    <3>3. PICK k \in Pending("rewrite", g) : j + 1 < k
      BY <1>0, <3>2 DEF OnceInv
    <3>4. k \in Nat /\ k - 1 > j /\ k # 1
      BY <2>3, <3>2, <3>3
    <3> QED BY <2>4, <3>3, <3>4
  <2>8. CASE Head(chain).kind = "append" /\ g \in Head(chain).ids
    <3>1. 1 \in Pending("append", g)
      BY <2>2, <2>8
    <3>2. Pending("append", g)' = {}
      <4>1. \A k \in Pending("append", g)' : k \in Nat /\ k > 0 /\ k + 1 = 1
        BY <1>0, <2>2, <2>3, <3>1 DEF OnceInv
      <4> QED BY <4>1
    <3>3. copies[g] <= crashes /\ copies'[g] = copies[g] + 1 /\ g \notin Ids(queue')
      BY <1>0, <2>1, <2>8, <3>1 DEF OnceInv
    <3>4. Pending("rewrite", g)' # {}
      <4>1. PICK k \in Pending("rewrite", g) : 1 < k
        BY <1>0, <3>1 DEF OnceInv
      <4>2. k # 1
        BY <2>3, <4>1
      <4> QED BY <2>4, <4>2
    <3>5. fate'[g] # "unsent"
      BY <1>0, <2>1, <3>1 DEF OnceInv
    <3> QED BY <1>0, <2>1, <2>6, <2>7, <3>2, <3>3, <3>4, <3>5 DEF OnceInv
  <2>9. CASE Head(chain).kind = "append" /\ g \notin Head(chain).ids
    <3>1. 1 \notin Pending("rewrite", g) /\ 1 \notin Pending("append", g)
      BY <2>2, <2>9
    <3>2. Pending("rewrite", g) # {} => Pending("rewrite", g)' # {}
      BY <2>4, <3>1
    <3> QED BY <1>0, <2>1, <2>5, <2>6, <2>7, <2>9, <3>2 DEF OnceInv
  <2>10. CASE Head(chain).kind = "rewrite"
    <3>1. Ids(file') = Ids(file) \ Head(chain).ids
      BY <1>0, <2>1, <2>10, WithoutIs DEF Rewritten
    <3>2. g \in Ids(file') => copies[g] <= crashes \/ Pending("rewrite", g)' # {}
      <4>1. g \in Ids(file') => 1 \notin Pending("rewrite", g) /\ g \in Ids(file)
        BY <2>2, <3>1
      <4> QED BY <1>0, <2>4, <4>1 DEF OnceInv
    <3>3. g \in Ids(file') => g \in Ids(file)
      BY <3>1
    <3> QED BY <1>0, <2>1, <2>5, <2>6, <2>7, <2>10, <3>2, <3>3 DEF OnceInv
  <2> QED BY <2>2, <2>8, <2>9, <2>10
<1>8. ASSUME NEW i, NEW mode, Apply(i, mode) PROVE OnceInv(g)'
  <2>1. PICK ids \in SUBSET Ids(queue) :
             /\ Ids(queue') = Ids(queue) \ ids
             /\ chain' = chain \o ApplyJobs(ids)
             /\ Tell(ids, "applied")
             /\ UNCHANGED <<regVars, file, copies>>
    BY <1>0, <1>8, ApplyDoes
  <2>2. ids \in SUBSET FollowUp /\ crashes' = crashes
    BY <1>0, <2>1, QueueOf DEF regVars, counts
  <2>3. /\ Pending("append", g)' = Pending("append", g) \cup {k \in {Len(chain) + 1} : g \in ids}
        /\ Pending("rewrite", g)' = Pending("rewrite", g) \cup {k \in {Len(chain) + 2} : g \in ids}
    BY <1>0, <2>1, <2>2, ChainGrows
  <2>4. fate'[g] = IF g \in ids THEN "applied" ELSE fate[g]
    BY <2>1 DEF Tell
  <2>5. Len(chain) \in Nat /\ Len(chain) + 1 < Len(chain) + 2
    BY <1>0
  <2>6. CASE g \in ids
    <3>1. Pending("append", g) = {} /\ copies[g] <= crashes
      BY <1>0, <2>1, <2>6 DEF OnceInv
    <3>2. Pending("append", g)' = {Len(chain) + 1} /\ Len(chain) + 2 \in Pending("rewrite", g)'
      BY <2>3, <2>6, <3>1
    <3>3. g \notin Ids(queue')
      BY <2>1, <2>6
    <3> QED BY <1>0, <2>1, <2>2, <2>4, <2>5, <2>6, <3>1, <3>2, <3>3 DEF OnceInv
  <2>7. CASE g \notin ids
    <3>1. \A kind \in {"append", "rewrite"} : Pending(kind, g)' = Pending(kind, g)
      BY <2>3, <2>7
    <3> QED BY <1>0, <2>1, <2>2, <2>4, <2>7, <3>1 DEF OnceInv
  <2> QED BY <2>6, <2>7
<1>9. CASE DropPending /\ crashes' = crashes
  <2>1. Quiet(g)
    BY <1>0, <1>9, EmptyQueue, CalledOff DEF Quiet, DropPending, Settled
  <2> QED BY <1>0, <2>1, QuietKeeps
<1>10. CASE PreservePending /\ crashes' = crashes
  <2>1. Quiet(g)
    BY <1>0, <1>10, EmptyQueue DEF Quiet, PreservePending
  <2> QED BY <1>0, <2>1, QuietKeeps
<1>11. CASE queue' = <<>> /\ UNCHANGED <<ready, file, chain, copies, fate, exposed, removes, crashes>>
  <2>1. Quiet(g)
    BY <1>0, <1>11, EmptyQueue DEF Quiet
  <2> QED BY <1>0, <2>1, QuietKeeps
<1>12. CASE queue' = <<>> /\ UNCHANGED <<ready, file, chain, copies, exposed, removes, crashes>>
            /\ CallOff(Ids(queue), "dropped")
  <2>1. Quiet(g)
    BY <1>0, <1>12, EmptyQueue, CalledOff DEF Quiet, Settled
  <2> QED BY <1>0, <2>1, QuietKeeps
<1>13. UNCHANGED vars => UNCHANGED <<followVars, crashes>>
  BY DEF vars, regVars, counts
<1>14. ASSUME NEW i, LoopStep(i) PROVE OnceInv(g)'
  BY <1>1, <1>8, <1>9, <1>10, <1>11, <1>12, <1>14, LoopStepIs
<1> QED
  BY <1>1, <1>2, <1>3, <1>4, <1>5, <1>6, <1>7, <1>13, <1>14, RegistryOnlyIs DEF Next

\* Where the chain is not empty a loop is left to flush it.
LEMMA ChainStepKeepsLoop ==
    ASSUME FollowInv, [Next]_vars, chain' # <<>>
    PROVE  \E i \in Invoke : phase'[i] \in Unflushed
<1>0. FollowTypes /\ phase \in [Invoke -> Phase] /\ chain \in Seq(Job)
  BY DEF FollowInv, FollowTypes, SlotInv, RegTypeOK
<1>1. CASE UNCHANGED <<chain, phase>>
  BY <1>1 DEF FollowInv
<1> USE DEF regVars, slotVars
<1>2. ASSUME NEW r, Launch(r) PROVE chain' = <<>>
  BY <1>2 DEF Launch, Register, FollowInv, SlotInv, OneLoopPerRun, Unflushed, isActive,
     isCurrentInvoke, InLoop
<1>3. ASSUME NEW f, Enqueue(f) \/ Remove(f) \/ Promote(f) \/ Update(f)
      PROVE  UNCHANGED <<chain, phase>>
  BY <1>3 DEF Enqueue, Remove, Promote, Update
<1>4. CancelRun => UNCHANGED <<chain, phase>>
  BY DEF CancelRun, Cancel
<1>5. Die => chain' = <<>>
  BY DEF Die
<1>6. CASE ChainStep
  BY <1>6 DEF ChainStep, FollowInv
<1>7. CASE \E i \in Invoke : /\ UNCHANGED chain
                             /\ phase' = [phase EXCEPT ![i] = phase'[i]]
                             /\ phase[i] \in Unflushed => phase'[i] \in Unflushed
  BY <1>0, <1>7 DEF FollowInv
<1>8. CASE RegistryOnly
  <2>1. CASE ForceFinish \/ StatusLands \/ SweepFindsOrphan \/ SweepWrites
    BY <1>1, <1>8, <2>1, RegistryOnlyIs
    DEF followVars, ForceFinish, StatusLands, SweepFindsOrphan, SweepWrites
  <2>2. ASSUME NEW i \in Invoke,
               RuntimeRefuses(i) \/ Resume(i) \/ WriteStep(i) \/ Hang(i) \/ Unhang(i)
        PROVE  /\ UNCHANGED chain
               /\ phase' = [phase EXCEPT ![i] = phase'[i]]
               /\ phase[i] \in Unflushed => phase'[i] \in Unflushed
    BY <1>0, <1>8, <2>2, RegistryOnlyIs
    DEF followVars, RuntimeRefuses, Resume, WriteStep, Hang, Unhang, MoveTo, Unflushed
  <2> QED BY <1>7, <1>8, <2>1, <2>2 DEF RegistryOnly
<1>9. ASSUME NEW i \in Invoke, LoopStep(i)
      PROVE  \E j \in Invoke : phase'[j] \in Unflushed
  <2>1. ASSUME NEW mode, Apply(i, mode) PROVE phase'[i] \in Unflushed
    BY <2>1 DEF Apply, Unflushed
  <2>2. CASE End(i) \/ EndUnsaved(i) \/ Flush(i)
    BY <2>2 DEF End, EndUnsaved, Flush, DropPending, followVars
  <2>3. CASE Close(i)
    BY <1>0, <2>3 DEF Close, CloseTurn, MoveTo, Unflushed
  <2>4. ASSUME NEW s, Stop(i, s) PROVE phase'[i] \in Unflushed
    BY <1>0, <2>4 DEF Stop, MoveTo, Unflushed
  <2>5. CASE StopDropping(i) \/ StopPreserving(i) \/ StopLeaving(i) \/ StopAborted(i)
    BY <2>4, <2>5 DEF StopDropping, StopPreserving, StopLeaving, StopAborted, StopCancelled
  <2>6. CASE StartThrows(i)
    BY <1>0, <1>7, <2>6 DEF StartThrows, ResumeThrows, MoveTo, Unflushed
  <2>7. CASE Finish(i)
    BY <1>0, <1>7, <2>7 DEF Finish, ReleaseSlot, DropPending, MoveTo, Unflushed
  <2>8. CASE FinishTail(i)
    BY <1>0, <1>7, <2>8 DEF FinishTail, EndTail, MoveTo, Unflushed
  <2> QED BY <1>9, <2>1, <2>2, <2>3, <2>5, <2>6, <2>7, <2>8 DEF LoopStep
<1> QED
  BY <1>1, <1>2, <1>3, <1>4, <1>5, <1>6, <1>8, <1>9 DEF Next, vars, followVars

\* Where no run holds the slot nothing is queued in memory.
LEMMA QueueGoesWithEntry ==
    ASSUME FollowInv, [Next]_vars, ~isActive'
    PROVE  queue' = <<>>
<1>0. /\ FollowTypes /\ (slot \in Entry \/ slot = NoEntry) /\ NoEntry \notin Entry
      /\ (~isActive => queue = <<>>)
  BY RegistryAssumption DEF FollowInv, SlotInv, RegTypeOK
<1>1. CASE UNCHANGED <<slot, queue>>
  BY <1>0, <1>1 DEF isActive
<1> USE DEF regVars, slotVars
<1>2. ASSUME NEW r, Launch(r) PROVE FALSE
  <2>1. invokes + 1 \in Invoke
    BY <1>2, RegistryAssumption DEF Launch, Register, FollowInv, SlotInv, RegTypeOK, Invoke
  <2>2. NewEntry(invokes + 1) \in Entry
    BY <2>1 DEF NewEntry, Entry
  <2> QED BY <1>0, <1>2, <2>2 DEF Launch, Register, isActive
<1>3. ASSUME NEW f, Enqueue(f) \/ Remove(f) \/ Promote(f) \/ Update(f)
      PROVE  FALSE
  BY <1>3 DEF Enqueue, Remove, Promote, Update, isActive
<1>4. CancelRun => queue' = <<>>
  BY DEF CancelRun
<1>5. Die => queue' = <<>>
  BY DEF Die
<1>6. ChainStep => UNCHANGED <<slot, queue>>
  BY DEF ChainStep
<1>7. RegistryOnly => UNCHANGED <<slot, queue>>
  BY DEF RegistryOnly, ForceFinish, StatusLands, SweepFindsOrphan, SweepWrites, followVars,
         RuntimeRefuses, Resume, WriteStep, Hang, Unhang
<1>8. ASSUME NEW i \in Invoke, LoopStep(i) PROVE queue' = <<>>
  <2>1. ASSUME NEW mode, Apply(i, mode) PROVE FALSE
    BY <2>1 DEF Apply, isCurrentInvoke, isActive
  <2>2. CASE Flush(i) \/ End(i)
    BY <1>1, <2>2 DEF Flush, FinallyFlushed, FinallyFails, End, EndTurn, followVars
  <2>3. CASE Close(i)
    BY <2>3 DEF Close, followVars
  <2>4. CASE StopLeaving(i)
    <3>1. isActive /\ slot \in Entry
      BY <1>0, <2>4 DEF StopLeaving, Stop, FollowInv, SlotInv, OneLoopPerRun, InLoop, isCurrentInvoke,
         isActive
    <3>2. slot' \in Entry
      BY <2>4, <3>1 DEF StopLeaving, Stop, TurnComplete, Entry
    <3> QED BY <1>0, <3>2 DEF isActive
  <2>5. CASE DropPending \/ PreservePending \/ StopAborted(i) \/ StartThrows(i)
    BY <2>5 DEF DropPending, PreservePending, StopAborted, StartThrows
  <2>6. CASE FinishTail(i)
    <3>1. CASE isCurrentInvoke(i)
      BY <2>6, <3>1 DEF FinishTail
    <3>2. CASE ~isCurrentInvoke(i)
      BY <1>1, <2>6, <3>2 DEF FinishTail, EndTail, ClearRunAbort
    <3> QED BY <3>1, <3>2
  <2> QED
    BY <1>8, <2>1, <2>2, <2>3, <2>4, <2>5, <2>6
    DEF LoopStep, EndUnsaved, StopDropping, StopPreserving, Finish
<1> QED
  BY <1>1, <1>2, <1>3, <1>4, <1>5, <1>6, <1>7, <1>8 DEF Next, vars, followVars

LEMMA FollowInit == Init => FollowInv
<1> SUFFICES ASSUME Init PROVE FollowInv
  OBVIOUS
<1>1. SlotInv /\ chain = <<>> /\ queue = <<>> /\ file = <<>>
  BY SlotInit DEF Init
<1>2. FollowTypes
  BY <1>1, EmptyQueue, FollowUpAssumption DEF FollowTypes, Init, Fate
<1>3. ASSUME NEW f \in FollowUp PROVE OnceInv(f)
  <2>1. copies[f] = 0 /\ crashes = 0
    BY DEF Init, RegInit
  <2>2. Ids(queue) = {} /\ Ids(file) = {}
    BY <1>1, EmptyQueue
  <2>3. \A kind : Pending(kind, f) = {}
    BY <1>1, NothingPending
  <2> QED BY <2>1, <2>2, <2>3 DEF OnceInv
<1> QED BY <1>1, <1>2, <1>3 DEF FollowInv

LEMMA FollowStep == FollowInv /\ [Next]_vars => FollowInv'
<1> SUFFICES ASSUME FollowInv, [Next]_vars PROVE FollowInv'
  OBVIOUS
<1>1. SlotInv'
  BY StepMaps, TypeStep, OneLoopStep DEF FollowInv, SlotInv
<1>2. FollowTypes'
  BY FollowTypesStep DEF FollowInv, OnceInv
<1> QED BY <1>1, <1>2, OnceStep, ChainStepKeepsLoop, QueueGoesWithEntry DEF FollowInv

\* What is counted is what OnceInv bounds.
LEMMA OnceIsEnough == FollowInv => AppliedOncePerLife
<1> SUFFICES ASSUME FollowInv, NEW f \in FollowUp
             PROVE  copies[f] + Cardinality(Pending("append", f)) <= 1 + crashes
  BY DEF AppliedOncePerLife, Pending
<1>1. OnceInv(f) /\ copies[f] \in Nat /\ crashes \in Nat
  BY RegistryAssumption DEF FollowInv, FollowTypes, SlotInv, RegTypeOK
<1>2. CASE Pending("append", f) = {}
  <2>1. Cardinality(Pending("append", f)) = 0
    BY <1>2, FS_EmptySet
  <2>2. copies[f] <= 1 + crashes
    BY <1>1, <1>2 DEF OnceInv
  <2> QED BY ONLY <1>1, <2>1, <2>2
<1>3. CASE Pending("append", f) # {}
  <2>1. PICK k : Pending("append", f) = {k}
    BY <1>1, <1>3 DEF OnceInv
  <2>2. Cardinality(Pending("append", f)) = 1
    BY <2>1, FS_Singleton
  <2> QED BY <1>1, <1>3, <2>2 DEF OnceInv
<1> QED BY <1>2, <1>3

\* The types: what is appended is bounded by the crashes.
THEOREM FollowUpTypes == Spec => []TypeOK
<1>1. FollowInv => TypeOK
  <2> SUFFICES ASSUME FollowInv PROVE TypeOK
    OBVIOUS
  <2>1. FollowTypes /\ RegTypeOK /\ crashes \in 0 .. MaxCrashes /\ MaxCrashes \in Nat
    BY RegistryAssumption DEF FollowInv, SlotInv, RegTypeOK
  <2>2. ASSUME NEW f \in FollowUp PROVE copies[f] \in 0 .. (1 + MaxCrashes)
    BY <2>1 DEF FollowInv, OnceInv, FollowTypes
  <2>3. copies \in [FollowUp -> 0 .. (1 + MaxCrashes)]
    BY <2>1, <2>2 DEF FollowTypes
  <2> QED BY <2>1, <2>3 DEF FollowTypes, TypeOK
<1> QED
  BY <1>1, FollowInit, FollowStep, PTL DEF Spec

\* A follow-up is appended to the transcript once in a life of the process, however
\* it is promoted, removed, preserved, seeded into the next start and rewritten.
THEOREM InstructionsRunOnce == Spec => []AppliedOncePerLife
  BY FollowInit, FollowStep, OnceIsEnough, PTL DEF Spec
-----------------------------------------------------------------------------
(* What the user was told.                                                   *)

\* The directory stays in place, and a refused start stays counted.
LEMMA CountsGrow ==
    ASSUME FollowInv, [Next]_vars
    PROVE  /\ refusals' = 0 => refusals = 0
           /\ present' = present
<1>0. refusals \in Nat
  BY RegistryAssumption DEF FollowInv, SlotInv, RegTypeOK
<1> USE DEF regVars, counts, dirVars
<1>1. CASE UNCHANGED <<refusals, present>>
  BY <1>1
<1>2. ASSUME NEW r, Launch(r) PROVE UNCHANGED <<refusals, present>>
  BY <1>2 DEF Launch, Register
<1>3. ASSUME NEW f, Enqueue(f) \/ Remove(f) \/ Promote(f) \/ Update(f)
      PROVE  UNCHANGED <<refusals, present>>
  BY <1>3 DEF Enqueue, Remove, Promote, Update
<1>4. CancelRun \/ Die \/ ChainStep => UNCHANGED <<refusals, present>>
  BY DEF CancelRun, Cancel, Die, Crash, ChainStep
<1>5. CASE RegistryOnly
  BY <1>0, <1>5 DEF RegistryOnly, ForceFinish, StatusLands, SweepFindsOrphan, SweepWrites,
         RuntimeRefuses, Resume, WriteStep, Hang, Unhang
<1>6. ASSUME NEW i, LoopStep(i)
      PROVE  /\ refusals' = 0 => refusals = 0
             /\ present' = present
  <2>1. ASSUME NEW mode, Apply(i, mode) PROVE UNCHANGED <<refusals, present>>
    BY <2>1 DEF Apply
  <2>2. CASE Close(i) \/ End(i) \/ Flush(i) \/ EndUnsaved(i) \/ Finish(i) \/ FinishTail(i)
    BY <2>2 DEF Close, CloseTurn, End, EndTurn, Flush, FinallyFlushed, FinallyFails, EndUnsaved, Finish,
       ReleaseSlot, FinishTail, EndTail
  <2>3. CASE StopDropping(i) \/ StopPreserving(i) \/ StopLeaving(i) \/ StopAborted(i)
    BY <2>3 DEF StopDropping, StopPreserving, StopLeaving, StopAborted, StopCancelled, Stop
  <2>4. CASE StartThrows(i)
    BY <1>0, <2>4 DEF StartThrows, ResumeThrows
  <2> QED BY <1>6, <2>1, <2>2, <2>3, <2>4 DEF LoopStep
<1> QED
  BY <1>1, <1>2, <1>3, <1>4, <1>5, <1>6 DEF Next, vars

\* Until a start is refused, what is queued or on disk was not called off.
SettledInv ==
    /\ FollowInv
    /\ present
    /\ refusals = 0 => \A f \in Ids(queue) \cup Ids(file) : fate[f] \notin Settled

LEMMA SettledKeeps ==
    ASSUME SettledInv, [Next]_vars, refusals = 0, NEW g \in FollowUp
    PROVE  /\ fate[g] \in Settled => fate'[g] = fate[g]
           /\ refusals' = 0 /\ g \in Ids(queue') \cup Ids(file') => fate'[g] \notin Settled
<1>0. /\ FollowTypes /\ OnceInv(g) /\ present
      /\ queue \in Seq(FollowUp) /\ Distinct(queue) /\ file \in Seq(FollowUp)
      /\ chain \in Seq(Job) /\ fate \in [FollowUp -> Fate]
      /\ g \in Ids(queue) \cup Ids(file) => fate[g] \notin Settled
  BY DEF SettledInv, FollowInv, FollowTypes
<1> DEFINE Goal == /\ fate[g] \in Settled => fate'[g] = fate[g]
                   /\ refusals' = 0 /\ g \in Ids(queue') \cup Ids(file') => fate'[g] \notin Settled
<1> SUFFICES Goal
  OBVIOUS
<1>1. CASE UNCHANGED followVars
  BY <1>0, <1>1 DEF followVars
<1>2. ASSUME NEW r, Launch(r) PROVE Goal
  <2>1. Ids(file') = Ids(file) \ {r} /\ queue' = file'
    BY <1>0, <1>2, WithoutIs DEF Launch
  <2>2. /\ fate[g] \in Settled => fate'[g] = fate[g]
        /\ g # r => fate'[g] = fate[g]
    BY <1>0, <1>2, CalledOff DEF Launch, Settled
  <2> QED BY <1>0, <2>1, <2>2
<1>3. ASSUME NEW f \in FollowUp, Enqueue(f) PROVE Goal
  <2>1. Ids(queue') = Ids(queue) \cup {f} /\ file' = queue'
    BY <1>0, <1>3, PutLastIds DEF Enqueue
  <2>2. fate[f] = "unsent" /\ fate'[g] = IF g = f THEN "acked" ELSE fate[g]
    BY <1>3 DEF Enqueue, Tell
  <2> QED BY <1>0, <2>1, <2>2 DEF Settled
<1>4. ASSUME NEW f \in FollowUp, Remove(f) \/ Promote(f) \/ Update(f) PROVE Goal
  <2>1. CASE Remove(f)
    <3>1. Ids(queue') = Ids(queue) \ {f} /\ file' = queue'
      BY <1>0, <2>1, MirrorDoes
    <3>2. /\ fate[g] \in Settled => fate'[g] = fate[g]
          /\ g # f => fate'[g] = fate[g]
      BY <1>0, <2>1, CalledOff DEF Remove, Settled
    <3> QED BY <1>0, <3>1, <3>2
  <2>2. CASE Promote(f) \/ Update(f)
    <3>1. Ids(queue') \subseteq Ids(queue) /\ file' = queue'
      BY <1>0, <2>2, MirrorDoes
    <3> QED BY <1>0, <2>2, <3>1 DEF Promote, Update
  <2> QED BY <1>4, <2>1, <2>2
<1>5. CASE CancelRun
  BY <1>0, <1>5, EmptyQueue, CalledOff DEF CancelRun, Settled
<1>6. CASE Die
  <2>1. queue' = <<>> /\ file' = file /\ fate'[g] \in {fate[g], "acked"}
        /\ (fate[g] # "applied" => fate'[g] = fate[g])
    BY <1>6 DEF Die
  <2> QED BY <1>0, <2>1, EmptyQueue DEF Settled
<1>7. CASE ChainStep
  <2>1. queue' = queue /\ fate' = fate /\ Ids(file') \subseteq Ids(file)
    BY <1>0, <1>7, WithoutIs DEF ChainStep, Rewritten
  <2> QED BY <1>0, <2>1
<1>8. ASSUME NEW i, NEW mode, Apply(i, mode) PROVE Goal
  <2>1. PICK ids \in SUBSET Ids(queue) :
             /\ Ids(queue') = Ids(queue) \ ids
             /\ Tell(ids, "applied")
             /\ UNCHANGED file
    BY <1>0, <1>8, ApplyDoes
  <2>2. fate'[g] = IF g \in ids THEN "applied" ELSE fate[g]
    BY <2>1 DEF Tell
  <2> QED BY <1>0, <2>1, <2>2 DEF Settled
<1>9. CASE DropPending
  <2>1. /\ fate[g] \in Settled => fate'[g] = fate[g]
        /\ g \notin Ids(queue) => fate'[g] = fate[g]
    BY <1>0, <1>9, CalledOff DEF DropPending, Settled
  <2>2. queue' = <<>> /\ file' = IF queue = <<>> THEN file ELSE <<>>
    BY <1>9 DEF DropPending
  <2> QED BY <1>0, <2>1, <2>2, EmptyQueue
<1>10. CASE PreservePending
  BY <1>0, <1>10, EmptyQueue DEF PreservePending
<1>11. CASE queue' = <<>> /\ UNCHANGED <<ready, file, chain, copies, fate, exposed, removes>>
  BY <1>0, <1>11, EmptyQueue
<1>12. ASSUME NEW i, StartThrows(i), CallOff(Ids(queue), "dropped") PROVE Goal
  <2>1. refusals' # 0
    BY <1>0, <1>12, RegistryAssumption
    DEF StartThrows, ResumeThrows, SettledInv, FollowInv, SlotInv, RegTypeOK
  <2>2. fate[g] \in Settled => fate'[g] = fate[g]
    BY <1>0, <1>12, CalledOff DEF Settled
  <2> QED BY <2>1, <2>2
<1> HIDE DEF Goal
<1>13. ASSUME NEW i, LoopStep(i) PROVE Goal
  BY <1>1, <1>8, <1>9, <1>10, <1>11, <1>12, <1>13, LoopStepIs
<1> QED
  BY <1>1, <1>2, <1>3, <1>4, <1>5, <1>6, <1>7, <1>13, RegistryOnlyIs DEF Next, vars

LEMMA SettledStep ==
    SettledInv /\ [Next]_vars
        => SettledInv' /\ (refusals = 0 => \A f \in FollowUp : fate[f] \in Settled => fate'[f] = fate[f])
<1> SUFFICES ASSUME SettledInv, [Next]_vars
             PROVE  SettledInv' /\ (refusals = 0 =>
                      \A f \in FollowUp : fate[f] \in Settled => fate'[f] = fate[f])
  OBVIOUS
<1>1. FollowInv' /\ present' /\ (refusals' = 0 => refusals = 0)
  BY FollowStep, CountsGrow DEF SettledInv
<1>2. Ids(queue') \cup Ids(file') \subseteq FollowUp
  BY <1>1, QueueOf DEF FollowInv, FollowTypes
<1> QED BY <1>1, <1>2, SettledKeeps DEF SettledInv

\* What was called off is never applied, acknowledged or called off again, until a
\* start is refused: no queue, in memory or on disk, holds it any more.
THEOREM CalledOffStaysOff == Spec => SettledStaysSettled
<1>1. Init => SettledInv
  <2> SUFFICES ASSUME Init PROVE SettledInv
    OBVIOUS
  <2>1. present /\ queue = <<>> /\ file = <<>>
    BY DEF Init, RegInit
  <2> QED BY <2>1, FollowInit, EmptyQueue DEF SettledInv
<1>2. SettledInv /\ [Next]_vars
        => [refusals = 0 => \A f \in FollowUp : fate[f] \in Settled => fate'[f] = fate[f]]_vars
  BY SettledStep
<1> QED
  BY <1>1, <1>2, SettledStep, PTL DEF Spec, SettledStaysSettled

-----------------------------------------------------------------------------
(* An acknowledged follow-up is not lost.                                    *)

\* Of one follow-up: what is queued is on disk, with no rewrite to come; its rewrite
\* stands behind its append; and what waits to be appended is not acknowledged
\* any more.
Lined(f) ==
    /\ f \in Ids(queue) => f \in Ids(file) /\ Pending("rewrite", f) = {}
    /\ \A j \in Pending("append", f), k \in Pending("rewrite", f) : j < k
    /\ Pending("append", f) # {} => fate[f] # "acked"

\* An acknowledged follow-up is on disk.  While a run may still touch the disk
\* queue from memory it is in memory too, which is why no write of the queue loses
\* it; a cancelled run owes nothing; and no rewrite still to come is about it.  One
\* that was applied is on disk until its message is in the transcript, so that a
\* crash gives it back.
Owed(f) ==
    f \notin exposed =>
        /\ fate[f] = "acked" =>
             /\ f \in Ids(file)
             /\ isActive => /\ ~slot.aborted
                            /\ queue # <<>> \/ ~slot.turnComplete => f \in Ids(queue)
             /\ Pending("rewrite", f) = {}
        /\ fate[f] = "applied" /\ copies[f] = 0 =>
             f \in Ids(file) /\ Pending("append", f) # {}

AckedInv ==
    /\ FollowInv
    /\ \A f \in FollowUp : Lined(f) /\ Owed(f)

\* A loop that closes its turn keeps the slot, and keeps the abort.
LEMMA TurnIsClosed ==
    ASSUME SlotInv, NEW i \in Invoke, phase[i] \in InLoop, slot' = TurnComplete(i)
    PROVE  /\ isActive /\ isActive'
           /\ slot'.aborted = slot.aborted /\ slot'.turnComplete = TRUE
<1>1. isCurrentInvoke(i) /\ isActive /\ slot \in Entry
  BY RegistryAssumption DEF SlotInv, OneLoopPerRun, RegTypeOK, isCurrentInvoke, isActive
<1>2. slot' = [slot EXCEPT !.turnComplete = TRUE]
  BY <1>1 DEF TurnComplete
<1>3. slot' \in Entry /\ slot'.aborted = slot.aborted /\ slot'.turnComplete = TRUE
  BY <1>1, <1>2 DEF Entry
<1>4. slot' # NoEntry
  BY <1>3, NoEntryType
<1> QED BY <1>1, <1>3, <1>4 DEF isActive

\* The places in the chain when a job is done.
LEMMA PendingMoves ==
    ASSUME chain \in Seq(Job), chain # <<>>, chain' = Tail(chain), NEW f, NEW kind
    PROVE  /\ Pending(kind, f) \subseteq Nat \ {0} /\ Pending(kind, f)' \subseteq Nat \ {0}
           /\ 1 \in Pending(kind, f) <=> Head(chain).kind = kind /\ f \in Head(chain).ids
           /\ \A k \in Pending(kind, f)' : k + 1 \in Pending(kind, f)
           /\ \A k \in Pending(kind, f) : k # 1 => k - 1 \in Pending(kind, f)'
<1>1. /\ chain' \in Seq(Job)
      /\ \A k \in Nat : k \in Pending(kind, f)' <=> k > 0 /\ k + 1 \in Pending(kind, f)
      /\ 1 \in Pending(kind, f) <=> Head(chain).kind = kind /\ f \in Head(chain).ids
  BY ChainShrinks
<1>2. Pending(kind, f) \subseteq Nat \ {0} /\ Pending(kind, f)' \subseteq Nat \ {0}
  BY <1>1 DEF Pending
<1>3. ASSUME NEW k \in Pending(kind, f), k # 1 PROVE k - 1 \in Pending(kind, f)'
  <2>1. k - 1 \in Nat /\ k - 1 > 0 /\ (k - 1) + 1 = k
    BY <1>2, <1>3
  <2> QED BY <1>1, <2>1
<1> QED BY <1>1, <1>2, <1>3

\* Where a run starts nothing waits in the chain.
LEMMA ChainIsEmpty ==
    ASSUME FollowInv, NEW r, Launch(r)
    PROVE  chain = <<>>
BY DEF Launch, Register, FollowInv, SlotInv, OneLoopPerRun, Unflushed, isActive, isCurrentInvoke,
       InLoop

\* A step that leaves the chain alone and acknowledges or queues nothing new.
LEMMA StaysLined ==
    ASSUME NEW f, Lined(f), chain' = chain,
           f \in Ids(queue') => f \in Ids(queue) /\ f \in Ids(file'),
           fate'[f] = "acked" => fate[f] = "acked"
    PROVE  Lined(f)'
BY DEF Lined, Pending

LEMMA LinedStep ==
    ASSUME FollowInv, [Next]_vars, NEW g \in FollowUp, Lined(g)
    PROVE  Lined(g)'
<1>0. /\ FollowTypes /\ OnceInv(g)
      /\ queue \in Seq(FollowUp) /\ Distinct(queue) /\ file \in Seq(FollowUp)
      /\ chain \in Seq(Job) /\ fate \in [FollowUp -> Fate]
  BY DEF FollowInv, FollowTypes
<1>1. CASE UNCHANGED followVars
  BY <1>1 DEF followVars, Lined, Pending
<1>2. ASSUME NEW r, Launch(r) PROVE Lined(g)'
  <2>1. chain' = <<>> /\ queue' = file'
    BY <1>2, ChainIsEmpty DEF Launch
  <2> QED BY <2>1 DEF Lined, Pending
<1>3. ASSUME NEW f \in FollowUp, Enqueue(f) PROVE Lined(g)'
  <2>1. /\ queue' = Append(queue, f) /\ file' = queue' /\ fate[f] = "unsent"
        /\ fate'[g] = IF g = f THEN "acked" ELSE fate[g]
        /\ \A kind : Pending(kind, g)' = Pending(kind, g)
    BY <1>3 DEF Enqueue, Tell, Pending
  <2>2. Ids(queue') = Ids(queue) \cup {f}
    BY <1>0, <2>1, PutLastIds
  <2>3. g = f => Pending("rewrite", g) = {} /\ Pending("append", g) = {}
    BY <1>0, <2>1 DEF OnceInv
  <2> QED BY <2>1, <2>2, <2>3 DEF Lined
<1>4. ASSUME NEW f \in FollowUp, Remove(f) \/ Promote(f) \/ Update(f) PROVE Lined(g)'
  <2>1. fate'[g] = "acked" => fate[g] = "acked"
    <3>1. CASE Remove(f)
      BY <1>0, <3>1, CalledOff DEF Remove, Settled
    <3>2. CASE Promote(f) \/ Update(f)
      BY <3>2 DEF Promote, Update
    <3> QED BY <1>4, <3>1, <3>2
  <2>2. Ids(queue') \subseteq Ids(queue) /\ file' = queue' /\ chain' = chain
    BY <1>0, <1>4, MirrorDoes
  <2> QED BY <2>1, <2>2, StaysLined
<1>5. CASE CancelRun
  <2>1. fate'[g] = "acked" => fate[g] = "acked"
    BY <1>0, <1>5, CalledOff DEF CancelRun, Settled
  <2> QED BY <1>5, <2>1, EmptyQueue, StaysLined DEF CancelRun
<1>6. CASE Die
  BY <1>6, EmptyQueue DEF Die, Lined, Pending
<1>7. CASE ChainStep
  <2>1. /\ UNCHANGED <<queue, fate>> /\ chain # <<>> /\ chain' = Tail(chain)
        /\ Head(chain).kind = "append" => UNCHANGED file
        /\ Head(chain).kind # "append" => file' = Rewritten(Head(chain).ids)
    BY <1>7 DEF ChainStep
  <2>2. Head(chain).kind \in {"append", "rewrite"}
    BY <1>0, <2>1, ChainShrinks DEF Job
  <2>3. \A kind : /\ Pending(kind, g)' \subseteq Nat
                  /\ \A k \in Pending(kind, g)' : k + 1 \in Pending(kind, g)
                  /\ 1 \in Pending(kind, g) <=> Head(chain).kind = kind /\ g \in Head(chain).ids
    BY <1>0, <2>1, PendingMoves
  <2>4. g \in Ids(queue') => g \in Ids(file')
    <3>1. Head(chain).kind # "append" => Ids(file') = Ids(file) \ Head(chain).ids
      BY <1>0, <2>1, WithoutIs DEF Rewritten
    <3> QED BY <2>1, <2>2, <2>3, <3>1 DEF Lined
  <2>5. \A kind : Pending(kind, g) = {} => Pending(kind, g)' = {}
    BY <2>3
  <2>6. \A j \in Pending("append", g)', k \in Pending("rewrite", g)' : j < k
    <3>1. SUFFICES ASSUME NEW j \in Pending("append", g)', NEW k \in Pending("rewrite", g)'
                   PROVE  j < k
      OBVIOUS
    <3>2. j \in Nat /\ k \in Nat /\ j + 1 < k + 1
      BY <2>3, <3>1 DEF Lined
    <3> QED BY <3>2
  <2> QED BY <2>1, <2>4, <2>5, <2>6 DEF Lined
<1>8. ASSUME NEW i, NEW mode, Apply(i, mode) PROVE Lined(g)'
  <2>1. PICK ids \in SUBSET Ids(queue) :
             /\ Ids(queue') = Ids(queue) \ ids
             /\ chain' = chain \o ApplyJobs(ids)
             /\ Tell(ids, "applied")
             /\ file' = file
    BY <1>0, <1>8, ApplyDoes
  <2>2. /\ Pending("append", g)' = Pending("append", g) \cup {k \in {Len(chain) + 1} : g \in ids}
        /\ Pending("rewrite", g)' = Pending("rewrite", g) \cup {k \in {Len(chain) + 2} : g \in ids}
    BY <1>0, <2>1, QueueOf, ChainGrows
  <2>3. fate'[g] = IF g \in ids THEN "applied" ELSE fate[g]
    BY <2>1 DEF Tell
  <2>4. CASE g \in ids
    <3>1. Pending("append", g) = {} /\ Pending("rewrite", g) = {}
      BY <1>0, <2>1, <2>4 DEF OnceInv, Lined
    <3>2. Pending("append", g)' = {Len(chain) + 1} /\ Pending("rewrite", g)' = {Len(chain) + 2}
      BY <2>2, <2>4, <3>1
    <3>3. Len(chain) + 1 < Len(chain) + 2
      BY <1>0
    <3> QED BY <2>1, <2>3, <2>4, <3>2, <3>3 DEF Lined
  <2>5. CASE g \notin ids
    BY <2>1, <2>2, <2>3, <2>5 DEF Lined
  <2> QED BY <2>4, <2>5
<1>9. CASE DropPending
  <2>1. fate'[g] = "acked" => fate[g] = "acked"
    BY <1>0, <1>9, CalledOff DEF DropPending, Settled
  <2> QED BY <1>9, <2>1, EmptyQueue, StaysLined DEF DropPending
<1>10. CASE PreservePending
  BY <1>10, EmptyQueue, StaysLined DEF PreservePending
<1>11. CASE queue' = <<>> /\ UNCHANGED <<ready, file, chain, copies, fate, exposed, removes>>
  BY <1>11, EmptyQueue, StaysLined
<1>12. CASE queue' = <<>> /\ UNCHANGED <<ready, file, chain, copies, exposed, removes>>
            /\ CallOff(Ids(queue), "dropped")
  <2>1. fate'[g] = "acked" => fate[g] = "acked"
    BY <1>0, <1>12, CalledOff DEF Settled
  <2> QED BY <1>12, <2>1, EmptyQueue, StaysLined
<1>13. ASSUME NEW i, LoopStep(i) PROVE Lined(g)'
  BY <1>1, <1>8, <1>9, <1>10, <1>11, <1>12, <1>13, LoopStepIs
<1> QED
  BY <1>1, <1>2, <1>3, <1>4, <1>5, <1>6, <1>7, <1>13, RegistryOnlyIs DEF Next, vars

\* What dropping or preserving the queue does to one that is owed.
LEMMA DropOwes ==
    ASSUME FollowInv, NEW g \in FollowUp, Owed(g), DropPending, g \notin exposed'
    PROVE  /\ g \notin exposed /\ UNCHANGED <<chain, copies>> /\ queue' = <<>>
           /\ fate'[g] = "acked" => fate[g] = "acked" /\ queue = <<>> /\ file' = file
           /\ fate'[g] = "applied" => fate[g] = "applied"
           /\ Pending("append", g) # {} => file' = file
<1>1. /\ fate \in [FollowUp -> Fate] /\ queue \in Seq(FollowUp) /\ chain \in Seq(Job)
      /\ ~isActive => queue = <<>>
  BY DEF FollowInv, FollowTypes
<1>2. /\ fate'[g] \in {fate[g], "dropped"}
      /\ fate'[g] = "acked" => g \notin Ids(queue)
  BY <1>1, CalledOff DEF DropPending, Settled
<1>3. g \notin exposed /\ (queue # <<>> => g \notin Unappended)
  BY DEF DropPending, Overwrites
<1>4. Pending("append", g) # {} => queue = <<>>
  BY <1>1, <1>3, UnappendedIs
<1>5. fate'[g] = "acked" => queue = <<>>
  BY <1>1, <1>2, <1>3 DEF Owed
<1> QED BY <1>2, <1>3, <1>4, <1>5 DEF DropPending

LEMMA PreserveOwes ==
    ASSUME FollowInv, NEW g \in FollowUp, Owed(g), PreservePending, g \notin exposed'
    PROVE  /\ g \notin exposed /\ UNCHANGED <<chain, copies, fate>> /\ queue' = <<>>
           /\ fate[g] = "acked" => g \in Ids(file')
           /\ Pending("append", g) # {} => file' = file
<1>1. chain \in Seq(Job) /\ (~isActive => queue = <<>>)
  BY DEF FollowInv, FollowTypes
<1>2. g \notin exposed /\ (queue # <<>> => g \notin Unappended)
  BY DEF PreservePending, Overwrites
<1>3. Pending("append", g) # {} => queue = <<>>
  BY <1>1, <1>2, UnappendedIs
<1>4. fate[g] = "acked" => g \in Ids(file')
  BY <1>1, <1>2 DEF PreservePending, Owed
<1> QED BY <1>2, <1>3, <1>4 DEF PreservePending

LEMMA OwedStep ==
    ASSUME FollowInv, [Next]_vars, NEW g \in FollowUp, Lined(g), Owed(g)
    PROVE  Owed(g)'
<1>0. /\ FollowTypes /\ SlotInv /\ OnceInv(g)
      /\ queue \in Seq(FollowUp) /\ Distinct(queue) /\ file \in Seq(FollowUp)
      /\ chain \in Seq(Job) /\ fate \in [FollowUp -> Fate] /\ copies \in [FollowUp -> Nat]
  BY DEF FollowInv, FollowTypes
<1>00. g \in Unappended <=> Pending("append", g) # {}
  BY <1>0, UnappendedIs
<1>1. CASE UNCHANGED <<slot, followVars>>
  BY <1>1 DEF followVars, Owed, Pending, isActive
<1>2. ASSUME NEW r, Launch(r) PROVE Owed(g)'
  <2>1. /\ Ids(file') = Ids(file) \ {r} /\ queue' = file' /\ chain' = chain
        /\ UNCHANGED <<copies, exposed>>
    BY <1>0, <1>2, WithoutIs DEF Launch
  <2>2. /\ fate'[g] = "acked" => fate[g] = "acked" /\ g # r
        /\ fate'[g] = "applied" => fate[g] = "applied"
    <3>1. CASE r = NoResend
      BY <1>2, <3>1, FollowUpAssumption DEF Launch
    <3>2. CASE r # NoResend
      <4>1. CallOff({r}, "resent")
        BY <1>2, <3>2 DEF Launch
      <4> QED BY <1>0, <4>1, CalledOff DEF Settled
    <3> QED BY <3>1, <3>2
  <2>3. slot' = NewEntry(invokes + 1)
    BY <1>2 DEF Launch, Register
  <2>4. Pending("append", g) = {}
    BY <1>2, ChainIsEmpty, NothingPending
  <2> QED BY <2>1, <2>2, <2>3, <2>4 DEF Owed, Pending, NewEntry
<1>3. ASSUME NEW f \in FollowUp, Enqueue(f) PROVE Owed(g)'
  <2>1. /\ isActive /\ ~slot.aborted /\ ~slot.turnComplete /\ UNCHANGED <<slot, chain, copies>>
        /\ queue' = Append(queue, f) /\ file' = queue' /\ fate[f] = "unsent"
        /\ fate'[g] = IF g = f THEN "acked" ELSE fate[g]
        /\ exposed' = exposed \cup Unappended \cup {}
    BY <1>3 DEF Enqueue, Tell, regVars, slotVars, Overwrites
  <2>2. Ids(queue') = Ids(queue) \cup {f}
    BY <1>0, <2>1, PutLastIds
  <2>3. Pending("rewrite", g)' = Pending("rewrite", g) /\ isActive'
    BY <2>1 DEF Pending, isActive
  <2>4. g = f => Pending("rewrite", g) = {}
    BY <1>0, <2>1 DEF OnceInv
  <2> QED BY <1>00, <2>1, <2>2, <2>3, <2>4 DEF Owed
<1>4. ASSUME NEW f \in FollowUp, Remove(f) \/ Promote(f) \/ Update(f) PROVE Owed(g)'
  <2>1. /\ isActive /\ ~slot.aborted /\ UNCHANGED <<slot, chain, copies>>
        /\ exposed \cup Unappended \subseteq exposed'
    BY <1>4 DEF Remove, Promote, Update, regVars, slotVars, Overwrites
  <2>2. isActive' /\ \A kind : Pending(kind, g)' = Pending(kind, g)
    BY <2>1 DEF isActive, Pending
  <2>3. CASE Remove(f)
    <3>1. Ids(queue') = Ids(queue) \ {f} /\ file' = queue'
      BY <1>0, <2>3, MirrorDoes
    <3>2. /\ fate'[g] = "acked" => fate[g] = "acked" /\ g # f
          /\ fate'[g] = "applied" => fate[g] = "applied"
      BY <1>0, <2>3, CalledOff DEF Remove, Settled
    <3>3. slot.turnComplete => Ids(file) \subseteq exposed'
      BY <2>3 DEF Remove, Overwrites
    <3> QED BY <1>00, <2>1, <2>2, <3>1, <3>2, <3>3 DEF Owed
  <2>4. CASE ~Remove(f)
    <3>1. UNCHANGED fate /\ f \in Ids(queue)
      BY <1>4, <2>4 DEF Promote, Update
    <3>2. Ids(queue') = Ids(queue) /\ file' = queue' /\ queue # <<>>
      BY <1>0, <1>4, <2>4, <3>1, MirrorDoes, EmptyQueue
    <3> QED BY <1>00, <2>1, <2>2, <3>1, <3>2 DEF Owed
  <2> QED BY <2>3, <2>4
<1>5. CASE CancelRun
  <2>1. /\ CallOff(Ids(queue) \cup Ids(file), "cancelled")
        /\ UNCHANGED <<exposed, copies>>
    BY <1>5 DEF CancelRun
  <2>2. /\ fate'[g] \in {fate[g], "cancelled"}
        /\ g \in Ids(queue) \cup Ids(file) => fate'[g] \in Settled
    BY <1>0, <2>1, CalledOff DEF Settled
  <2> QED BY <2>1, <2>2 DEF Owed, Settled
<1>6. CASE Die
  <2>1. /\ UNCHANGED <<file, copies, exposed>> /\ chain' = <<>> /\ slot' = NoEntry
        /\ fate'[g] = IF fate[g] = "applied" /\ copies[g] = 0 THEN "acked" ELSE fate[g]
    BY <1>6 DEF Die, Crash
  <2>2. ~isActive' /\ Pending("rewrite", g)' = {}
    BY <2>1 DEF isActive, Pending
  <2> QED BY <2>1, <2>2 DEF Owed
<1>7. CASE ChainStep
  <2>1. /\ UNCHANGED <<slot, queue, fate>> /\ chain # <<>> /\ chain' = Tail(chain)
        /\ Head(chain).kind = "append" =>
             /\ UNCHANGED file
             /\ exposed' = exposed \ Head(chain).ids
             /\ copies'[g] = IF g \in Head(chain).ids THEN copies[g] + 1 ELSE copies[g]
        /\ Head(chain).kind # "append" =>
             file' = Rewritten(Head(chain).ids) /\ UNCHANGED <<copies, exposed>>
    BY <1>0, <1>7 DEF ChainStep, regVars, slotVars
  <2>2. Head(chain).kind \in {"append", "rewrite"} /\ (isActive' <=> isActive)
    BY <1>0, <2>1, ChainShrinks DEF Job, isActive
  <2>3. \A kind : /\ Pending(kind, g) \subseteq Nat \ {0} /\ Pending(kind, g)' \subseteq Nat
                  /\ 1 \in Pending(kind, g) <=> Head(chain).kind = kind /\ g \in Head(chain).ids
                  /\ \A k \in Pending(kind, g)' : k + 1 \in Pending(kind, g)
                  /\ \A k \in Pending(kind, g) : k # 1 => k - 1 \in Pending(kind, g)'
    BY <1>0, <2>1, PendingMoves
  <2>4. Pending("rewrite", g) = {} => Pending("rewrite", g)' = {}
    BY <2>3
  <2>5. 1 \notin Pending("append", g) /\ Pending("append", g) # {} => Pending("append", g)' # {}
    BY <2>3
  <2>6. CASE Head(chain).kind = "append" /\ g \in Head(chain).ids
    <3>1. fate[g] # "acked"
      BY <2>3, <2>6 DEF Lined
    <3>2. copies'[g] # 0
      BY <1>0, <2>1, <2>6
    <3> QED BY <2>1, <3>1, <3>2 DEF Owed
  <2>7. CASE Head(chain).kind = "append" /\ g \notin Head(chain).ids
    <3>1. 1 \notin Pending("append", g)
      BY <2>3, <2>7
    <3> QED BY <2>1, <2>2, <2>4, <2>5, <2>7, <3>1 DEF Owed
  <2>8. CASE Head(chain).kind = "rewrite"
    <3>1. Ids(file') = Ids(file) \ Head(chain).ids
      BY <1>0, <2>1, <2>8, WithoutIs DEF Rewritten
    <3>2. 1 \notin Pending("append", g)
      BY <2>3, <2>8
    <3>3. Pending("append", g) # {} => g \notin Head(chain).ids
      <4>1. SUFFICES ASSUME NEW j \in Pending("append", g), g \in Head(chain).ids PROVE FALSE
        OBVIOUS
      <4>2. j \in Nat /\ j # 0 /\ j < 1
        BY <2>3, <2>8, <4>1 DEF Lined
      <4> QED BY <4>2
    <3>4. Pending("rewrite", g) = {} => g \notin Head(chain).ids
      BY <2>3, <2>8
    <3> QED BY <2>1, <2>2, <2>4, <2>5, <2>8, <3>1, <3>2, <3>3, <3>4 DEF Owed
  <2> QED BY <2>2, <2>6, <2>7, <2>8
<1>8. ASSUME NEW i \in Invoke, LoopStep(i) PROVE Owed(g)'
  <2>1. ASSUME NEW mode, Apply(i, mode) PROVE Owed(g)'
    <3>1. PICK ids \in SUBSET Ids(queue) :
             /\ Ids(queue') = Ids(queue) \ ids
             /\ chain' = chain \o ApplyJobs(ids)
             /\ Tell(ids, "applied") /\ isActive /\ queue # <<>>
             /\ UNCHANGED <<slot, file, copies, exposed>>
      BY <1>0, <2>1, ApplyDoes DEF regVars, slotVars, isCurrentInvoke
    <3>2. fate'[g] = IF g \in ids THEN "applied" ELSE fate[g]
      BY <3>1 DEF Tell
    <3>3. /\ Pending("append", g)' = Pending("append", g) \cup {k \in {Len(chain) + 1} : g \in ids}
          /\ Pending("rewrite", g)' = Pending("rewrite", g) \cup {k \in {Len(chain) + 2} : g \in ids}
      BY <1>0, <3>1, QueueOf, ChainGrows
    <3>4. CASE g \in ids
      <4>1. g \in Ids(file)
        BY <3>1, <3>4 DEF Lined
      <4>2. Pending("append", g)' # {}
        BY <3>3, <3>4
      <4> QED BY <3>1, <3>2, <3>4, <4>1, <4>2 DEF Owed
    <3>5. CASE g \notin ids
      <4>1. \A kind \in {"append", "rewrite"} : Pending(kind, g)' = Pending(kind, g)
        BY <3>3, <3>5
      <4> QED BY <3>1, <3>2, <3>5, <4>1 DEF Owed, isActive
    <3> QED BY <3>4, <3>5
  <2>2. CASE Close(i)
    <3>1. phase[i] \in InLoop /\ slot' = TurnComplete(i) /\ queue = <<>> /\ UNCHANGED followVars
      BY <2>2 DEF Close, CloseTurn, InLoop
    <3> QED BY <1>0, <3>1, TurnIsClosed DEF Owed, followVars, Pending
  <2>3. CASE End(i) \/ Flush(i)
    BY <1>1, <2>3 DEF End, EndTurn, Flush, FinallyFlushed, FinallyFails
  <2>4. CASE EndUnsaved(i)
    BY <2>4, DropOwes DEF EndUnsaved, EndTurn, Owed, isActive, Pending
  <2>5. ASSUME NEW s, Stop(i, s)
        PROVE  /\ isActive /\ isActive'
               /\ slot'.aborted = slot.aborted /\ slot'.turnComplete = TRUE
    BY <1>0, <2>5, TurnIsClosed DEF Stop, InLoop
  <2>6. CASE StopDropping(i)
    BY <2>5, <2>6, DropOwes DEF StopDropping, Owed, Pending
  <2>7. CASE StopPreserving(i)
    BY <2>5, <2>7, PreserveOwes DEF StopPreserving, Owed, Pending
  <2>8. CASE StopLeaving(i)
    BY <2>5, <2>8 DEF StopLeaving, Owed, followVars, Pending
  <2>9. CASE StopAborted(i)
    BY <2>9 DEF StopAborted, StopCancelled, isCurrentInvoke, Owed, Pending
  <2>10. CASE StartThrows(i)
    <3>1. phase[i] \in InLoop /\ slot' = TurnComplete(i) /\ queue' = <<>>
          /\ UNCHANGED <<file, chain, copies, exposed>> /\ CallOff(Ids(queue), "dropped")
      BY <2>10 DEF StartThrows, ResumeThrows, InLoop
    <3>2. fate'[g] \in {"acked", "applied"} => fate[g] = fate'[g]
      BY <1>0, <3>1, CalledOff DEF Settled
    <3> QED BY <1>0, <3>1, <3>2, TurnIsClosed DEF Owed, Pending
  <2>11. CASE Finish(i)
    <3>1. ~isActive'
      BY <1>0, <2>11
      DEF Finish, ReleaseSlot, ClearRunAbort, SlotInv, OneLoopPerRun, InLoop, isActive, isCurrentInvoke
    <3> QED BY <2>11, <3>1, DropOwes DEF Finish, Owed, Pending
  <2>12. CASE FinishTail(i)
    <3>1. UNCHANGED <<file, chain, fate, copies, exposed>>
      BY <2>12 DEF FinishTail
    <3>2. CASE isCurrentInvoke(i)
      <4>1. ~isActive'
        BY <2>12, <3>2 DEF FinishTail, EndTail, ClearRunAbort, isActive
      <4> QED BY <3>1, <4>1 DEF Owed, Pending
    <3>3. CASE ~isCurrentInvoke(i)
      BY <2>12, <3>1, <3>3 DEF FinishTail, EndTail, ClearRunAbort, Owed, Pending, isActive
    <3> QED BY <3>2, <3>3
  <2> QED
    BY <1>8, <2>1, <2>2, <2>3, <2>4, <2>6, <2>7, <2>8, <2>9, <2>10, <2>11, <2>12 DEF LoopStep
<1>9. CASE RegistryOnly
  <2>1. UNCHANGED slot
    BY <1>9 DEF RegistryOnly, ForceFinish, StatusLands, SweepFindsOrphan, SweepWrites, slotVars,
         RuntimeRefuses, Resume, WriteStep, Hang, Unhang
  <2> QED BY <1>1, <1>9, <2>1 DEF RegistryOnly
<1>10. UNCHANGED vars => UNCHANGED <<slot, followVars>>
  BY DEF vars, regVars, slotVars
<1> QED
  BY <1>1, <1>2, <1>3, <1>4, <1>5, <1>6, <1>7, <1>8, <1>9, <1>10 DEF Next

\* A follow-up the user was told is queued is found in memory or on disk, through
\* every interleaving of starts, cancels, stops, applies, crashes and the append
\* chain.  Two writes of the queue are excepted, of the follow-ups they leave out
\* only (Overwrites): one that finds their message still in the append chain, and
\* that of a chip removed after the turn.
THEOREM AcknowledgedIsKept == Spec => []AckedFollowUpSurvives
<1>1. Init => AckedInv
  <2>1. ASSUME Init, NEW g \in FollowUp PROVE Lined(g) /\ Owed(g)
    BY <2>1, NothingPending, EmptyQueue DEF Init, Lined, Owed
  <2> QED BY <2>1, FollowInit DEF AckedInv
<1>2. AckedInv /\ [Next]_vars => AckedInv'
  <2> SUFFICES ASSUME AckedInv, [Next]_vars PROVE AckedInv'
    OBVIOUS
  <2>1. FollowInv /\ FollowInv'
    BY FollowStep DEF AckedInv
  <2>2. ASSUME NEW g \in FollowUp PROVE Lined(g)' /\ Owed(g)'
    BY <2>1, <2>2, LinedStep, OwedStep DEF AckedInv
  <2> QED BY <2>1, <2>2 DEF AckedInv
<1>3. AckedInv => AckedFollowUpSurvives
  BY DEF AckedInv, Owed, AckedFollowUpSurvives
<1> QED
  BY <1>1, <1>2, <1>3, PTL DEF Spec
=============================================================================

------------------------- MODULE MessageLog_proofs -------------------------
(***************************************************************************)
(* What holds of the transcript of a run, for any number of invokes, of     *)
(* blocks and messages of a turn, of crashes, appends that fail, and        *)
(* rewrites.                                                                *)
(*                                                                          *)
(* The readers of the archives and of the hot file are recursive functions, *)
(* so what they return for files of any length is found by climbing the     *)
(* lengths (Climb); the first part says which rows a read gives.  Then come *)
(* four invariants, each resting on the ones before it: WriterInv (where    *)
(* the writer is, what a torn line still owes, and that what an append lost *)
(* was told), NumberInv (the numbers on disk are those handed out),         *)
(* OrderInv (they never fall along the archives and the hot file, and a     *)
(* plan to rewrite keeps that), and LandedInv (whatever landed is in what a *)
(* read gives, or in the plan that is about to replace it).                 *)
(***************************************************************************)
EXTENDS MessageLog, SequenceTheorems, FiniteSetTheorems, WellFoundedInduction, TLAPS

-----------------------------------------------------------------------------
(* Numbers and sequences.                                                    *)

\* A set of numbers that is not empty has a least member.
LEMMA Least ==
    ASSUME NEW T \in SUBSET Nat, T # {}
    PROVE  \E x \in T : \A y \in T : x <= y
<1>1. PICK x \in T : \A y \in T : ~(<<y, x>> \in OpToRel(<, Nat))
  BY WFMin, NatLessThanWellFounded
<1>2. ASSUME NEW y \in T PROVE x <= y
  <2>1. ~(<<y, x>> \in {ss \in Nat \X Nat : ss[1] < ss[2]})
    BY <1>1, Zenon DEF OpToRel
  <2> QED BY <2>1
<1> QED BY <1>2

\* A set that holds 0 and every successor holds every number.
LEMMA Climb ==
    ASSUME NEW T, 0 \in T, \A n \in Nat : n \in T => n + 1 \in T
    PROVE  \A n \in Nat : n \in T
<1>1. SUFFICES ASSUME Nat \ T # {} PROVE FALSE
  OBVIOUS
<1>2. PICK x \in Nat \ T : \A y \in Nat \ T : x <= y
  BY <1>1, Least
<1>3. x \in Nat /\ x # 0 /\ x - 1 \in Nat /\ x - 1 < x /\ (x - 1) + 1 = x
  OBVIOUS
<1>4. x - 1 \in T
  BY <1>2, <1>3
<1> QED BY <1>2, <1>3, <1>4

\* The rows of a sequence of lines stand in order; those of s come before those of t.
Ordered(s) == \A m, n \in DOMAIN s : m < n /\ s[m] # Junk /\ s[n] # Junk => s[m] < s[n]
Below(s, t) == \A m \in DOMAIN s, n \in DOMAIN t : s[m] # Junk /\ t[n] # Junk => s[m] < t[n]
Rising(s) == \A m, n \in DOMAIN s : m < n => s[m] < s[n]

\* Two sequences put together have the lines of both, in order if each has and they are apart.
LEMMA Joined ==
    ASSUME NEW S, NEW s \in Seq(S), NEW t \in Seq(S)
    PROVE  /\ s \o t \in Seq(S) /\ Len(s \o t) = Len(s) + Len(t)
           /\ \A k \in 1 .. Len(s) : (s \o t)[k] = s[k]
           /\ \A k \in 1 .. Len(t) : (s \o t)[Len(s) + k] = t[k]
           /\ ToSet(s \o t) = ToSet(s) \cup ToSet(t)
<1> DEFINE r == s \o t
<1>1. /\ r \in Seq(S) /\ Len(r) = Len(s) + Len(t) /\ Len(s) \in Nat /\ Len(t) \in Nat
      /\ DOMAIN r = 1 .. Len(s) + Len(t) /\ DOMAIN s = 1 .. Len(s) /\ DOMAIN t = 1 .. Len(t)
  OBVIOUS
<1>2. \A k \in 1 .. Len(s) + Len(t) : r[k] = IF k <= Len(s) THEN s[k] ELSE t[k - Len(s)]
  BY ConcatProperties
<1> HIDE DEF r
<1>3. \A k \in 1 .. Len(s) : k \in DOMAIN r /\ r[k] = s[k]
  BY <1>1, <1>2
<1>4. ASSUME NEW k \in 1 .. Len(t) PROVE Len(s) + k \in DOMAIN r /\ r[Len(s) + k] = t[k]
  <2>1. /\ Len(s) + k \in 1 .. Len(s) + Len(t) /\ ~(Len(s) + k <= Len(s))
        /\ (Len(s) + k) - Len(s) = k
    BY <1>1
  <2> QED BY <1>1, <1>2, <2>1
<1>5. ASSUME NEW k \in DOMAIN r PROVE r[k] \in ToSet(s) \cup ToSet(t)
  <2>1. CASE k <= Len(s)
    BY <1>1, <1>3, <2>1 DEF ToSet
  <2>2. CASE ~(k <= Len(s))
    <3>1. k - Len(s) \in 1 .. Len(t) /\ Len(s) + (k - Len(s)) = k
      BY <1>1, <2>2
    <3> QED BY <1>1, <1>4, <3>1 DEF ToSet
  <2> QED BY <2>1, <2>2
<1>6. ToSet(r) = ToSet(s) \cup ToSet(t)
  <2>1. ToSet(r) \subseteq ToSet(s) \cup ToSet(t)
    BY <1>5 DEF ToSet
  <2>2. ToSet(s) \subseteq ToSet(r)
    BY <1>1, <1>3 DEF ToSet
  <2>3. ToSet(t) \subseteq ToSet(r)
    BY <1>1, <1>4 DEF ToSet
  <2> QED BY <2>1, <2>2, <2>3
<1> QED BY <1>1, <1>3, <1>4, <1>6 DEF r

LEMMA JoinedInOrder ==
    ASSUME NEW s \in Seq(Line), NEW t \in Seq(Line), Ordered(s), Ordered(t), Below(s, t)
    PROVE  Ordered(s \o t)
<1> DEFINE r == s \o t
<1>1. /\ Len(s) \in Nat /\ Len(t) \in Nat
      /\ DOMAIN r = 1 .. Len(s) + Len(t) /\ DOMAIN s = 1 .. Len(s) /\ DOMAIN t = 1 .. Len(t)
  OBVIOUS
<1>2. \A k \in 1 .. Len(s) + Len(t) : r[k] = IF k <= Len(s) THEN s[k] ELSE t[k - Len(s)]
  BY ConcatProperties
<1> HIDE DEF r
<1>3. ASSUME NEW m \in DOMAIN r, NEW n \in DOMAIN r, m < n, r[m] # Junk, r[n] # Junk
      PROVE  r[m] < r[n]
  <2>1. CASE n <= Len(s)
    <3>1. m \in DOMAIN s /\ n \in DOMAIN s /\ r[m] = s[m] /\ r[n] = s[n]
      BY <1>1, <1>2, <1>3, <2>1
    <3> QED BY ONLY Ordered(s), <1>3, <3>1 DEF Ordered
  <2>2. CASE m <= Len(s) /\ ~(n <= Len(s))
    <3>1. m \in DOMAIN s /\ n - Len(s) \in DOMAIN t /\ r[m] = s[m] /\ r[n] = t[n - Len(s)]
      BY <1>1, <1>2, <2>2
    <3> QED BY ONLY Below(s, t), <1>3, <3>1 DEF Below
  <2>3. CASE ~(m <= Len(s))
    <3>1. /\ m - Len(s) \in DOMAIN t /\ n - Len(s) \in DOMAIN t /\ m - Len(s) < n - Len(s)
          /\ r[m] = t[m - Len(s)] /\ r[n] = t[n - Len(s)]
      BY <1>1, <1>2, <1>3, <2>3
    <3> QED BY ONLY Ordered(t), <1>3, <3>1 DEF Ordered
  <2> QED BY <1>1, <1>3, <2>1, <2>2, <2>3
<1> QED BY <1>3 DEF Ordered, r

\* What is below is told from the rows alone.
LEMMA BelowRows ==
    ASSUME NEW s, NEW t
    PROVE  Below(s, t) <=> \A a \in ToSet(s) \ {Junk}, b \in ToSet(t) \ {Junk} : a < b
BY DEF Below, ToSet
-----------------------------------------------------------------------------
(* What the model's readers get.                                             *)

\* Kept: the elements at those positions, in their order; all of them when no position is left out.
LEMMA KeptIs ==
    ASSUME NEW S, NEW q \in Seq(S), NEW which
    PROVE  /\ Kept(q, which) \in Seq(S)
           /\ ToSet(Kept(q, which)) = {q[k] : k \in which \cap DOMAIN q}
           /\ \A m, n \in DOMAIN Kept(q, which) : m < n =>
                \E j, k \in which \cap DOMAIN q :
                    j < k /\ Kept(q, which)[m] = q[j] /\ Kept(q, which)[n] = q[k]
           /\ DOMAIN q \subseteq which => Kept(q, which) = q
<1> DEFINE step(f, n) == IF n = 0 THEN <<>>
                         ELSE IF n \in which THEN Append(f[n - 1], q[n]) ELSE f[n - 1]
           Is(f, m) == f = [n \in 0 .. m |-> step(f, n)]
           exists == {m \in Nat : \E f : Is(f, m)}
<1>1. \A m \in Nat : m \in exists
  <2>1. 0 \in exists
    <3> DEFINE g == [n \in 0 .. 0 |-> <<>>]
    <3>1. Is(g, 0)
      OBVIOUS
    <3> QED BY <3>1
  <2>2. ASSUME NEW m \in Nat, m \in exists PROVE m + 1 \in exists
    <3>1. PICK f : Is(f, m)
      BY <2>2
    <3> DEFINE g == [n \in 0 .. m + 1 |-> IF n = m + 1 THEN step(f, n) ELSE f[n]]
    <3>2. ASSUME NEW n \in 0 .. m + 1 PROVE g[n] = step(g, n)
      <4>1. CASE n = m + 1
        BY <4>1
      <4>2. CASE n \in 0 .. m
        <5>1. f[n] = step(f, n)
          BY <3>1, <4>2
        <5> QED BY <4>2, <5>1
      <4> QED BY ONLY m \in Nat, n \in 0 .. m + 1, <4>1, <4>2
    <3>3. Is(g, m + 1)
      <4> HIDE DEF step
      <4> QED BY <3>2
    <3>4. \E f1 : Is(f1, m + 1)
      <4> HIDE DEF Is, g
      <4> QED BY <3>3
    <3> HIDE DEF Is
    <3> QED BY <3>4
  <2> HIDE DEF exists
  <2> QED BY <2>1, <2>2, Climb
<1> DEFINE L == Len(q)
           upTo == CHOOSE f : Is(f, L)
<1>2. L \in Nat /\ DOMAIN q = 1 .. L
  OBVIOUS
<1>3. Is(upTo, L)
  <2> HIDE DEF Is
  <2>1. L \in exists
    <3> HIDE DEF exists, L
    <3> QED BY ONLY <1>1, <1>2
  <2>2. \E f : Is(f, L)
    BY ONLY <2>1 DEF exists
  <2> QED BY ONLY <2>2 DEF upTo
<1>4. Kept(q, which) = upTo[L]
  BY DEF Kept
<1> HIDE DEF upTo, exists, L
<1>5. /\ upTo[0] = <<>>
      /\ \A n \in 1 .. L : upTo[n] = IF n \in which THEN Append(upTo[n - 1], q[n]) ELSE upTo[n - 1]
  <2>1. \A n \in 0 .. L : upTo[n] = step(upTo, n)
    <3> HIDE DEF step
    <3> QED BY <1>3
  <2>2. upTo[0] = step(upTo, 0) /\ \A n \in 1 .. L : upTo[n] = step(upTo, n)
    <3> HIDE DEF step
    <3> QED BY <1>2, <2>1
  <2> QED BY <2>2
<1> HIDE DEF Is, step
<1> DEFINE Of(r, n) == \A j \in DOMAIN r : \E k \in which \cap 1 .. n : r[j] = q[k]
           All(r, n) == \A k \in which \cap 1 .. n : \E j \in DOMAIN r : r[j] = q[k]
           InTurn(r, n) == \A j, m \in DOMAIN r : j < m =>
                             \E h, k \in which \cap 1 .. n : h < k /\ r[j] = q[h] /\ r[m] = q[k]
           Full(r, n) == 1 .. n \subseteq which =>
                             Len(r) = n /\ \A k \in 1 .. n : r[k] = q[k]
           Fine(n) == upTo[n] \in Seq(S) /\ Of(upTo[n], n) /\ All(upTo[n], n)
                      /\ InTurn(upTo[n], n) /\ Full(upTo[n], n)
           good == {n \in Nat : n <= L => Fine(n)}
<1>6. \A n \in Nat : n \in good
  <2>1. Fine(0)
    BY <1>5
  <2>2. ASSUME NEW n \in Nat, Fine(n), n + 1 <= L
        PROVE  Fine(n + 1)
    <3> DEFINE a == upTo[n]
               b == upTo[n + 1]
    <3>1. a \in Seq(S) /\ Of(a, n) /\ All(a, n) /\ InTurn(a, n) /\ Full(a, n)
      BY <2>2
    <3>2. n + 1 \in 1 .. L /\ q[n + 1] \in S
      BY <1>2, <2>2
    <3>3. b = IF n + 1 \in which THEN Append(a, q[n + 1]) ELSE a
      BY <1>5, <3>2
    <3> HIDE DEF a, b
    <3>4. CASE n + 1 \notin which
      <4>1. b = a
        BY <3>3, <3>4
      <4>2. \A k \in which : k \in 1 .. n + 1 <=> k \in 1 .. n
        BY ONLY <3>4, n \in Nat
      <4>3. which \cap 1 .. n + 1 = which \cap 1 .. n
        BY ONLY <4>2
      <4>4. ~(1 .. n + 1 \subseteq which)
        BY ONLY <3>4, n \in Nat
      <4>5. Of(b, n + 1)
        BY ONLY <3>1, <4>1, <4>3
      <4>6. All(b, n + 1)
        BY ONLY <3>1, <4>1, <4>3
      <4>7. ASSUME NEW j \in DOMAIN b, NEW m \in DOMAIN b, j < m
            PROVE  \E h, k \in which \cap 1 .. n + 1 : h < k /\ b[j] = q[h] /\ b[m] = q[k]
        <5>1. PICK h \in which \cap 1 .. n, k \in which \cap 1 .. n :
                  h < k /\ a[j] = q[h] /\ a[m] = q[k]
          BY <3>1, <4>1, <4>7
        <5>2. h \in which \cap 1 .. n + 1 /\ k \in which \cap 1 .. n + 1
          BY ONLY <4>3, <5>1
        <5> QED BY ONLY <4>1, <5>1, <5>2
      <4> QED BY <3>1, <4>1, <4>4, <4>5, <4>6, <4>7 DEF b
    <3>5. CASE n + 1 \in which
      <4>1. /\ b \in Seq(S) /\ Len(b) = Len(a) + 1 /\ b[Len(a) + 1] = q[n + 1]
            /\ \A j \in 1 .. Len(a) : b[j] = a[j]
            /\ DOMAIN b = 1 .. Len(a) + 1 /\ DOMAIN a = 1 .. Len(a) /\ Len(a) \in Nat
        BY <3>1, <3>2, <3>3, <3>5, AppendProperties
      <4>2. \A j \in DOMAIN b : j \in DOMAIN a \/ j = Len(a) + 1
        BY ONLY <4>1
      <4>3. ASSUME NEW j \in DOMAIN b PROVE \E k \in which \cap 1 .. n + 1 : b[j] = q[k]
        <5>1. CASE j \in DOMAIN a
          <6>1. PICK k \in which \cap 1 .. n : a[j] = q[k]
            BY <3>1, <5>1
          <6>2. k \in which \cap 1 .. n + 1 /\ b[j] = q[k]
            BY ONLY <4>1, <5>1, <6>1, n \in Nat
          <6> QED BY ONLY <6>2
        <5>2. CASE j = Len(a) + 1
          <6>1. n + 1 \in which \cap 1 .. n + 1 /\ b[j] = q[n + 1]
            BY ONLY <3>5, <4>1, <5>2, n \in Nat
          <6> QED BY ONLY <6>1
        <5> QED BY ONLY <4>2, <4>3, <5>1, <5>2
      <4>4. ASSUME NEW k \in which \cap 1 .. n + 1 PROVE \E j \in DOMAIN b : b[j] = q[k]
        <5>1. CASE k \in 1 .. n
          <6>1. PICK j \in DOMAIN a : a[j] = q[k]
            BY <3>1, <5>1
          <6>2. j \in DOMAIN b /\ b[j] = q[k]
            BY ONLY <4>1, <6>1
          <6> QED BY ONLY <6>2
        <5>2. CASE k = n + 1
          <6>1. Len(a) + 1 \in DOMAIN b /\ b[Len(a) + 1] = q[k]
            BY ONLY <4>1, <5>2
          <6> QED BY ONLY <6>1
        <5> QED BY ONLY n \in Nat, k \in which \cap 1 .. n + 1, <5>1, <5>2
      <4>5. ASSUME NEW j \in DOMAIN b, NEW m \in DOMAIN b, j < m
            PROVE  \E h, k \in which \cap 1 .. n + 1 : h < k /\ b[j] = q[h] /\ b[m] = q[k]
        <5>1. j \in DOMAIN a
          BY ONLY <4>1, <4>5
        <5>2. CASE m \in DOMAIN a
          <6>1. PICK h \in which \cap 1 .. n, k \in which \cap 1 .. n :
                    h < k /\ a[j] = q[h] /\ a[m] = q[k]
            BY <3>1, <4>5, <5>1, <5>2
          <6>2. b[j] = a[j] /\ b[m] = a[m] /\ h \in 1 .. n + 1 /\ k \in 1 .. n + 1
            BY ONLY <4>1, <5>1, <5>2, <6>1, n \in Nat
          <6> QED BY <6>1, <6>2
        <5>3. CASE m = Len(a) + 1
          <6>1. PICK h \in which \cap 1 .. n : a[j] = q[h]
            BY <3>1, <5>1
          <6>2. b[j] = a[j] /\ h < n + 1 /\ h \in 1 .. n + 1 /\ n + 1 \in 1 .. n + 1
            BY ONLY <4>1, <5>1, <6>1, n \in Nat
          <6>3. b[m] = q[n + 1]
            BY ONLY <4>1, <5>3
          <6> QED BY ONLY <3>5, <6>1, <6>2, <6>3
        <5> QED BY <4>2, <5>2, <5>3
      <4>6. ASSUME 1 .. n + 1 \subseteq which
            PROVE  Len(b) = n + 1 /\ \A k \in 1 .. n + 1 : b[k] = q[k]
        <5>1. 1 .. n \subseteq which
          BY ONLY <4>6, n \in Nat
        <5>2. Len(a) = n /\ \A k \in 1 .. n : a[k] = q[k]
          BY ONLY <3>1, <5>1
        <5>3. Len(b) = n + 1 /\ b[n + 1] = q[n + 1] /\ \A k \in 1 .. n : b[k] = q[k]
          BY ONLY <4>1, <5>2
        <5> QED BY ONLY <5>3, n \in Nat
      <4> QED BY <4>1, <4>3, <4>4, <4>5, <4>6 DEF b
    <3> QED BY <3>4, <3>5 DEF b
  <2>3. 0 \in good /\ \A n \in Nat : n \in good => n + 1 \in good
    <3> HIDE DEF Fine
    <3> QED BY <1>2, <2>1, <2>2
  <2> HIDE DEF good
  <2> QED BY <2>3, Climb
<1>7. Fine(L)
  <2> HIDE DEF Fine
  <2> QED BY <1>2, <1>6
<1> DEFINE r == upTo[L]
<1>8. r \in Seq(S) /\ Of(r, L) /\ All(r, L) /\ InTurn(r, L) /\ Full(r, L)
  BY <1>7
<1> HIDE DEF r, Fine, good
<1>9. ToSet(r) = {q[k] : k \in which \cap DOMAIN q}
  BY <1>2, <1>8 DEF ToSet
<1>10. DOMAIN q \subseteq which => r = q
  <2>1. SUFFICES ASSUME DOMAIN q \subseteq which PROVE r = q
    OBVIOUS
  <2>2. Len(r) = Len(q) /\ \A k \in 1 .. Len(r) : r[k] = q[k]
    BY <1>2, <1>8, <2>1 DEF L
  <2> QED BY <1>8, <2>2, SeqEqual
<1>11. Kept(q, which) = r
  BY <1>4 DEF r
<1> QED BY <1>2, <1>8, <1>9, <1>10, <1>11

\* The rows of each archive stand in order, before those of later ones; and before those of s.
InOrder(fs) == /\ \A n \in DOMAIN fs : Ordered(fs[n])
               /\ \A j, n \in DOMAIN fs : j < n => Below(fs[j], fs[n])
Above(fs, s) == \A n \in DOMAIN fs : Below(fs[n], s)

\* Stitched: the lines of the archives that were read and of the live file, in order if they are.
LEMMA StitchedIs ==
    ASSUME archives \in Seq(Seq(Line)), live \in Seq(Line), NEW read
    PROVE  /\ Stitched(read) \in Seq(Line)
           /\ ToSet(Stitched(read)) =
                ToSet(live) \cup UNION {ToSet(archives[n]) : n \in read \cap DOMAIN archives}
           /\ InOrder(archives) /\ Above(archives, live) /\ Ordered(live) => Ordered(Stitched(read))
           /\ archives = <<>> => Stitched(read) = live
<1> DEFINE fs == archives
           step(f, n) == IF n = 0 THEN <<>>
                         ELSE IF n \in read THEN f[n - 1] \o fs[n] ELSE f[n - 1]
           Is(f, m) == f = [n \in 0 .. m |-> step(f, n)]
           exists == {m \in Nat : \E f : Is(f, m)}
<1>1. \A m \in Nat : m \in exists
  <2>1. 0 \in exists
    <3> DEFINE g == [n \in 0 .. 0 |-> <<>>]
    <3>1. Is(g, 0)
      OBVIOUS
    <3> QED BY <3>1
  <2>2. ASSUME NEW m \in Nat, m \in exists PROVE m + 1 \in exists
    <3>1. PICK f : Is(f, m)
      BY <2>2
    <3> DEFINE g == [n \in 0 .. m + 1 |-> IF n = m + 1 THEN step(f, n) ELSE f[n]]
    <3>2. ASSUME NEW n \in 0 .. m + 1 PROVE g[n] = step(g, n)
      <4>1. CASE n = m + 1
        BY <4>1
      <4>2. CASE n \in 0 .. m
        <5>1. f[n] = step(f, n)
          BY <3>1, <4>2
        <5> QED BY <4>2, <5>1
      <4> QED BY ONLY m \in Nat, n \in 0 .. m + 1, <4>1, <4>2
    <3>3. Is(g, m + 1)
      <4> HIDE DEF step
      <4> QED BY <3>2
    <3>4. \E f1 : Is(f1, m + 1)
      <4> HIDE DEF Is, g
      <4> QED BY <3>3
    <3> HIDE DEF Is
    <3> QED BY <3>4
  <2> HIDE DEF exists
  <2> QED BY <2>1, <2>2, Climb
<1> DEFINE L == Len(fs)
           upTo == CHOOSE f : Is(f, L)
<1>2. L \in Nat /\ DOMAIN fs = 1 .. L /\ \A n \in 1 .. L : fs[n] \in Seq(Line)
  OBVIOUS
<1>3. Is(upTo, L)
  <2> HIDE DEF Is
  <2>1. L \in exists
    <3> HIDE DEF exists, L
    <3> QED BY ONLY <1>1, <1>2
  <2>2. \E f : Is(f, L)
    BY ONLY <2>1 DEF exists
  <2> QED BY ONLY <2>2 DEF upTo
<1>4. Stitched(read) = upTo[L] \o live
  BY DEF Stitched
<1> HIDE DEF upTo, exists, L
<1>5. /\ upTo[0] = <<>>
      /\ \A n \in 1 .. L : upTo[n] = IF n \in read THEN upTo[n - 1] \o fs[n] ELSE upTo[n - 1]
  <2>1. \A n \in 0 .. L : upTo[n] = step(upTo, n)
    <3> HIDE DEF step
    <3> QED BY <1>3
  <2>2. upTo[0] = step(upTo, 0) /\ \A n \in 1 .. L : upTo[n] = step(upTo, n)
    <3> HIDE DEF step
    <3> QED BY <1>2, <2>1
  <2> QED BY <2>2
<1> HIDE DEF Is, step
<1> DEFINE Lines(n) == UNION {ToSet(fs[k]) : k \in read \cap 1 .. n}
           Fine(n) == /\ upTo[n] \in Seq(Line)
                      /\ ToSet(upTo[n]) = Lines(n)
                      /\ InOrder(fs) => Ordered(upTo[n])
           good == {n \in Nat : n <= L => Fine(n)}
<1> HIDE DEF fs
\* What is apart from every archive is apart from the lines of some.
<1>6. ASSUME NEW n \in 0 .. L, NEW s, Fine(n), \A k \in 1 .. n : Below(fs[k], s)
      PROVE  Below(upTo[n], s)
  <2>1. ASSUME NEW a \in ToSet(upTo[n]) \ {Junk}, NEW b \in ToSet(s) \ {Junk} PROVE a < b
    <3>1. PICK k \in 1 .. n : a \in ToSet(fs[k])
      BY <1>6, <2>1
    <3>2. Below(fs[k], s)
      BY <1>6
    <3> QED BY ONLY <2>1, <3>1, <3>2, BelowRows
  <2> QED BY ONLY <2>1, BelowRows
<1>7. \A n \in Nat : n \in good
  <2>1. Fine(0)
    <3>1. <<>> \in Seq(Line) /\ ToSet(<<>>) = {} /\ Ordered(<<>>)
      BY DEF ToSet, Ordered
    <3>2. Lines(0) = {}
      OBVIOUS
    <3> QED BY <1>5, <3>1, <3>2
  <2>2. ASSUME NEW n \in Nat, Fine(n), n + 1 <= L
        PROVE  Fine(n + 1)
    <3>0. n \in 0 .. L /\ n + 1 \in 1 .. L /\ (n + 1) - 1 = n
      BY ONLY <1>2, <2>2, n \in Nat
    <3>1. n \in 0 .. L /\ n + 1 \in 1 .. L /\ fs[n + 1] \in Seq(Line)
      BY ONLY <1>2, <3>0
    <3>2. upTo[n + 1] = IF n + 1 \in read THEN upTo[n] \o fs[n + 1] ELSE upTo[n]
      BY ONLY <1>5, <3>0
    <3>3. upTo[n] \in Seq(Line) /\ ToSet(upTo[n]) = Lines(n) /\ (InOrder(fs) => Ordered(upTo[n]))
      BY <2>2
    <3>4. CASE n + 1 \notin read
      <4>1. \A k \in read : k \in 1 .. n + 1 <=> k \in 1 .. n
        BY ONLY <3>4, n \in Nat
      <4>2. read \cap 1 .. n + 1 = read \cap 1 .. n
        BY ONLY <4>1
      <4>3. Lines(n + 1) = Lines(n)
        BY <4>2
      <4> HIDE DEF Lines
      <4> QED BY <3>2, <3>3, <3>4, <4>3
    <3>5. CASE n + 1 \in read
      <4>1. /\ upTo[n + 1] \in Seq(Line)
            /\ ToSet(upTo[n + 1]) = Lines(n) \cup ToSet(fs[n + 1])
        <5> HIDE DEF Lines
        <5>1. upTo[n + 1] = upTo[n] \o fs[n + 1]
          BY ONLY <3>2, <3>5
        <5>2. /\ upTo[n] \o fs[n + 1] \in Seq(Line)
              /\ ToSet(upTo[n] \o fs[n + 1]) = ToSet(upTo[n]) \cup ToSet(fs[n + 1])
          <6>1. upTo[n] \in Seq(Line) /\ fs[n + 1] \in Seq(Line)
            BY ONLY <3>1, <3>3
          <6>2. \A s, t \in Seq(Line) :
                    s \o t \in Seq(Line) /\ ToSet(s \o t) = ToSet(s) \cup ToSet(t)
            BY Joined
          <6> QED BY ONLY <6>1, <6>2
        <5> QED BY ONLY <3>3, <5>1, <5>2
      <4>2. read \cap 1 .. n + 1 = (read \cap 1 .. n) \cup {n + 1}
        BY ONLY <3>5, n \in Nat
      <4>3. Lines(n + 1) = Lines(n) \cup ToSet(fs[n + 1])
        BY <4>2
      <4>4. ASSUME InOrder(fs) PROVE Ordered(upTo[n + 1])
        <5>0. n + 1 \in DOMAIN fs /\ \A k \in 1 .. n : k \in DOMAIN fs /\ k < n + 1
          BY ONLY <1>2, <3>0
        <5>1. Ordered(fs[n + 1]) /\ \A k \in 1 .. n : Below(fs[k], fs[n + 1])
          BY ONLY <4>4, <5>0 DEF InOrder
        <5>2. Below(upTo[n], fs[n + 1])
          BY <1>6, <2>2, <3>1, <5>1
        <5> QED BY ONLY <3>1, <3>2, <3>3, <3>5, <4>4, <5>1, <5>2, JoinedInOrder
      <4> QED BY <4>1, <4>3, <4>4
    <3> QED BY <3>4, <3>5
  <2>3. 0 \in good /\ \A n \in Nat : n \in good => n + 1 \in good
    <3> HIDE DEF Fine
    <3> QED BY <1>2, <2>1, <2>2
  <2> HIDE DEF good
  <2> QED BY <2>3, Climb
<1>8. Fine(L) /\ L \in 0 .. L
  <2> HIDE DEF Fine
  <2> QED BY <1>2, <1>7
<1>9. /\ Stitched(read) \in Seq(Line)
      /\ ToSet(Stitched(read)) = Lines(L) \cup ToSet(live)
  <2> HIDE DEF Lines
  <2> QED BY <1>4, <1>8, Joined
<1>10. ASSUME InOrder(fs), Above(fs, live), Ordered(live) PROVE Ordered(Stitched(read))
  <2>1. Below(upTo[L], live)
    <3>1. \A k \in 1 .. L : Below(fs[k], live)
      BY <1>2, <1>10 DEF Above
    <3> HIDE DEF Fine
    <3> QED BY <1>6, <1>8, <3>1
  <2>2. upTo[L] \in Seq(Line) /\ Ordered(upTo[L])
    BY <1>8, <1>10
  <2> QED BY ONLY live \in Seq(Line), <1>4, <1>10, <2>1, <2>2, JoinedInOrder
<1>11. ASSUME fs = <<>> PROVE Stitched(read) = live
  <2>1. L = 0
    BY <1>11 DEF L
  <2>2. Stitched(read) = <<>> \o live
    BY <1>4, <1>5, <2>1
  <2>3. <<>> \o live = live
    BY ConcatEmptySeq
  <2> QED BY ONLY <2>2, <2>3
<1> QED BY <1>2, <1>9, <1>10, <1>11 DEF fs

\* Parsed leaves the rows, in their order.
LEMMA ParsedIs ==
    ASSUME NEW s \in Seq(Line)
    PROVE  /\ Parsed(s) \in Seq(Row)
           /\ ToSet(Parsed(s)) = ToSet(s) \ {Junk}
           /\ Ordered(s) => Rising(Parsed(s))
           /\ s \in Seq(Row) => Parsed(s) = s
<1> DEFINE which == {n \in DOMAIN s : s[n] # Junk}
           p == Kept(s, which)
<1>0. Row \subseteq Line /\ Junk \notin Row /\ \A l \in Line : l # Junk => l \in Row
  BY DEF Row, Line, Junk
<1>1. /\ p \in Seq(Line) /\ ToSet(p) = {s[k] : k \in which \cap DOMAIN s}
      /\ \A m, n \in DOMAIN p : m < n =>
            \E j, k \in which \cap DOMAIN s : j < k /\ p[m] = s[j] /\ p[n] = s[k]
      /\ DOMAIN s \subseteq which => p = s
  <2> HIDE DEF which
  <2> QED BY KeptIs
<1>2. Parsed(s) = p
  BY DEF Parsed
<1> HIDE DEF p
<1>3. ToSet(p) = ToSet(s) \ {Junk}
  BY <1>1 DEF ToSet
<1>4. p \in Seq(Row)
  <2>1. \A n \in 1 .. Len(p) : p[n] \in Line /\ p[n] # Junk
    BY <1>1, <1>3 DEF ToSet
  <2>2. \A n \in 1 .. Len(p) : p[n] \in Row
    BY <1>0, <2>1
  <2> QED BY <1>1, <2>2
<1>5. ASSUME Ordered(s), NEW m \in DOMAIN p, NEW n \in DOMAIN p, m < n
      PROVE  p[m] < p[n]
  <2>1. PICK j \in which \cap DOMAIN s, k \in which \cap DOMAIN s :
            j < k /\ p[m] = s[j] /\ p[n] = s[k]
    BY <1>1, <1>5
  <2> QED BY <1>5, <2>1 DEF Ordered
<1>6. ASSUME s \in Seq(Row) PROVE p = s
  <2>1. \A n \in DOMAIN s : s[n] # Junk
    BY <1>0, <1>6
  <2> QED BY <1>1, <2>1
<1> QED BY <1>2, <1>3, <1>4, <1>5, <1>6 DEF Rising

\* A stitched reader gets the rows of the files it read, in order if the files are.
LEMMA RowsAre ==
    ASSUME archives \in Seq(Seq(Line)), live \in Seq(Line), NEW read
    PROVE  /\ Rows(read) \in Seq(Row)
           /\ ToSet(Rows(read)) =
                (ToSet(live) \cup UNION {ToSet(archives[n]) : n \in read \cap DOMAIN archives})
                    \ {Junk}
           /\ InOrder(archives) /\ Above(archives, live) /\ Ordered(live) => Rising(Rows(read))
           /\ archives = <<>> /\ live \in Seq(Row) => Rows(read) = live
<1>1. /\ Stitched(read) \in Seq(Line)
      /\ ToSet(Stitched(read)) =
            ToSet(live) \cup UNION {ToSet(archives[n]) : n \in read \cap DOMAIN archives}
      /\ InOrder(archives) /\ Above(archives, live) /\ Ordered(live) => Ordered(Stitched(read))
      /\ archives = <<>> => Stitched(read) = live
  BY StitchedIs
<1>2. /\ Parsed(Stitched(read)) \in Seq(Row)
      /\ ToSet(Parsed(Stitched(read))) = ToSet(Stitched(read)) \ {Junk}
      /\ Ordered(Stitched(read)) => Rising(Parsed(Stitched(read)))
      /\ Stitched(read) \in Seq(Row) => Parsed(Stitched(read)) = Stitched(read)
  BY <1>1, ParsedIs
<1> QED BY <1>1, <1>2 DEF Rows
-----------------------------------------------------------------------------
(* The types.                                                                *)

USE DEF diskVars, queueVars, runVars, ghosts, counts

LEMMA BoundsAreNumbers ==
    /\ MaxRows \in Nat /\ MaxInvokes \in Nat /\ MaxCrashes \in Nat /\ MaxFaults \in Nat
    /\ MaxUnlinks \in Nat /\ MaxSkips \in Nat /\ MaxReads \in Nat /\ Attempts \in Nat \ {0}
    /\ MaxLive \in Nat /\ KeepLive \in Nat \ {0} /\ KeepLive <= MaxLive
    /\ Junk \in Line /\ Row \subseteq Line /\ Row \subseteq Nat \ {0} /\ Line \subseteq Nat
BY MessageLogAssumption DEF Row, Line, Junk

\* A job that stands somewhere.
LEMMA JobIs ==
    /\ Idle \in Job
    /\ \A j \in Job : [Idle EXCEPT !.at = "append", !.attempt = j.attempt] \in Job
    /\ \A j \in Job, h, t \in Seq(Line) :
          [j EXCEPT !.at = "archive", !.head = h, !.tail = t] \in Job
    /\ \A j \in Job : [j EXCEPT !.at = "live"] \in Job /\ [j EXCEPT !.at = "append"] \in Job
    /\ \A j \in Job : j.attempt < Attempts => [Idle EXCEPT !.attempt = j.attempt + 1] \in Job
<1>1. <<>> \in Seq(Line) /\ 1 \in 1 .. Attempts
  BY BoundsAreNumbers
<1>2. Idle \in Job
  BY <1>1 DEF Idle, Job
<1>3. ASSUME NEW j \in Job PROVE [Idle EXCEPT !.at = "append", !.attempt = j.attempt] \in Job
  BY <1>1 DEF Idle, Job
<1>4. ASSUME NEW j \in Job, NEW h \in Seq(Line), NEW t \in Seq(Line)
      PROVE  [j EXCEPT !.at = "archive", !.head = h, !.tail = t] \in Job
  BY DEF Job
<1>5. ASSUME NEW j \in Job
      PROVE  [j EXCEPT !.at = "live"] \in Job /\ [j EXCEPT !.at = "append"] \in Job
  BY DEF Job
<1>6. ASSUME NEW j \in Job, j.attempt < Attempts
      PROVE  [Idle EXCEPT !.attempt = j.attempt + 1] \in Job
  <2>1. j.attempt + 1 \in 1 .. Attempts
    BY <1>6, BoundsAreNumbers DEF Job
  <2> QED BY <1>1, <2>1 DEF Idle, Job
<1> QED BY <1>2, <1>3, <1>4, <1>5, <1>6

\* A line that is written, or a part of it, leaves lines.
LEMMA WriteTypes ==
    ASSUME live \in Seq(Line), NEW line \in Line, NEW ended \in BOOLEAN, Write(line, ended)
    PROVE  live' \in Seq(Line) /\ torn' \in BOOLEAN
<1>1. CASE torn /\ checked /\ live # <<>>
  <2>1. Len(live) \in 1 .. Len(live)
    BY <1>1, EmptySeq
  <2>2. [live EXCEPT ![Len(live)] = Junk] \in Seq(Line)
    BY <2>1, BoundsAreNumbers, ExceptSeq
  <2> QED BY <1>1, <2>2 DEF Write
<1>2. CASE torn /\ checked /\ live = <<>>
  <2>1. [live EXCEPT ![Len(live)] = Junk] = live
    BY <1>2
  <2> QED BY <1>2, <2>1 DEF Write
<1>3. CASE ~(torn /\ checked)
  BY <1>3, AppendProperties DEF Write
<1> QED BY <1>1, <1>2, <1>3

LEMMA LeavePartTypes ==
    ASSUME live \in Seq(Line), torn \in BOOLEAN, LeavePart
    PROVE  live' \in Seq(Line) /\ torn' \in BOOLEAN
BY WriteTypes, BoundsAreNumbers DEF LeavePart

\* The row being appended.
LEMMA HeadIs ==
    ASSUME chain \in Seq(Row), MayAppend
    PROVE  Head(chain) \in Row /\ Head(chain) \in Line /\ Tail(chain) \in Seq(Row) /\ chain # <<>>
BY HeadTailProperties, BoundsAreNumbers DEF MayAppend, Appending

\* The two halves a rotation writes.
LEMMA HalvesAre ==
    ASSUME NEW s \in Seq(Line), NEW cut \in 1 .. Len(s)
    PROVE  /\ SubSeq(s, 1, cut) \in Seq(Line) /\ SubSeq(s, cut + 1, Len(s)) \in Seq(Line)
           /\ SubSeq(s, 1, cut) \o SubSeq(s, cut + 1, Len(s)) = s
<1>1. Len(s) \in Nat /\ DOMAIN s = 1 .. Len(s) /\ \A i \in 1 .. Len(s) : s[i] \in Line
  OBVIOUS
<1>2. SubSeq(s, 1, cut) \in Seq(Line)
  BY <1>1, SubSeqProperties
<1>3. SubSeq(s, cut + 1, Len(s)) \in Seq(Line)
  BY <1>1, SubSeqProperties
<1>4. SubSeq(s, 1, cut) \o SubSeq(s, cut + 1, Len(s)) = SubSeq(s, 1, Len(s))
  <2>1. 1 \in 1 .. Len(s) + 1 /\ cut \in 1 - 1 .. Len(s) /\ Len(s) \in cut .. Len(s)
    BY ONLY <1>1, cut \in 1 .. Len(s)
  <2> QED BY <2>1, ConcatAdjacentSubSeq
<1> QED BY <1>2, <1>3, <1>4, SubSeqFull

LEMMA AppendTypes ==
    ASSUME TypeOK, AppendStep
    PROVE  TypeOK'
<1>0. live \in Seq(Line) /\ torn \in BOOLEAN /\ chain \in Seq(Row) /\ job \in Job
      /\ archives \in Seq(Seq(Line)) /\ faults \in 0 .. MaxFaults /\ unlinks \in 0 .. MaxUnlinks
      /\ job.head \in Seq(Line) /\ job.tail \in Seq(Line)
  BY DEF TypeOK, Job
<1>1. CASE BeginRotation
  <2> DEFINE cut == Len(live) - KeepLive
             h == SubSeq(live, 1, cut)
             t == SubSeq(live, cut + 1, Len(live))
  <2>1. cut \in 1 .. Len(live)
    BY <1>0, <1>1, BoundsAreNumbers, SMTT(30) DEF BeginRotation, NeedsRotation
  <2>2. h \in Seq(Line) /\ t \in Seq(Line)
    <3> HIDE DEF cut
    <3> QED BY <1>0, <2>1, HalvesAre
  <2>3. job' = [job EXCEPT !.at = "archive", !.head = h, !.tail = t]
    BY <1>1 DEF BeginRotation
  <2> HIDE DEF h, t
  <2>4. job' \in Job
    BY <1>0, <2>2, <2>3, JobIs
  <2> QED BY <1>1, <2>4 DEF BeginRotation, TypeOK
<1>2. CASE ArchiveSwapped
  <2>1. archives' \in Seq(Seq(Line))
    BY <1>0, <1>2, AppendProperties DEF ArchiveSwapped
  <2>2. job' \in Job
    BY <1>0, <1>2, JobIs DEF ArchiveSwapped
  <2> QED BY <1>2, <2>1, <2>2 DEF ArchiveSwapped, TypeOK
<1>3. CASE ArchiveSwapFails
  <2>1. faults' \in 0 .. MaxFaults
    BY <1>0, <1>3, BoundsAreNumbers DEF ArchiveSwapFails, Fault
  <2>2. job' \in Job
    BY <1>0, <1>3, JobIs DEF ArchiveSwapFails, PutOff
  <2> QED BY <1>3, <2>1, <2>2 DEF ArchiveSwapFails, PutOff, TypeOK
<1>4. CASE LiveSwapped
  <2>0. job' = [Idle EXCEPT !.at = "append", !.attempt = job.attempt]
    BY <1>4 DEF LiveSwapped
  <2>1. job' \in Job /\ live' \in Seq(Line)
    BY <1>0, <1>4, <2>0, JobIs DEF LiveSwapped
  <2> QED BY <1>4, <2>1 DEF LiveSwapped, TypeOK
<1>5. CASE LiveSwapFails
  <2>0. faults' \in 0 .. MaxFaults
    BY <1>0, <1>5, BoundsAreNumbers DEF LiveSwapFails, Fault
  <2>1. job' \in Job /\ faults' \in 0 .. MaxFaults
    BY <1>0, <1>5, <2>0, JobIs DEF LiveSwapFails, PutOff
  <2>2. Front(archives) \in Seq(Seq(Line))
    BY <1>0, SubSeqProperties DEF Front
  <2>3. archives' \in Seq(Seq(Line)) /\ unlinks' \in 0 .. MaxUnlinks /\ halved' \in BOOLEAN
    <3>1. CASE archives' = Front(archives) /\ UNCHANGED <<unlinks, halved>>
      BY <2>2, <3>1 DEF TypeOK
    <3>2. CASE unlinks < MaxUnlinks /\ unlinks' = unlinks + 1 /\ halved' = TRUE /\ UNCHANGED archives
      BY <1>0, <3>2, BoundsAreNumbers
    <3> QED BY <1>5, <3>1, <3>2 DEF LiveSwapFails
  <2> QED BY <1>5, <2>1, <2>3 DEF LiveSwapFails, PutOff, TypeOK
<1>6. CASE RotationUnblocked
  BY <1>6 DEF RotationUnblocked, TypeOK
<1>7. CASE Appended
  <2>1. Head(chain) \in Row /\ Tail(chain) \in Seq(Row) /\ live' \in Seq(Line) /\ torn' \in BOOLEAN
    BY <1>0, <1>7, HeadIs, WriteTypes DEF Appended
  <2>2. job' \in Job /\ chain' \in Seq(Row) /\ landed' \subseteq Row /\ checked' \in BOOLEAN
    BY <1>7, <2>1, JobIs DEF Appended, TypeOK
  <2> QED BY <1>7, <2>1, <2>2 DEF Appended, TypeOK
<1>8. CASE AppendRetried
  <2>1. live' \in Seq(Line) /\ torn' \in BOOLEAN /\ job' \in Job
    BY <1>0, <1>8, LeavePartTypes, JobIs DEF AppendRetried
  <2>2. faults' \in 0 .. MaxFaults
    <3>1. faults < MaxFaults /\ faults' = faults + 1
      BY <1>8 DEF AppendRetried, Fault
    <3> QED BY ONLY <1>0, <3>1, BoundsAreNumbers
  <2>3. /\ checked' = FALSE
        /\ UNCHANGED <<archives, chain, blocked, failures, notices, runVars, ghosts,
                       invokes, crashes, unlinks, skips, reads>>
    BY <1>8 DEF AppendRetried
  <2> QED BY <2>1, <2>2, <2>3 DEF TypeOK
<1>9. CASE AppendFails
  <2>1. /\ Head(chain) \in Row /\ Tail(chain) \in Seq(Row)
        /\ live' \in Seq(Line) /\ torn' \in BOOLEAN
    BY <1>0, <1>9, HeadIs, LeavePartTypes DEF AppendFails
  <2>2. faults' \in 0 .. MaxFaults
    BY <1>0, <1>9, BoundsAreNumbers DEF AppendFails, Fault
  <2> QED BY <1>9, <2>1, <2>2, JobIs DEF AppendFails, TypeOK
<1>10. CASE TailUnread
  <2>1. skips < MaxSkips /\ skips' = skips + 1
    BY <1>10 DEF TailUnread
  <2>2. skips \in 0 .. MaxSkips
    BY DEF TypeOK
  <2>3. skips' \in 0 .. MaxSkips
    BY ONLY <2>1, <2>2, BoundsAreNumbers
  <2>4. job' \in Job
    BY <1>10, JobIs DEF TailUnread, TypeOK
  <2> QED BY <1>10, <2>3, <2>4 DEF TailUnread, TypeOK
<1> QED BY <1>1, <1>2, <1>3, <1>4, <1>5, <1>6, <1>7, <1>8, <1>9, <1>10 DEF AppendStep

\* The rows a caller writes back.
LEMMA EditTypes ==
    ASSUME TypeOK, NEW rows \in Seq(Row), NEW gone \in SUBSET Row, NEW new \in SUBSET Row,
           NEW next \in RunState, Edit(rows, gone, new, next)
    PROVE  plan' \in Plan /\ run' \in RunState
BY DEF Edit, Plan, RunState

LEMMA RowsTypes ==
    ASSUME TypeOK, NEW read
    PROVE  Rows(read) \in Seq(Row) /\ ToSet(Rows(read)) \subseteq Row
<1>1. Rows(read) \in Seq(Row)
  BY RowsAre DEF TypeOK
<1> QED BY <1>1 DEF ToSet

\* A new row.
LEMMA NewRow ==
    ASSUME TypeOK, ticket < MaxRows
    PROVE  ticket + 1 \in Row /\ ticket + 1 \in 0 .. MaxRows /\ <<ticket + 1>> \in Seq(Row)
<1>1. ticket + 1 \in Row /\ ticket + 1 \in 0 .. MaxRows
  BY BoundsAreNumbers DEF TypeOK, Row
<1> QED BY <1>1

LEMMA RemoveArchivesTypes ==
    ASSUME TypeOK, NEW kept \in SUBSET DOMAIN archives, RemoveArchives(kept)
    PROVE  /\ archives' \in Seq(Seq(Line)) /\ unlinks' \in 0 .. MaxUnlinks /\ halved' \in BOOLEAN
           /\ Cardinality(kept) \in Nat /\ (kept = {} <=> Cardinality(kept) = 0)
<1>1. IsFiniteSet(kept)
  <2>1. IsFiniteSet(1 .. Len(archives))
    BY FS_Interval DEF TypeOK
  <2>2. DOMAIN archives = 1 .. Len(archives)
    BY DEF TypeOK
  <2> QED BY <2>1, <2>2, FS_Subset
<1>2. Cardinality(kept) \in Nat /\ (kept = {} <=> Cardinality(kept) = 0)
  BY <1>1, FS_CardinalityType, FS_EmptySet
<1>3. Kept(archives, kept) \in Seq(Seq(Line))
  BY KeptIs DEF TypeOK
<1>4. unlinks' \in 0 .. MaxUnlinks
  BY <1>2, BoundsAreNumbers DEF RemoveArchives, TypeOK
<1> QED BY <1>2, <1>3, <1>4 DEF RemoveArchives, TypeOK

\* A sequence is one of whatever its elements are.
LEMMA LinesOf ==
    ASSUME NEW S, NEW T, NEW s \in Seq(S), \A i \in 1 .. Len(s) : s[i] \in T
    PROVE  s \in Seq(T)
OBVIOUS

\* New rows take the next tickets, in order.
LEMMA NewRows ==
    ASSUME TypeOK, NEW b \in {<<>>, <<ticket + 1>>, <<ticket + 1, ticket + 2>>},
           ticket + Len(b) <= MaxRows
    PROVE  /\ b \in Seq(Row) /\ Rising(b) /\ Cardinality(ToSet(b)) = Len(b)
           /\ \A r \in ToSet(b) : ticket < r /\ r <= ticket + Len(b)
           /\ ticket + Len(b) \in 0 .. MaxRows /\ ticket <= ticket + Len(b)
<1>1. ticket \in Nat /\ MaxRows \in Nat
  BY BoundsAreNumbers DEF TypeOK
<1>2. CASE b = <<>>
  <2>1. Len(b) = 0 /\ ToSet(b) = {} /\ Rising(b) /\ b \in Seq(Row)
    BY <1>2 DEF ToSet, Rising
  <2> QED BY <1>1, <2>1, FS_EmptySet
<1>3. CASE b = <<ticket + 1>>
  <2>1. Len(b) = 1 /\ DOMAIN b = {1} /\ b[1] = ticket + 1
    BY <1>3
  <2>2. ticket + 1 \in Row
    BY <1>1, <2>1 DEF Row
  <2>3. ToSet(b) = {ticket + 1} /\ Rising(b) /\ b \in Seq(Row)
    BY <1>3, <2>1, <2>2 DEF ToSet, Rising
  <2>4. Cardinality({ticket + 1}) = 1
    BY FS_Singleton
  <2> QED BY <1>1, <2>1, <2>3, <2>4
<1>4. CASE b = <<ticket + 1, ticket + 2>>
  <2>1. Len(b) = 2 /\ DOMAIN b = {1, 2} /\ b[1] = ticket + 1 /\ b[2] = ticket + 2
    BY <1>4
  <2>2. ticket + 1 \in Row /\ ticket + 2 \in Row
    BY <1>1, <2>1 DEF Row
  <2>3. ToSet(b) = {ticket + 1, ticket + 2}
    BY <2>1 DEF ToSet
  <2>4. Rising(b)
    BY <1>1, <2>1 DEF Rising
  <2>5. b \in Seq(Row)
    BY <1>4, <2>2
  <2>6. Cardinality({ticket + 1, ticket + 2}) = 2
    <3>1. ticket + 2 \notin {ticket + 1} /\ {ticket + 1, ticket + 2} = {ticket + 1} \cup {ticket + 2}
      BY <1>1
    <3>2. IsFiniteSet({ticket + 1}) /\ Cardinality({ticket + 1}) = 1
      BY FS_Singleton
    <3>3. Cardinality({ticket + 1} \cup {ticket + 2}) = 1 + 1
      BY <3>1, <3>2, FS_AddElement
    <3> QED BY <3>1, <3>3
  <2> QED BY <1>1, <2>1, <2>3, <2>4, <2>5, <2>6
<1> QED BY <1>2, <1>3, <1>4

\* What a resume writes back: the transcript, then new rows in the order of their tickets.
LEMMA ResumeDoes ==
    ASSUME TypeOK, LoadToResume
    PROVE  \E answer, sent \in Seq(Row) :
             /\ chain' = answer
             /\ turn' = [from |-> Len(AllRows \o answer), new |-> ToSet(sent)]
             /\ plan' = [rows |-> AllRows \o answer \o sent, gone |-> {},
                         new |-> ToSet(answer \o sent), next |-> "ready"]
             /\ ticket' \in 0 .. MaxRows /\ ticket <= ticket'
             /\ Rising(answer \o sent)
             /\ \A r \in ToSet(answer \o sent) : ticket < r /\ r <= ticket'
<1>1. PICK recovered \in BOOLEAN, message \in BOOLEAN :
        LET answer == IF recovered THEN <<ticket + 1>> ELSE <<>>
            sent   == IF message THEN <<ticket + Len(answer) + 1>> ELSE <<>>
        IN /\ ticket + Len(answer \o sent) <= MaxRows
           /\ chain' = answer
           /\ turn' = [from |-> Len(AllRows \o answer), new |-> ToSet(sent)]
           /\ Edit(AllRows \o answer \o sent, {}, ToSet(answer \o sent), "ready")
  BY DEF LoadToResume
<1> DEFINE answer == IF recovered THEN <<ticket + 1>> ELSE <<>>
           sent == IF message THEN <<ticket + Len(answer) + 1>> ELSE <<>>
<1>2. /\ ticket + Len(answer \o sent) <= MaxRows
      /\ chain' = answer
      /\ turn' = [from |-> Len(AllRows \o answer), new |-> ToSet(sent)]
      /\ plan' = [rows |-> AllRows \o answer \o sent, gone |-> {},
                  new |-> ToSet(answer \o sent), next |-> "ready"]
      /\ ticket' = ticket + Cardinality(ToSet(answer \o sent))
  BY <1>1 DEF Edit
<1>3. ticket \in Nat
  BY DEF TypeOK
<1>4. answer = (IF recovered THEN <<ticket + 1>> ELSE <<>>)
      /\ sent = (IF message THEN (IF recovered THEN <<ticket + 2>> ELSE <<ticket + 1>>) ELSE <<>>)
  <2>1. Len(<<ticket + 1>>) = 1 /\ Len(<<>>) = 0
    OBVIOUS
  <2>2. ticket + 1 + 1 = ticket + 2 /\ ticket + 0 + 1 = ticket + 1
    BY <1>3
  <2> QED BY <2>1, <2>2
<1> HIDE DEF answer, sent
<1>5. answer \o sent \in {<<>>, <<ticket + 1>>, <<ticket + 1, ticket + 2>>}
  <2>1. /\ <<>> \o <<>> = <<>> /\ <<ticket + 1>> \o <<>> = <<ticket + 1>>
        /\ <<>> \o <<ticket + 1>> = <<ticket + 1>>
        /\ <<ticket + 1>> \o <<ticket + 2>> = <<ticket + 1, ticket + 2>>
    <3>1. <<>> \in Seq(Nat) /\ <<ticket + 1>> \in Seq(Nat)
      BY <1>3
    <3>2. <<>> \o <<>> = <<>> /\ <<ticket + 1>> \o <<>> = <<ticket + 1>>
          /\ <<>> \o <<ticket + 1>> = <<ticket + 1>>
      BY <3>1, ConcatEmptySeq
    <3>3. <<ticket + 2>> \in Seq(Nat) /\ <<ticket + 1, ticket + 2>> \in Seq(Nat)
      BY <1>3
    <3>4. <<ticket + 1>> \o <<ticket + 2>> = <<ticket + 1, ticket + 2>>
      <4> DEFINE r == <<ticket + 1>> \o <<ticket + 2>>
                 b == <<ticket + 1, ticket + 2>>
      <4>1. /\ Len(<<ticket + 1>>) = 1 /\ <<ticket + 1>>[1] = ticket + 1
            /\ Len(<<ticket + 2>>) = 1 /\ <<ticket + 2>>[1] = ticket + 2
            /\ Len(b) = 2 /\ b[1] = ticket + 1 /\ b[2] = ticket + 2
        OBVIOUS
      <4>2. r \in Seq(Nat) /\ Len(r) = 2 /\ r[1] = ticket + 1 /\ r[2] = ticket + 2
        <5>1. /\ r \in Seq(Nat) /\ Len(r) = Len(<<ticket + 1>>) + Len(<<ticket + 2>>)
              /\ \A k \in 1 .. Len(<<ticket + 1>>) : r[k] = <<ticket + 1>>[k]
              /\ \A k \in 1 .. Len(<<ticket + 2>>) : r[Len(<<ticket + 1>>) + k] = <<ticket + 2>>[k]
          BY <3>1, <3>3, Joined
        <5> HIDE DEF r
        <5> QED BY <4>1, <5>1
      <4> HIDE DEF r, b
      <4>3. b \in Seq(Nat)
        BY <3>3 DEF b
      <4>4. r = b
        BY <4>1, <4>2, <4>3, SeqEqual
      <4> QED BY <4>4 DEF r, b
    <3> QED BY <3>2, <3>4
  <2> QED BY <1>4, <2>1
<1>6. /\ answer \o sent \in Seq(Row) /\ Rising(answer \o sent)
      /\ Cardinality(ToSet(answer \o sent)) = Len(answer \o sent)
      /\ \A r \in ToSet(answer \o sent) : ticket < r /\ r <= ticket + Len(answer \o sent)
      /\ ticket + Len(answer \o sent) \in 0 .. MaxRows
      /\ ticket <= ticket + Len(answer \o sent)
  BY <1>2, <1>5, NewRows
<1>7. answer \in Seq(Row) /\ sent \in Seq(Row)
  <2>1. answer \in Seq(Nat) /\ sent \in Seq(Nat)
    BY <1>3, <1>4
  <2>2. ToSet(answer \o sent) = ToSet(answer) \cup ToSet(sent)
    BY <2>1, Joined
  <2>3. ToSet(answer \o sent) \subseteq Row
    BY <1>6 DEF ToSet
  <2>4. DOMAIN answer = 1 .. Len(answer) /\ DOMAIN sent = 1 .. Len(sent)
    BY <2>1
  <2>5. ToSet(answer) \subseteq Row /\ ToSet(sent) \subseteq Row
    BY ONLY <2>2, <2>3
  <2>6. (\A i \in 1 .. Len(answer) : answer[i] \in Row) /\ (\A i \in 1 .. Len(sent) : sent[i] \in Row)
    BY ONLY <2>4, <2>5 DEF ToSet
  <2>7. answer \in Seq(Row)
    BY <2>1, <2>6, LinesOf
  <2>8. sent \in Seq(Row)
    BY <2>1, <2>6, LinesOf
  <2> QED BY <2>7, <2>8
<1> QED BY <1>2, <1>6, <1>7

LEMMA RowsAreLines == ASSUME NEW s \in Seq(Row) PROVE s \in Seq(Line)
BY SeqMonotonic, BoundsAreNumbers

\* A prefix of the transcript.
LEMMA PrefixIs ==
    ASSUME NEW S, NEW s \in Seq(S), NEW n \in 0 .. Len(s)
    PROVE  /\ SubSeq(s, 1, n) \in Seq(S) /\ Len(SubSeq(s, 1, n)) = n
           /\ \A i \in 1 .. n : SubSeq(s, 1, n)[i] = s[i]
           /\ ToSet(SubSeq(s, 1, n)) \subseteq ToSet(s)
<1>1. /\ Len(s) \in Nat /\ DOMAIN s = 1 .. Len(s) /\ (\A i \in 1 .. n : i \in DOMAIN s /\ s[i] \in S)
      /\ n \in Nat
  OBVIOUS
<1>2. /\ SubSeq(s, 1, n) \in Seq(S) /\ Len(SubSeq(s, 1, n)) = IF 1 <= n THEN n - 1 + 1 ELSE 0
      /\ \A i \in 1 .. n - 1 + 1 : SubSeq(s, 1, n)[i] = s[1 + i - 1]
  BY <1>1, SubSeqProperties
<1>3. Len(SubSeq(s, 1, n)) = n /\ \A i \in 1 .. n : SubSeq(s, 1, n)[i] = s[i]
  BY <1>1, <1>2
<1>4. DOMAIN SubSeq(s, 1, n) = 1 .. n
  BY <1>2, <1>3
<1> QED BY <1>1, <1>2, <1>3, <1>4 DEF ToSet

LEMMA FrontIs ==
    ASSUME NEW S, NEW s \in Seq(S), s # <<>>
    PROVE  /\ Front(s) \in Seq(S) /\ Len(Front(s)) = Len(s) - 1 /\ Len(s) \in Nat \ {0}
           /\ \A i \in 1 .. Len(s) - 1 : Front(s)[i] = s[i]
           /\ Last(s) \in S /\ ToSet(s) = ToSet(Front(s)) \cup {Last(s)}
<1>1. Len(s) \in Nat \ {0} /\ DOMAIN s = 1 .. Len(s) /\ s[Len(s)] \in S
  BY EmptySeq
<1>2. Len(s) - 1 \in 0 .. Len(s)
  BY <1>1
<1>3. /\ Front(s) \in Seq(S) /\ Len(Front(s)) = Len(s) - 1
      /\ \A i \in 1 .. Len(s) - 1 : Front(s)[i] = s[i]
      /\ ToSet(Front(s)) \subseteq ToSet(s)
  BY <1>2, PrefixIs DEF Front
<1>4. DOMAIN Front(s) = 1 .. Len(s) - 1
  BY <1>3
<1>5. ASSUME NEW i \in 1 .. Len(s) PROVE s[i] \in ToSet(Front(s)) \cup {Last(s)}
  <2>1. CASE i = Len(s)
    BY <2>1 DEF Last
  <2>2. CASE i # Len(s)
    <3>1. i \in 1 .. Len(s) - 1
      <4> DEFINE l == Len(s)
      <4>1. l \in Nat \ {0} /\ i \in 1 .. l /\ i # l
        BY <1>1, <2>2
      <4> HIDE DEF l
      <4>2. i \in 1 .. l - 1
        BY ONLY <4>1
      <4> QED BY ONLY <4>2 DEF l
    <3> QED BY <1>3, <1>4, <3>1 DEF ToSet
  <2> QED BY <2>1, <2>2
<1>6. Last(s) \in ToSet(s)
  BY <1>1 DEF Last, ToSet
<1> QED BY <1>1, <1>3, <1>5, <1>6 DEF Last, ToSet

LEMMA UnblockedIs ==
    ASSUME TypeOK, NEW rows \in Seq(Row), NEW answers
    PROVE  /\ Unblocked(rows, answers) \in Seq(Line)
           /\ Len(Unblocked(rows, answers)) = Len(rows)
           /\ DOMAIN Unblocked(rows, answers) = DOMAIN rows /\ DOMAIN rows = 1 .. Len(rows)
<1>1. \A i \in DOMAIN rows : rows[i] \in Line
  BY RowsAreLines
<1>2. DOMAIN rows = 1 .. Len(rows) /\ Len(rows) \in Nat
  OBVIOUS
<1> QED BY <1>1, <1>2, BoundsAreNumbers DEF Unblocked

LEMMA SkipsAre ==
    ASSUME TypeOK, NEW unread \in SUBSET DOMAIN archives
    PROVE  Cardinality(unread) \in Nat /\ (unread = {} <=> Cardinality(unread) = 0)
<1>1. IsFiniteSet(1 .. Len(archives)) /\ DOMAIN archives = 1 .. Len(archives)
  BY FS_Interval DEF TypeOK
<1>2. IsFiniteSet(unread)
  BY <1>1, FS_Subset
<1> QED BY <1>2, FS_CardinalityType, FS_EmptySet

\* No rows, no rewrite and no turn are of the kinds they should be.
LEMMA Nothing ==
    /\ <<>> \in Seq(Row) /\ <<>> \in Seq(Line) /\ <<>> \in Seq(Seq(Line))
    /\ NoPlan \in Plan /\ NoTurn \in Turn
<1>1. <<>> \in Seq(Row) /\ <<>> \in Seq(Line) /\ <<>> \in Seq(Seq(Line)) /\ {} \in SUBSET Row
  OBVIOUS
<1>2. NoPlan \in Plan
  BY <1>1 DEF NoPlan, Plan, RunState
<1>3. NoTurn \in Turn
  BY <1>1 DEF NoTurn, Turn
<1> QED BY <1>1, <1>2, <1>3

LEMMA RunTypes ==
    ASSUME TypeOK, RunStep
    PROVE  TypeOK'
<1>0. /\ AllRows \in Seq(Row) /\ ToSet(AllRows) \subseteq Row
      /\ \A rows \in Seq(Row) : ToSet(rows) \subseteq Row
      /\ NoPlan \in Plan
  BY RowsTypes, Nothing DEF AllRows, ToSet
<1>1. CASE Start
  BY <1>1, BoundsAreNumbers DEF Start, GoTo, TypeOK, RunState
<1>2. CASE StartFlushThrows
  BY <1>2 DEF StartFlushThrows, FlushThrows, GoTo, TypeOK, RunState
<1>3. CASE CreateRun
  <2>1. ticket + 1 \in Row /\ ticket + 1 \in 0 .. MaxRows /\ <<ticket + 1>> \in Seq(Row)
    BY <1>3, NewRow DEF CreateRun
  <2>2. turn' \in Turn
    BY <1>3, <2>1 DEF CreateRun, Turn
  <2> QED BY <1>3, <2>1, <2>2 DEF CreateRun, TypeOK, RunState
<1>4. CASE RunCreated \/ ResumeRun
  BY <1>4 DEF RunCreated, ResumeRun, GoTo, TypeOK, RunState
<1>5. CASE RepairStubs
  <2>1. PICK unread \in SUBSET DOMAIN archives, kept \in SUBSET DOMAIN archives :
          /\ skips + Cardinality(unread) <= MaxSkips
          /\ skips' = skips + Cardinality(unread)
          /\ live' = Rows(DOMAIN archives \ unread)
          /\ torn' = FALSE
          /\ RemoveArchives(kept)
    BY <1>5 DEF RepairStubs
  <2>2. /\ archives' \in Seq(Seq(Line)) /\ unlinks' \in 0 .. MaxUnlinks /\ halved' \in BOOLEAN
    BY <2>1, RemoveArchivesTypes
  <2>3. skips' \in 0 .. MaxSkips
    <3>1. Cardinality(unread) \in Nat
      BY SkipsAre
    <3> QED BY <2>1, <3>1, BoundsAreNumbers DEF TypeOK
  <2>4. live' \in Seq(Line)
    <3>1. Rows(DOMAIN archives \ unread) \in Seq(Row)
      BY RowsTypes
    <3> QED BY <2>1, <3>1, RowsAreLines
  <2> QED BY <1>5, <2>1, <2>2, <2>3, <2>4 DEF RepairStubs, GoTo, TypeOK, RunState
<1>6. CASE LoadToResume
  <2>1. PICK answer \in Seq(Row), sent \in Seq(Row) :
             /\ chain' = answer
             /\ turn' = [from |-> Len(AllRows \o answer), new |-> ToSet(sent)]
             /\ plan' = [rows |-> AllRows \o answer \o sent, gone |-> {},
                         new |-> ToSet(answer \o sent), next |-> "ready"]
             /\ ticket' \in 0 .. MaxRows
    BY <1>6, ResumeDoes
  <2>2. AllRows \o answer \in Seq(Row) /\ Len(AllRows \o answer) \in Nat
    BY <1>0, ConcatProperties
  <2>3. AllRows \o answer \o sent \in Seq(Row) /\ answer \o sent \in Seq(Row)
    BY <2>2, ConcatProperties
  <2>4. turn' \in Turn
    BY <1>0, <2>1, <2>2 DEF Turn
  <2>5. plan' \in Plan
    BY <1>0, <2>1, <2>3 DEF Plan, RunState
  <2>6. run' = "writing"
    BY <1>6 DEF LoadToResume, Edit
  <2> QED BY <1>6, <2>1, <2>4, <2>5, <2>6 DEF LoadToResume, TypeOK, RunState
<1>7. CASE LoadToRewind
  <2>1. PICK n \in 0 .. Len(AllRows) - 1 :
          Edit(Append(SubSeq(AllRows, 1, n), ticket + 1),
               ToSet(AllRows) \ ToSet(SubSeq(AllRows, 1, n)), {ticket + 1}, "starting")
    BY <1>7 DEF LoadToRewind
  <2>2. ticket + 1 \in Row /\ ticket + 1 \in 0 .. MaxRows
    BY <1>7, NewRow DEF LoadToRewind
  <2>3. n \in 0 .. Len(AllRows)
    BY <1>0
  <2>4. Append(SubSeq(AllRows, 1, n), ticket + 1) \in Seq(Row)
    BY <1>0, <2>2, <2>3, PrefixIs, AppendProperties
  <2>5. ticket' \in 0 .. MaxRows
    BY <2>1, <2>2, FS_Singleton DEF Edit
  <2>6. plan' \in Plan /\ run' \in RunState
    <3>1. "starting" \in RunState
      BY DEF RunState
    <3>2. ToSet(AllRows) \ ToSet(SubSeq(AllRows, 1, n)) \in SUBSET Row /\ {ticket + 1} \in SUBSET Row
      BY <1>0, <2>2
    <3> QED BY <2>1, <2>4, <3>1, <3>2, EditTypes
  <2> QED BY <1>7, <2>5, <2>6 DEF LoadToRewind, TypeOK
<1>8. CASE LoadToAmend
  <2>1. ticket' = ticket + Cardinality({}) /\ Cardinality({}) = 0
    BY <1>8, FS_EmptySet DEF LoadToAmend, Edit
  <2>2. plan' \in Plan /\ run' \in RunState
    <3>1. CASE Edit(AllRows, {}, {}, "stepping")
      <4>1. "stepping" \in RunState /\ {} \in SUBSET Row
        BY DEF RunState
      <4> QED BY <1>0, <3>1, <4>1, EditTypes
    <3>2. CASE Edit(Front(AllRows), {Last(AllRows)}, {}, "boundary")
      <4>1. Front(AllRows) \in Seq(Row) /\ {Last(AllRows)} \in SUBSET Row
        BY <1>0, <1>8, FrontIs DEF LoadToAmend
      <4>2. "boundary" \in RunState /\ {} \in SUBSET Row
        BY DEF RunState
      <4> QED BY <3>2, <4>1, <4>2, EditTypes
    <3> QED BY <1>8, <3>1, <3>2 DEF LoadToAmend
  <2> QED BY <1>8, <2>1, <2>2 DEF LoadToAmend, TypeOK
<1>9. CASE StrictLoadFails
  BY <1>9, BoundsAreNumbers DEF StrictLoadFails, Fault, GoTo, TypeOK, RunState
<1>10. CASE AmendFlushThrows \/ BeginSteps \/ EndStep \/ StepBoundary \/ EndTurn \/ EndAtLimit
            \/ Stop \/ Finish
  BY <1>10 DEF AmendFlushThrows, BeginSteps, EndStep, StepBoundary, EndTurn, EndAtLimit, Stop,
               Finish, FlushThrows, GoTo, TypeOK, RunState
<1>11. CASE LoadAfterBlock
  <2>1. turn.new \in SUBSET Row /\ {} \in SUBSET Row /\ "failed" \in RunState /\ <<>> \in Seq(Row)
    BY DEF TypeOK, Turn, RunState
  <2>2. /\ failures' = FALSE
        /\ UNCHANGED <<turn, diskVars, chain, job, checked, blocked, notices, ghosts,
                       invokes, crashes, faults, unlinks, reads>>
    BY <1>11 DEF LoadAfterBlock
  <2>3. plan' \in Plan /\ run' \in RunState /\ ticket' \in 0 .. MaxRows /\ skips' \in 0 .. MaxSkips
    <3>0. ticket + Cardinality({}) = ticket
      BY FS_EmptySet DEF TypeOK
    <3>1. ASSUME NEW unread \in SUBSET DOMAIN archives, NEW answers,
                 skips + Cardinality(unread) <= MaxSkips,
                 skips' = skips + Cardinality(unread),
                 Edit(Parsed(Unblocked(Rows(DOMAIN archives \ unread), answers)),
                      turn.new, {}, "failed")
          PROVE  /\ plan' \in Plan /\ run' \in RunState /\ ticket' \in 0 .. MaxRows
                 /\ skips' \in 0 .. MaxSkips
      <4>1. skips' \in 0 .. MaxSkips
        BY <3>1, SkipsAre, BoundsAreNumbers DEF TypeOK
      <4>2. Parsed(Unblocked(Rows(DOMAIN archives \ unread), answers)) \in Seq(Row)
        BY RowsTypes, UnblockedIs, ParsedIs
      <4>3. plan' \in Plan /\ run' \in RunState
        BY <2>1, <3>1, <4>2, EditTypes
      <4>4. ticket' \in 0 .. MaxRows
        BY <3>0, <3>1 DEF Edit, TypeOK
      <4> QED BY <4>1, <4>3, <4>4
    <3>2. ASSUME IF failures THEN UNCHANGED skips ELSE skips < MaxSkips /\ skips' = skips + 1,
                 Edit(<<>>, turn.new, {}, "failed")
          PROVE  /\ plan' \in Plan /\ run' \in RunState /\ ticket' \in 0 .. MaxRows
                 /\ skips' \in 0 .. MaxSkips
      <4>1. skips' \in 0 .. MaxSkips
        BY <3>2, BoundsAreNumbers DEF TypeOK
      <4>2. plan' \in Plan /\ run' \in RunState
        BY <2>1, <3>2, EditTypes
      <4>3. ticket' \in 0 .. MaxRows
        BY <3>0, <3>2 DEF Edit, TypeOK
      <4> QED BY <4>1, <4>2, <4>3
    <3> QED BY <1>11, <3>1, <3>2 DEF LoadAfterBlock
  <2> QED BY <2>2, <2>3 DEF TypeOK
<1>12. CASE TranscriptWritten
  <2>1. live' \in Seq(Line)
    <3>1. plan.rows \in Seq(Row)
      BY DEF TypeOK, Plan
    <3>2. live' = plan.rows
      BY <1>12 DEF TranscriptWritten
    <3> QED BY <3>1, <3>2, RowsAreLines
  <2>2. landed' \in SUBSET Row
    BY <1>12 DEF TranscriptWritten, TypeOK, Plan
  <2> QED BY <1>12, <2>1, <2>2 DEF TranscriptWritten, TypeOK, RunState
<1>13. CASE TranscriptWriteFails
  <2>1. faults' \in 0 .. MaxFaults /\ failures' \in BOOLEAN
    <3>1. CASE FlushThrows /\ UNCHANGED faults
      BY <3>1 DEF FlushThrows, TypeOK
    <3>2. CASE FlushPasses /\ Fault /\ UNCHANGED failures
      <4>1. faults' \in 0 .. MaxFaults
        BY <3>2, BoundsAreNumbers DEF Fault, TypeOK
      <4>2. failures' \in BOOLEAN
        BY <3>2 DEF TypeOK
      <4> QED BY <4>1, <4>2
    <3> QED BY <1>13, <3>1, <3>2 DEF TranscriptWriteFails
  <2>2. NoPlan \in Plan
    BY <1>0
  <2> QED BY <1>13, <2>1, <2>2 DEF TranscriptWriteFails, TypeOK, RunState
<1>14. CASE ArchivesRemoved
  <2>1. PICK kept \in SUBSET DOMAIN archives : RemoveArchives(kept)
    BY <1>14 DEF ArchivesRemoved
  <2>2. /\ archives' \in Seq(Seq(Line)) /\ unlinks' \in 0 .. MaxUnlinks /\ halved' \in BOOLEAN
    BY <2>1, RemoveArchivesTypes
  <2>3. run' \in RunState /\ plan' \in Plan
    BY <1>0, <1>14 DEF ArchivesRemoved, TypeOK, Plan
  <2> QED BY <1>14, <2>2, <2>3 DEF ArchivesRemoved, TypeOK
<1>15. CASE AppendMessage
  <2>1. ticket + 1 \in Row /\ ticket + 1 \in 0 .. MaxRows
    BY <1>15, NewRow DEF AppendMessage
  <2>2. chain' \in Seq(Row)
    BY <1>15, <2>1, AppendProperties DEF AppendMessage, TypeOK
  <2> QED BY <1>15, <2>1, <2>2 DEF AppendMessage, TypeOK
<1> QED BY <1>1, <1>2, <1>3, <1>4, <1>5, <1>6, <1>7, <1>8, <1>9, <1>10, <1>11, <1>12, <1>13, <1>14,
           <1>15 DEF RunStep

LEMMA OtherTypes ==
    ASSUME TypeOK, ReaderFlush \/ Crash
    PROVE  TypeOK'
<1>1. CASE ReaderFlush
  <2>1. reads' \in 0 .. MaxReads
    BY <1>1, BoundsAreNumbers DEF ReaderFlush, TypeOK
  <2> QED BY <1>1, <2>1 DEF ReaderFlush, FlushThrows, TypeOK
<1>2. CASE Crash
  <2>1. live' \in Seq(Line) /\ torn' \in BOOLEAN
    <3>1. CASE UNCHANGED <<live, torn>>
      BY <3>1 DEF TypeOK
    <3>2. ASSUME MayAppend, NEW line \in {Junk, Head(chain)}, Write(line, FALSE)
          PROVE  live' \in Seq(Line) /\ torn' \in BOOLEAN
      <4>1. line \in Line
        BY <3>2, HeadIs, BoundsAreNumbers DEF TypeOK
      <4> QED BY <3>2, <4>1, WriteTypes DEF TypeOK
    <3> QED BY <1>2, <3>1, <3>2 DEF Crash
  <2>2. crashes' \in 0 .. MaxCrashes
    BY <1>2, BoundsAreNumbers DEF Crash, TypeOK
  <2>3. chain' \in Seq(Row) /\ plan' \in Plan /\ run' \in RunState
    BY <1>2, Nothing DEF Crash, RunState
  <2>4. job' \in Job
    BY <1>2, JobIs DEF Crash
  <2> QED BY <1>2, <2>1, <2>2, <2>3, <2>4 DEF Crash, TypeOK
<1> QED BY <1>1, <1>2

LEMMA TypesStep == TypeOK /\ [Next]_vars => TypeOK'
<1>1. ASSUME TypeOK, UNCHANGED vars PROVE TypeOK'
  BY <1>1 DEF vars, TypeOK
<1> QED BY <1>1, AppendTypes, RunTypes, OtherTypes DEF Next

LEMMA InitTypes == Init => TypeOK
<1> SUFFICES ASSUME Init PROVE TypeOK
  OBVIOUS
<1>1. Idle \in Job /\ "off" \in RunState
  BY JobIs DEF RunState
<1>2. /\ 0 \in 0 .. MaxRows /\ 0 \in 0 .. MaxInvokes
      /\ 0 \in 0 .. MaxCrashes /\ 0 \in 0 .. MaxFaults /\ 0 \in 0 .. MaxUnlinks
      /\ 0 \in 0 .. MaxSkips /\ 0 \in 0 .. MaxReads
  BY MessageLogAssumption
<1> QED BY <1>1, <1>2, Nothing DEF Init, TypeOK

\* Every variable keeps the kind of value the code gives it.
THEOREM TranscriptTypes == Spec => []TypeOK
BY InitTypes, TypesStep, PTL DEF Spec
-----------------------------------------------------------------------------
(* What the rewriters do.                                                    *)

LEMMA EditDoes ==
    ASSUME TypeOK, NEW rows, NEW gone, NEW new, NEW next, Edit(rows, gone, new, next)
    PROVE  /\ run' = "writing" /\ plan'.rows = rows /\ plan'.gone = gone /\ plan'.new = new
           /\ plan'.next = next /\ ticket' = ticket + Cardinality(new)
BY DEF Edit

\* No new rows, and one.
LEMMA EditTickets ==
    ASSUME TypeOK
    PROVE  /\ ticket + Cardinality({}) = ticket
           /\ \A r : ticket + Cardinality({r}) = ticket + 1
<1>1. ticket \in Nat
  BY DEF TypeOK
<1>2. Cardinality({}) = 0
  BY FS_EmptySet
<1>3. \A r : Cardinality({r}) = 1
  BY FS_Singleton
<1> QED BY ONLY <1>1, <1>2, <1>3

LEMMA RewindDoes ==
    ASSUME TypeOK, LoadToRewind
    PROVE  /\ run = "rewinding" /\ run' = "writing" /\ plan'.next = "starting"
           /\ ticket' = ticket + 1 /\ plan'.new = {ticket + 1} /\ ticket + 1 \in Row
           /\ \E n \in 0 .. Len(AllRows) :
                /\ plan'.rows = Append(SubSeq(AllRows, 1, n), ticket + 1)
                /\ plan'.gone = ToSet(AllRows) \ ToSet(SubSeq(AllRows, 1, n))
<1>0. AllRows \in Seq(Row) /\ Len(AllRows) \in Nat
  BY RowsTypes DEF AllRows
<1>1. PICK n \in 0 .. Len(AllRows) - 1 :
        Edit(Append(SubSeq(AllRows, 1, n), ticket + 1),
             ToSet(AllRows) \ ToSet(SubSeq(AllRows, 1, n)), {ticket + 1}, "starting")
  BY DEF LoadToRewind
<1> DEFINE rows == Append(SubSeq(AllRows, 1, n), ticket + 1)
           gone == ToSet(AllRows) \ ToSet(SubSeq(AllRows, 1, n))
<1>2. /\ run' = "writing" /\ plan'.rows = rows /\ plan'.gone = gone /\ plan'.new = {ticket + 1}
      /\ plan'.next = "starting" /\ ticket' = ticket + Cardinality({ticket + 1})
  <2>1. Edit(rows, gone, {ticket + 1}, "starting")
    BY <1>1
  <2> HIDE DEF rows, gone
  <2> QED BY <2>1, EditDoes
<1>3. n \in 0 .. Len(AllRows)
  BY <1>0
<1>4. run = "rewinding" /\ ticket + 1 \in Row
  BY NewRow DEF LoadToRewind
<1> QED BY <1>2, <1>3, <1>4, EditTickets

LEMMA AmendDoes ==
    ASSUME TypeOK, LoadToAmend
    PROVE  /\ run = "stepping" /\ run' = "writing" /\ ticket' = ticket /\ plan'.new = {}
           /\ AllRows # <<>>
           /\ \/ plan'.next = "stepping" /\ plan'.rows = AllRows /\ plan'.gone = {}
              \/ plan'.next = "boundary" /\ plan'.rows = Front(AllRows)
                   /\ plan'.gone = {Last(AllRows)}
<1>1. run = "stepping" /\ AllRows # <<>>
  BY DEF LoadToAmend
<1>2. CASE Edit(AllRows, {}, {}, "stepping")
  BY <1>1, <1>2, EditDoes, EditTickets
<1>3. CASE Edit(Front(AllRows), {Last(AllRows)}, {}, "boundary")
  BY <1>1, <1>3, EditDoes, EditTickets
<1> QED BY <1>2, <1>3 DEF LoadToAmend

\* Without a failure to take, the rows are those that were read, unless a read failed.
LEMMA BlockDoes ==
    ASSUME TypeOK, LoadAfterBlock
    PROVE  /\ run = "ready" /\ run' = "writing" /\ plan'.next = "failed"
           /\ ticket' = ticket /\ plan'.new = {} /\ plan'.gone = turn.new
           /\ \/ plan'.rows = <<>> /\ (failures \/ skips' # 0)
              \/ \E read \in SUBSET DOMAIN archives, answers \in SUBSET (landed \ turn.new) :
                    /\ plan'.rows = Parsed(Unblocked(Rows(read), answers))
                    /\ skips' = 0 => read = DOMAIN archives
<1>1. run = "ready" /\ skips \in Nat
  BY BoundsAreNumbers DEF LoadAfterBlock, TypeOK
<1>2. ASSUME NEW unread \in SUBSET DOMAIN archives, NEW answers \in SUBSET (landed \ turn.new),
             skips' = skips + Cardinality(unread),
             Edit(Parsed(Unblocked(Rows(DOMAIN archives \ unread), answers)), turn.new, {}, "failed")
      PROVE  /\ run' = "writing" /\ plan'.next = "failed"
             /\ ticket' = ticket /\ plan'.new = {} /\ plan'.gone = turn.new
             /\ \E read \in SUBSET DOMAIN archives, given \in SUBSET (landed \ turn.new) :
                    /\ plan'.rows = Parsed(Unblocked(Rows(read), given))
                    /\ skips' = 0 => read = DOMAIN archives
  <2> DEFINE read == DOMAIN archives \ unread
             rows == Parsed(Unblocked(Rows(read), answers))
  <2>1. skips' = 0 => read = DOMAIN archives
    <3>1. Cardinality(unread) \in Nat /\ (unread = {} <=> Cardinality(unread) = 0)
      BY SkipsAre
    <3>2. skips' = 0 => Cardinality(unread) = 0
      BY ONLY <1>1, <1>2, <3>1
    <3> QED BY <3>1, <3>2
  <2>2. /\ run' = "writing" /\ plan'.rows = rows /\ plan'.gone = turn.new /\ plan'.new = {}
        /\ plan'.next = "failed" /\ ticket' = ticket
    <3>1. Edit(rows, turn.new, {}, "failed")
      BY <1>2
    <3> HIDE DEF rows
    <3> QED BY <3>1, EditDoes, EditTickets
  <2>3. read \in SUBSET DOMAIN archives
    OBVIOUS
  <2> HIDE DEF read
  <2> QED BY <2>1, <2>2, <2>3
<1>3. ASSUME Edit(<<>>, turn.new, {}, "failed"), failures \/ skips' = skips + 1
      PROVE  /\ run' = "writing" /\ plan'.next = "failed"
             /\ ticket' = ticket /\ plan'.new = {} /\ plan'.gone = turn.new
             /\ plan'.rows = <<>> /\ (failures \/ skips' # 0)
  <2>1. failures \/ skips' # 0
    BY <1>1, <1>3
  <2> QED BY <1>3, <2>1, EditDoes, EditTickets
<1> QED BY <1>1, <1>2, <1>3 DEF LoadAfterBlock

-----------------------------------------------------------------------------
(* The writer and the run.                                                   *)

\* A line that may be torn has not been checked, unless the check could not read it.
TornUnchecked == torn /\ checked => skips # 0
\* A rotation belongs to an append, and its two halves are the live file.
RotationHolds ==
    /\ job.at # "idle" => chain # <<>>
    /\ job.at \in {"archive", "live"} => live = job.head \o job.tail
    /\ job.at = "live" => archives # <<>> /\ Last(archives) = job.head
\* What the chain and the rewrite are where the run stands.
QuietRun ==
    /\ run \in {"off", "creating", "rewinding", "starting", "loading", "ready", "clearing", "done"}
         => chain = <<>>
    /\ run \in {"ready", "clearing"} => ~failures
    /\ run \in {"writing", "clearing"}
         => plan.next \in {"ready", "starting", "stepping", "boundary", "failed"}
    /\ run = "clearing" => live = plan.rows
    /\ invokes = 0 => run = "off"
    /\ run = "creating" \/ invokes = 0 => archives = <<>> /\ live = <<>>
\* The run has ended, or is about to end, without claiming success.
Over == run \in {"failed", "off", "limited"} \/ (run \in {"writing", "clearing"} /\ plan.next = "failed")
\* A row that was given up is told to the end of the turn or to the step boundary.
LostIsTold ==
    /\ reads = 0 /\ lost # {} => Over \/ (notices /\ (failures \/ run = "boundary"))
    /\ run = "done" /\ reads = 0 => lost = {}
WriterInv == TypeOK /\ TornUnchecked /\ RotationHolds /\ QuietRun /\ LostIsTold

\* A read that failed stays counted.
LEMMA SkipsGrow ==
    ASSUME TypeOK, [Next]_vars, skips' = 0
    PROVE  skips = 0
<1>0. skips \in Nat
  BY BoundsAreNumbers DEF TypeOK
<1>1. CASE RepairStubs
  <2>1. PICK unread \in SUBSET DOMAIN archives : skips' = skips + Cardinality(unread)
    BY <1>1 DEF RepairStubs
  <2>2. Cardinality(unread) \in Nat
    BY SkipsAre
  <2> QED BY ONLY <1>0, <2>1, <2>2, skips' = 0
<1>2. CASE LoadAfterBlock
  <2>1. CASE \E unread \in SUBSET DOMAIN archives : skips' = skips + Cardinality(unread)
    <3>1. PICK unread \in SUBSET DOMAIN archives : skips' = skips + Cardinality(unread)
      BY <2>1
    <3>2. Cardinality(unread) \in Nat
      BY SkipsAre
    <3> QED BY ONLY <1>0, <3>1, <3>2, skips' = 0
  <2>2. CASE skips' \in {skips, skips + 1}
    BY <1>0, <2>2
  <2> QED BY <1>2, <2>1, <2>2 DEF LoadAfterBlock
<1>3. CASE TailUnread
  BY <1>0, <1>3 DEF TailUnread
<1>4. CASE ~(RepairStubs \/ LoadAfterBlock \/ TailUnread)
  <2>1. UNCHANGED skips
    BY <1>4 DEF Next, vars, AppendStep, BeginRotation, ArchiveSwapped, ArchiveSwapFails,
       LiveSwapped, LiveSwapFails, RotationUnblocked, TailUnread, Appended, AppendRetried, AppendFails,
       RunStep, Start, CreateRun, RunCreated, StartFlushThrows, ResumeRun,
       LoadToResume, LoadToRewind, LoadToAmend, StrictLoadFails, AmendFlushThrows,
       TranscriptWritten, TranscriptWriteFails, ArchivesRemoved, BeginSteps, AppendMessage,
       EndStep, StepBoundary, EndTurn, EndAtLimit, Stop, Finish, ReaderFlush, Crash
  <2> QED BY <2>1
<1> QED BY <1>1, <1>2, <1>3, <1>4

LEMMA TornStep ==
    ASSUME TypeOK, TornUnchecked, [Next]_vars
    PROVE  TornUnchecked'
<1>0. skips # 0 => skips' # 0
  BY SkipsGrow
<1>1. CASE UNCHANGED vars
  BY <1>1 DEF vars, TornUnchecked
<1>2. CASE AppendStep
  <2>1. CASE BeginRotation \/ ArchiveSwapped \/ ArchiveSwapFails \/ LiveSwapped \/ LiveSwapFails
             \/ RotationUnblocked
    BY <1>0, <2>1 DEF BeginRotation, ArchiveSwapped, ArchiveSwapFails, LiveSwapped, LiveSwapFails,
                RotationUnblocked, TornUnchecked
  <2>2. CASE Appended
    BY <2>2 DEF Appended, Write, TornUnchecked
  <2>3. CASE AppendRetried \/ AppendFails
    BY <2>3 DEF AppendRetried, AppendFails, TornUnchecked
  <2>4. CASE TailUnread
    <3>1. skips \in Nat /\ skips' = skips + 1
      BY <2>4, BoundsAreNumbers DEF TailUnread, TypeOK
    <3> QED BY <3>1 DEF TornUnchecked
  <2> QED BY <1>2, <2>1, <2>2, <2>3, <2>4 DEF AppendStep
<1>3. CASE RunStep
  <2>1. CASE RepairStubs \/ TranscriptWritten
    BY <1>0, <2>1 DEF RepairStubs, TranscriptWritten, TornUnchecked
  <2>2. CASE ~(RepairStubs \/ TranscriptWritten)
    <3>1. UNCHANGED <<torn, checked>>
      BY <1>3, <2>2 DEF RunStep, Start, CreateRun, RunCreated, StartFlushThrows, ResumeRun,
            LoadToResume, LoadToRewind, LoadToAmend, StrictLoadFails, AmendFlushThrows,
            LoadAfterBlock, TranscriptWriteFails, ArchivesRemoved, BeginSteps, AppendMessage,
            EndStep, StepBoundary, EndTurn, EndAtLimit, Stop, Finish
    <3> QED BY <1>0, <3>1 DEF TornUnchecked
  <2> QED BY <2>1, <2>2
<1>4. CASE ReaderFlush \/ Crash
  BY <1>0, <1>4 DEF ReaderFlush, Crash, TornUnchecked
<1> QED BY <1>1, <1>2, <1>3, <1>4 DEF Next

\* Where the append goes on after a rotation, and after an attempt.
LEMMA JobAt ==
    ASSUME NEW j \in Job
    PROVE  /\ Idle.at = "idle"
           /\ [Idle EXCEPT !.at = "append", !.attempt = j.attempt].at = "append"
           /\ [Idle EXCEPT !.attempt = j.attempt + 1].at = "idle"
           /\ [j EXCEPT !.at = "append"].at = "append"
           /\ [j EXCEPT !.at = "live"].at = "live"
           /\ [j EXCEPT !.at = "live"].head = j.head
           /\ [j EXCEPT !.at = "live"].tail = j.tail
           /\ \A h, t : /\ [j EXCEPT !.at = "archive", !.head = h, !.tail = t].at = "archive"
                        /\ [j EXCEPT !.at = "archive", !.head = h, !.tail = t].head = h
                        /\ [j EXCEPT !.at = "archive", !.head = h, !.tail = t].tail = t
BY DEF Idle, Job

\* The last of a sequence, and what is before it.
LEMMA Appending1 ==
    ASSUME NEW S, NEW s \in Seq(S), NEW x \in S
    PROVE  /\ Append(s, x) # <<>> /\ Last(Append(s, x)) = x /\ Front(Append(s, x)) = s
           /\ Append(s, x) \in Seq(S)
<1>1. /\ Append(s, x) \in Seq(S) /\ Len(Append(s, x)) = Len(s) + 1 /\ Len(s) \in Nat
      /\ Append(s, x)[Len(s) + 1] = x /\ \A i \in 1 .. Len(s) : Append(s, x)[i] = s[i]
  BY AppendProperties
<1> DEFINE a == Append(s, x)
<1> HIDE DEF a
<1>2. a \in Seq(S) /\ Len(a) = Len(s) + 1 /\ a[Len(s) + 1] = x /\ \A i \in 1 .. Len(s) : a[i] = s[i]
  BY <1>1 DEF a
<1>3. SubSeq(a, 1, Len(s)) = s
  <2>1. Len(s) \in 0 .. Len(a)
    BY <1>1, <1>2
  <2>2. \A i \in 1 .. Len(s) : i \in DOMAIN a /\ a[i] \in S
    BY <1>1, <1>2
  <2>3. /\ SubSeq(a, 1, Len(s)) \in Seq(S)
        /\ Len(SubSeq(a, 1, Len(s))) = IF 1 <= Len(s) THEN Len(s) - 1 + 1 ELSE 0
        /\ \A i \in 1 .. Len(s) - 1 + 1 : SubSeq(a, 1, Len(s))[i] = a[1 + i - 1]
    BY <1>1, <2>2, SubSeqProperties
  <2> HIDE DEF a
  <2>4. Len(SubSeq(a, 1, Len(s))) = Len(s) /\ \A i \in 1 .. Len(s) : SubSeq(a, 1, Len(s))[i] = a[i]
    BY <1>1, <2>3
  <2> QED BY <1>2, <2>3, <2>4, SeqEqual
<1>4. Len(a) - 1 = Len(s) /\ a # <<>>
  BY <1>1, <1>2
<1>5. Last(a) = x /\ Front(a) = s
  BY <1>2, <1>3, <1>4 DEF Last, Front
<1> QED BY <1>1, <1>4, <1>5 DEF a

LEMMA RotationStep ==
    ASSUME TypeOK, RotationHolds, QuietRun, [Next]_vars
    PROVE  RotationHolds'
<1>0. job \in Job /\ archives \in Seq(Seq(Line)) /\ job.head \in Seq(Line) /\ live \in Seq(Line)
      /\ chain \in Seq(Row)
  BY DEF TypeOK, Job
<1>1. CASE UNCHANGED vars
  BY <1>1 DEF vars, RotationHolds
<1>2. CASE AppendStep
  <2>1. CASE BeginRotation
    <3> DEFINE cut == Len(live) - KeepLive
               h == SubSeq(live, 1, cut)
               t == SubSeq(live, cut + 1, Len(live))
    <3>1. cut \in 1 .. Len(live)
      BY <1>0, <2>1, BoundsAreNumbers, SMTT(30) DEF BeginRotation, NeedsRotation
    <3>2. h \o t = live
      <4> HIDE DEF cut
      <4> QED BY <1>0, <3>1, HalvesAre
    <3>3. job' = [job EXCEPT !.at = "archive", !.head = h, !.tail = t]
          /\ chain # <<>> /\ UNCHANGED <<live, archives, chain>>
      BY <2>1 DEF BeginRotation, Appending
    <3> HIDE DEF h, t
    <3> QED BY <1>0, <3>2, <3>3, JobAt DEF RotationHolds
  <2>2. CASE ArchiveSwapped
    <3>1. archives' = Append(archives, job.head) /\ job' = [job EXCEPT !.at = "live"]
          /\ UNCHANGED <<live, chain>> /\ live = job.head \o job.tail /\ chain # <<>>
      BY <2>2 DEF ArchiveSwapped, RotationHolds
    <3>2. archives' # <<>> /\ Last(archives') = job.head
      BY <1>0, <3>1, Appending1
    <3> QED BY <1>0, <3>1, <3>2, JobAt DEF RotationHolds
  <2>3. CASE ArchiveSwapFails \/ LiveSwapFails \/ LiveSwapped
    <3>1. job'.at = "append" /\ UNCHANGED chain /\ chain # <<>>
      <4>1. /\ job' = [Idle EXCEPT !.at = "append", !.attempt = job.attempt]
            /\ UNCHANGED chain /\ job.at # "idle"
        BY <2>3 DEF ArchiveSwapFails, LiveSwapFails, LiveSwapped, PutOff
      <4> QED BY <1>0, <4>1, JobAt DEF RotationHolds
    <3> QED BY <3>1 DEF RotationHolds
  <2>4. CASE RotationUnblocked
    BY <2>4 DEF RotationUnblocked, RotationHolds
  <2>5. CASE Appended \/ AppendRetried \/ AppendFails
    <3>1. job'.at = "idle"
      <4>1. job' = Idle \/ job' = [Idle EXCEPT !.attempt = job.attempt + 1]
        BY <2>5 DEF Appended, AppendRetried, AppendFails
      <4>2. Idle.at = "idle" /\ [Idle EXCEPT !.attempt = job.attempt + 1].at = "idle"
        BY <1>0, JobAt
      <4> QED BY ONLY <4>1, <4>2
    <3> QED BY <3>1 DEF RotationHolds
  <2>6. CASE TailUnread
    <3>1. job'.at = "append" /\ UNCHANGED chain /\ chain # <<>>
      BY <1>0, <2>6, JobAt DEF TailUnread, MayAppend, Appending
    <3> QED BY <3>1 DEF RotationHolds
  <2> QED BY <1>2, <2>1, <2>2, <2>3, <2>4, <2>5, <2>6 DEF AppendStep
<1>3. CASE RunStep
  <2>1. CASE job.at = "idle"
    <3>1. UNCHANGED job
      BY <1>3 DEF RunStep, Start, CreateRun, RunCreated, StartFlushThrows, ResumeRun, RepairStubs,
            LoadToResume, LoadToRewind, LoadToAmend, StrictLoadFails, AmendFlushThrows,
            LoadAfterBlock, TranscriptWritten, TranscriptWriteFails, ArchivesRemoved, BeginSteps,
            AppendMessage, EndStep, StepBoundary, EndTurn, EndAtLimit, Stop, Finish
    <3> QED BY <2>1, <3>1 DEF RotationHolds
  <2>2. CASE job.at # "idle"
    <3>1. chain # <<>>
      BY <2>2 DEF RotationHolds
    <3>2. CASE AppendMessage
      <4>1. chain' # <<>> /\ UNCHANGED <<job, live, archives>>
        BY <1>0, <3>1, <3>2, AppendProperties, EmptySeq, SMTT(30) DEF AppendMessage
      <4> QED BY <4>1 DEF RotationHolds
    <3>3. CASE ~AppendMessage
      <4>1. UNCHANGED <<job, chain, live, archives>>
        BY <1>3, <3>1, <3>3 DEF RunStep, Start, CreateRun, RunCreated, StartFlushThrows, ResumeRun,
              RepairStubs, LoadToResume, LoadToRewind, LoadToAmend, StrictLoadFails,
              AmendFlushThrows, LoadAfterBlock, TranscriptWritten, TranscriptWriteFails,
              ArchivesRemoved, BeginSteps, EndStep, StepBoundary, EndTurn, EndAtLimit, Stop,
              Finish, FlushPasses, FlushThrows, Drained, QuietRun
      <4> QED BY <4>1 DEF RotationHolds
    <3> QED BY <3>2, <3>3
  <2> QED BY <2>1, <2>2
<1>4. CASE ReaderFlush
  BY <1>4 DEF ReaderFlush, RotationHolds
<1>5. CASE Crash
  <2>1. job'.at = "idle"
    BY <1>0, <1>5, JobAt DEF Crash
  <2> QED BY <2>1 DEF RotationHolds
<1> QED BY <1>1, <1>2, <1>3, <1>4, <1>5 DEF Next

\* A step of the writer, or of a reader, leaves the run where it is.
LEMMA QuietStep ==
    ASSUME TypeOK, RotationHolds, QuietRun, [Next]_vars
    PROVE  QuietRun'
<1>0. live \in Seq(Line) /\ archives \in Seq(Seq(Line)) /\ invokes \in Nat /\ invokes + 1 # 0
  BY BoundsAreNumbers DEF TypeOK
<1>1. CASE UNCHANGED vars
  BY <1>1 DEF vars, QuietRun
<1>2. CASE AppendStep
  <2>1. UNCHANGED <<run, plan, invokes>>
    BY <1>2 DEF AppendStep, BeginRotation, ArchiveSwapped, ArchiveSwapFails, LiveSwapped,
          LiveSwapFails, RotationUnblocked, TailUnread, Appended, AppendRetried, AppendFails
  <2>2. CASE RotationUnblocked
    BY <2>1, <2>2 DEF RotationUnblocked, QuietRun
  <2>3. CASE ~RotationUnblocked
    <3>1. chain # <<>>
      BY <1>2, <2>3 DEF AppendStep, BeginRotation, ArchiveSwapped, ArchiveSwapFails, LiveSwapped,
            LiveSwapFails, TailUnread, Appended, AppendRetried, AppendFails, MayAppend, Appending,
            RotationHolds
    <3>2. run \notin {"off", "creating", "rewinding", "starting", "loading", "ready", "clearing",
                      "done"} /\ invokes # 0
      BY <3>1 DEF QuietRun
    <3> QED BY <2>1, <3>2 DEF QuietRun
  <2> QED BY <2>2, <2>3
<1>3. CASE RunStep
  <2>1. CASE Start
    BY <1>0, <2>1 DEF Start, GoTo, QuietRun
  <2>2. CASE CreateRun
    BY <2>2 DEF CreateRun, QuietRun
  <2>3. CASE StartFlushThrows \/ AmendFlushThrows \/ StrictLoadFails
    BY <2>3 DEF StartFlushThrows, AmendFlushThrows, StrictLoadFails, GoTo, QuietRun
  <2>4. CASE RunCreated \/ ResumeRun
    BY <2>4 DEF RunCreated, ResumeRun, FlushPasses, Drained, GoTo, QuietRun
  <2>5. CASE RepairStubs
    BY <2>5 DEF RepairStubs, FlushPasses, Drained, GoTo, QuietRun
  <2>6. CASE LoadToResume
    <3>1. run = "loading" /\ run' = "writing" /\ plan'.next = "ready" /\ UNCHANGED invokes
      BY <2>6 DEF LoadToResume, Edit
    <3> QED BY <3>1 DEF QuietRun
  <2>7. CASE LoadToRewind \/ LoadToAmend \/ LoadAfterBlock
    <3>1. /\ run \in {"rewinding", "stepping", "ready"} /\ run' = "writing"
          /\ plan'.next \in {"starting", "stepping", "boundary", "failed"}
          /\ UNCHANGED invokes
      BY <2>7, RewindDoes, AmendDoes, BlockDoes DEF LoadToRewind, LoadToAmend, LoadAfterBlock
    <3> QED BY <3>1 DEF QuietRun
  <2>8. CASE TranscriptWritten
    BY <2>8 DEF TranscriptWritten, FlushPasses, Drained, QuietRun
  <2>9. CASE TranscriptWriteFails
    BY <2>9 DEF TranscriptWriteFails, QuietRun
  <2>10. CASE ArchivesRemoved
    <3>1. /\ run = "clearing" /\ run' = plan.next /\ UNCHANGED <<chain, failures, invokes>>
          /\ plan.next \in {"ready", "starting", "stepping", "boundary", "failed"}
          /\ chain = <<>> /\ ~failures
      BY <2>10 DEF ArchivesRemoved, QuietRun
    <3> QED BY <3>1 DEF QuietRun
  <2>11. CASE BeginSteps \/ AppendMessage \/ EndStep \/ StepBoundary \/ EndAtLimit \/ Stop
    BY <2>11 DEF BeginSteps, AppendMessage, EndStep, StepBoundary, EndAtLimit, Stop, GoTo, QuietRun
  <2>12. CASE EndTurn \/ Finish
    BY <2>12 DEF EndTurn, Finish, Drained, GoTo, QuietRun
  <2> QED BY <1>3, <2>1, <2>2, <2>3, <2>4, <2>5, <2>6, <2>7, <2>8, <2>9, <2>10, <2>11, <2>12
          DEF RunStep
<1>4. CASE ReaderFlush
  BY <1>4 DEF ReaderFlush, FlushThrows, QuietRun
<1>5. CASE Crash
  <2>1. invokes' = 0 => archives' = <<>> /\ live' = <<>>
    <3>1. ASSUME invokes = 0 PROVE archives' = <<>> /\ live' = <<>>
      <4>1. archives = <<>> /\ live = <<>> /\ chain = <<>>
        BY <3>1 DEF QuietRun
      <4> QED BY <1>5, <4>1 DEF Crash, MayAppend, Appending
    <3> QED BY <1>5, <3>1 DEF Crash
  <2> QED BY <1>5, <2>1 DEF Crash, QuietRun
<1> QED BY <1>1, <1>2, <1>3, <1>4, <1>5 DEF Next

LEMMA LostStep ==
    ASSUME TypeOK, RotationHolds, QuietRun, LostIsTold, [Next]_vars
    PROVE  LostIsTold'
<1>0. reads \in Nat /\ reads + 1 # 0
  BY BoundsAreNumbers DEF TypeOK
<1>1. CASE UNCHANGED vars
  BY <1>1 DEF vars, LostIsTold, Over
<1>2. CASE AppendStep
  <2>1. CASE AppendFails
    <3>1. UNCHANGED <<run, plan, reads>> /\ failures' = TRUE /\ notices' = TRUE /\ chain # <<>>
      BY <2>1 DEF AppendFails, MayAppend, Appending
    <3> QED BY <3>1 DEF LostIsTold, Over, QuietRun
  <2>2. CASE ~AppendFails
    <3>1. UNCHANGED <<run, plan, reads, lost, failures, notices>>
      BY <1>2, <2>2 DEF AppendStep, BeginRotation, ArchiveSwapped, ArchiveSwapFails, LiveSwapped,
            LiveSwapFails, RotationUnblocked, TailUnread, Appended, AppendRetried
    <3> QED BY <3>1 DEF LostIsTold, Over
  <2> QED BY <2>1, <2>2
<1>3. CASE RunStep
  <2>1. CASE Start
    BY <2>1 DEF Start, GoTo, LostIsTold, Over
  <2>2. CASE CreateRun
    BY <2>2 DEF CreateRun, LostIsTold, Over
  <2>3. CASE StartFlushThrows \/ AmendFlushThrows \/ StrictLoadFails
    BY <2>3 DEF StartFlushThrows, AmendFlushThrows, StrictLoadFails, FlushPasses, GoTo, LostIsTold, Over
  <2>4. CASE RunCreated \/ ResumeRun \/ RepairStubs
    BY <2>4 DEF RunCreated, ResumeRun, RepairStubs, FlushPasses, GoTo, LostIsTold, Over
  <2>5. CASE LoadToResume \/ LoadToRewind \/ LoadToAmend
    <3>1. /\ run \in {"loading", "rewinding", "stepping"} /\ run' = "writing" /\ ~failures
          /\ UNCHANGED <<reads, lost, failures, notices>>
      BY <2>5 DEF LoadToResume, LoadToRewind, LoadToAmend, FlushPasses, Edit
    <3> QED BY <3>1 DEF LostIsTold, Over
  <2>6. CASE LoadAfterBlock
    <3>1. run' = "writing" /\ plan'.next = "failed" /\ UNCHANGED <<reads, lost>>
      BY <2>6, BlockDoes DEF LoadAfterBlock
    <3> QED BY <3>1 DEF LostIsTold, Over
  <2>7. CASE TranscriptWritten
    BY <2>7 DEF TranscriptWritten, FlushPasses, LostIsTold, Over
  <2>8. CASE TranscriptWriteFails
    BY <2>8 DEF TranscriptWriteFails, LostIsTold, Over
  <2>9. CASE ArchivesRemoved
    <3>1. /\ run = "clearing" /\ run' = plan.next /\ ~failures
          /\ plan.next \in {"ready", "starting", "stepping", "boundary", "failed"}
          /\ UNCHANGED <<reads, lost, failures, notices>>
      BY <2>9 DEF ArchivesRemoved, QuietRun
    <3> QED BY <3>1 DEF LostIsTold, Over
  <2>10. CASE BeginSteps \/ AppendMessage \/ EndStep \/ EndAtLimit \/ Stop
    BY <2>10 DEF BeginSteps, AppendMessage, EndStep, EndAtLimit, Stop, GoTo, LostIsTold, Over, QuietRun
  <2>11. CASE StepBoundary
    BY <2>11 DEF StepBoundary, GoTo, LostIsTold, Over
  <2>12. CASE EndTurn \/ Finish
    BY <2>12 DEF EndTurn, Finish, GoTo, LostIsTold, Over
  <2> QED BY <1>3, <2>1, <2>2, <2>3, <2>4, <2>5, <2>6, <2>7, <2>8, <2>9, <2>10, <2>11, <2>12
          DEF RunStep
<1>4. CASE ReaderFlush
  BY <1>0, <1>4 DEF ReaderFlush, LostIsTold, Over
<1>5. CASE Crash
  BY <1>5 DEF Crash, LostIsTold, Over
<1> QED BY <1>1, <1>2, <1>3, <1>4, <1>5 DEF Next

LEMMA WriterInit == Init => WriterInv
<1> SUFFICES ASSUME Init PROVE WriterInv
  OBVIOUS
<1>1. Idle.at = "idle"
  BY DEF Idle
<1> QED BY <1>1, InitTypes DEF Init, WriterInv, TornUnchecked, RotationHolds, QuietRun, LostIsTold

LEMMA WriterStep == WriterInv /\ [Next]_vars => WriterInv'
BY TypesStep, TornStep, RotationStep, QuietStep, LostStep DEF WriterInv

\* A turn that says `done` by itself has its rows on the disk: a row whose append failed
\* for good is told to the end of the turn, or to the next step boundary, and both
\* flush the chain first.
THEOREM DoneIsSaved == Spec => []TurnDoneMeansSaved
<1>1. WriterInv => TurnDoneMeansSaved
  BY DEF WriterInv, LostIsTold, QuietRun, TurnDoneMeansSaved
<1> QED BY <1>1, WriterInit, WriterStep, PTL DEF Spec
-----------------------------------------------------------------------------
(* The rows on the disk.                                                     *)

RowsOf(fs, s) == (ToSet(s) \cup UNION {ToSet(fs[n]) : n \in DOMAIN fs}) \ {Junk}
DiskRows == RowsOf(archives, live)

LEMMA RowsOfIs ==
    ASSUME NEW fs, NEW s, NEW r
    PROVE  r \in RowsOf(fs, s) <=>
             /\ r # Junk
             /\ r \in ToSet(s) \/ \E n \in DOMAIN fs : r \in ToSet(fs[n])
BY DEF RowsOf

\* What is put behind a sequence.
LEMMA AppendIs ==
    ASSUME NEW S, NEW s \in Seq(S), NEW x \in S
    PROVE  /\ Append(s, x) \in Seq(S) /\ Len(Append(s, x)) = Len(s) + 1 /\ Len(s) \in Nat
           /\ DOMAIN Append(s, x) = 1 .. Len(s) + 1 /\ DOMAIN s = 1 .. Len(s)
           /\ Append(s, x)[Len(s) + 1] = x /\ \A i \in 1 .. Len(s) : Append(s, x)[i] = s[i]
           /\ DOMAIN Append(s, x) = DOMAIN s \cup {Len(s) + 1} /\ Len(s) + 1 \notin DOMAIN s
<1> DEFINE a == Append(s, x)
<1>1. /\ a \in Seq(S) /\ Len(a) = Len(s) + 1 /\ a[Len(s) + 1] = x
      /\ \A i \in 1 .. Len(s) : a[i] = s[i]
  BY AppendProperties
<1> HIDE DEF a
<1>2. DOMAIN a = 1 .. Len(s) + 1 /\ Len(s) \in Nat /\ DOMAIN s = 1 .. Len(s)
  BY <1>1
<1>3. DOMAIN a = DOMAIN s \cup {Len(s) + 1} /\ Len(s) + 1 \notin DOMAIN s
  BY <1>2
<1> QED BY <1>1, <1>2, <1>3 DEF a

\* A file that is put behind the others, or behind which they end.
LEMMA RowsOfAppend ==
    ASSUME NEW S, NEW fs \in Seq(S), NEW h \in S, NEW s
    PROVE  RowsOf(Append(fs, h), s) = RowsOf(fs, s) \cup (ToSet(h) \ {Junk})
<1> DEFINE a == Append(fs, h)
<1>0. /\ a \in Seq(S) /\ Len(a) = Len(fs) + 1 /\ a[Len(fs) + 1] = h
      /\ \A i \in 1 .. Len(fs) : a[i] = fs[i]
  OBVIOUS
<1>1. DOMAIN a = DOMAIN fs \cup {Len(fs) + 1}
  BY AppendIs
<1>2. \A i \in DOMAIN fs : a[i] = fs[i]
  OBVIOUS
<1> HIDE DEF a
<1>3. ASSUME NEW r PROVE (\E n \in DOMAIN a : r \in ToSet(a[n]))
                           <=> (\E n \in DOMAIN fs : r \in ToSet(fs[n])) \/ r \in ToSet(h)
  BY ONLY <1>0, <1>1, <1>2
<1>4. ASSUME NEW r PROVE r \in RowsOf(a, s) <=> r \in RowsOf(fs, s) \cup (ToSet(h) \ {Junk})
  <2>1. /\ r \in RowsOf(a, s) <=>
             r # Junk /\ (r \in ToSet(s) \/ \E n \in DOMAIN a : r \in ToSet(a[n]))
        /\ r \in RowsOf(fs, s) <=>
             r # Junk /\ (r \in ToSet(s) \/ \E n \in DOMAIN fs : r \in ToSet(fs[n]))
    BY ONLY RowsOfIs
  <2> QED BY ONLY <1>3, <2>1
<1>5. RowsOf(a, s) = RowsOf(fs, s) \cup (ToSet(h) \ {Junk})
  BY ONLY <1>4
<1> QED BY <1>5 DEF a

\* A sequence is its front and its last.
LEMMA FrontAndLast ==
    ASSUME NEW S, NEW s \in Seq(S), s # <<>>
    PROVE  Append(Front(s), Last(s)) = s /\ Front(s) \in Seq(S) /\ Last(s) \in S
<1>1. /\ Front(s) \in Seq(S) /\ Len(Front(s)) = Len(s) - 1 /\ Len(s) \in Nat \ {0}
      /\ \A i \in 1 .. Len(s) - 1 : Front(s)[i] = s[i]
      /\ Last(s) \in S /\ Last(s) = s[Len(s)]
  BY FrontIs DEF Last
<1> DEFINE f == Front(s)
           a == Append(f, Last(s))
<1>2. /\ a \in Seq(S) /\ Len(a) = Len(f) + 1 /\ a[Len(f) + 1] = Last(s)
      /\ \A i \in 1 .. Len(f) : a[i] = f[i]
  BY <1>1, AppendProperties
<1> HIDE DEF a
<1>3. Len(a) = Len(s) /\ \A i \in 1 .. Len(s) : a[i] = s[i]
  <2>1. Len(a) = Len(s) /\ Len(f) + 1 = Len(s)
    BY <1>1, <1>2
  <2>2. ASSUME NEW i \in 1 .. Len(s) PROVE a[i] = s[i]
    <3>1. i = Len(s) \/ i \in 1 .. Len(s) - 1
      BY <1>1
    <3> HIDE DEF f
    <3> QED BY <1>1, <1>2, <2>1, <3>1 DEF f
  <2> QED BY <2>1, <2>2
<1>4. a = s
  BY <1>2, <1>3, SeqEqual
<1> QED BY <1>1, <1>4 DEF a

\* Lines that are put behind the live file.
LEMMA RowsOfLines ==
    ASSUME NEW s \in Seq(Line), NEW t \in Seq(Line), NEW l \in Line, NEW fs
    PROVE  /\ RowsOf(fs, s \o t) = RowsOf(fs, s) \cup (ToSet(t) \ {Junk})
           /\ ToSet(Append(s, l)) = ToSet(s) \cup {l}
           /\ RowsOf(fs, Append(s, l)) = RowsOf(fs, s) \cup ({l} \ {Junk})
<1>1. ToSet(s \o t) = ToSet(s) \cup ToSet(t)
  BY Joined
<1>2. ToSet(Append(s, l)) = ToSet(s) \cup {l}
  <2> DEFINE a == Append(s, l)
  <2>1. /\ DOMAIN a = DOMAIN s \cup {Len(s) + 1} /\ a[Len(s) + 1] = l
        /\ \A i \in DOMAIN s : a[i] = s[i]
    BY AppendIs
  <2> HIDE DEF a
  <2>2. ToSet(a) = ToSet(s) \cup {l}
    BY ONLY <2>1 DEF ToSet
  <2> QED BY <2>2 DEF a
<1>3. ASSUME NEW r
      PROVE  /\ r \in RowsOf(fs, s \o t) <=> r \in RowsOf(fs, s) \cup (ToSet(t) \ {Junk})
             /\ r \in RowsOf(fs, Append(s, l)) <=> r \in RowsOf(fs, s) \cup ({l} \ {Junk})
  BY <1>1, <1>2, RowsOfIs
<1>4. RowsOf(fs, s \o t) = RowsOf(fs, s) \cup (ToSet(t) \ {Junk})
  BY ONLY <1>3
<1>5. RowsOf(fs, Append(s, l)) = RowsOf(fs, s) \cup ({l} \ {Junk})
  BY ONLY <1>3
<1> QED BY <1>2, <1>4, <1>5

\* What a reader gets is what is on the disk; all of it, if it reads every archive.
LEMMA ReadersGet ==
    ASSUME TypeOK, NEW read
    PROVE  /\ ToSet(Rows(read)) \subseteq DiskRows
           /\ ToSet(AllRows) = DiskRows
           /\ AllRows \in Seq(Row) /\ DiskRows \subseteq Row
<1>1. /\ ToSet(Rows(read)) =
            (ToSet(live) \cup UNION {ToSet(archives[n]) : n \in read \cap DOMAIN archives}) \ {Junk}
      /\ ToSet(Rows(DOMAIN archives)) =
            (ToSet(live) \cup
             UNION {ToSet(archives[n]) : n \in DOMAIN archives \cap DOMAIN archives}) \ {Junk}
  BY RowsAre DEF TypeOK
<1>2. ToSet(Rows(read)) \subseteq DiskRows
  BY <1>1 DEF DiskRows, RowsOf
<1>3. ToSet(AllRows) = DiskRows
  BY <1>1 DEF DiskRows, RowsOf, AllRows
<1> QED BY <1>2, <1>3, RowsTypes DEF AllRows

\* A line that is written stands behind the others, or, behind a tail that could not be
\* looked at, runs into the last one.
Extended(line) ==
    /\ live' = Append(live, line)
    /\ RowsOf(archives, live') = DiskRows \cup ({line} \ {Junk})
Damaged ==
    /\ skips # 0 /\ RowsOf(archives, live') \subseteq DiskRows
    /\ DOMAIN live' = DOMAIN live /\ \A i \in DOMAIN live : live'[i] \in {live[i], Junk}

LEMMA WriteAppends ==
    ASSUME TypeOK, TornUnchecked, NEW line \in Line, NEW ended, Write(line, ended)
    PROVE  Extended(line) \/ Damaged
<1>0. live \in Seq(Line)
  BY DEF TypeOK
<1>1. CASE ~(torn /\ checked)
  <2>1. live' = Append(live, line)
    BY <1>1 DEF Write
  <2>2. RowsOf(archives, Append(live, line)) = RowsOf(archives, live) \cup ({line} \ {Junk})
    BY <1>0, RowsOfLines
  <2> QED BY <2>1, <2>2 DEF DiskRows, Extended
<1>2. CASE torn /\ checked
  <2>1. /\ skips # 0 /\ DOMAIN live' = DOMAIN live
        /\ \A i \in DOMAIN live : live'[i] \in {live[i], Junk}
    BY <1>0, <1>2 DEF Write, TornUnchecked
  <2>2. ToSet(live') \subseteq ToSet(live) \cup {Junk}
    BY ONLY <2>1 DEF ToSet
  <2>3. RowsOf(archives, live') \subseteq RowsOf(archives, live)
    BY ONLY <2>2 DEF RowsOf
  <2> QED BY <2>1, <2>3 DEF Damaged, DiskRows
<1> QED BY <1>1, <1>2

\* What removing the archives leaves.
LEMMA RemovedAre ==
    ASSUME TypeOK, NEW kept \in SUBSET DOMAIN archives, RemoveArchives(kept)
    PROVE  /\ kept = {} => archives' = <<>>
           /\ \A n \in DOMAIN archives' : archives'[n] \in {archives[k] : k \in DOMAIN archives}
           /\ halved' = (halved \/ kept # {}) /\ unlinks' = unlinks + Cardinality(kept)
<1>1. archives \in Seq(Seq(Line)) /\ archives' = Kept(archives, kept)
  BY DEF TypeOK, RemoveArchives
<1>2. /\ archives' \in Seq(Seq(Line))
      /\ ToSet(archives') = {archives[k] : k \in kept \cap DOMAIN archives}
  BY <1>1, KeptIs
<1>3. \A n \in DOMAIN archives' : archives'[n] \in ToSet(archives')
  BY DEF ToSet
<1>4. ASSUME kept = {} PROVE archives' = <<>>
  <2>1. DOMAIN archives' = {}
    BY <1>2, <1>3, <1>4
  <2> QED BY <1>2, <2>1
<1> QED BY <1>2, <1>3, <1>4 DEF RemoveArchives

LEMMA FewerRows ==
    ASSUME TypeOK, NEW kept \in SUBSET DOMAIN archives, RemoveArchives(kept),
           ToSet(live') \subseteq ToSet(live) \cup DiskRows
    PROVE  DiskRows' \subseteq DiskRows
<1>1. \A n \in DOMAIN archives' : archives'[n] \in {archives[k] : k \in DOMAIN archives}
  BY RemovedAre
<1> QED BY <1>1 DEF DiskRows, RowsOf

\* An append that succeeds puts its row on the disk; no other step of the writer changes the
\* rows, unless a tail could not be looked at.
LEMMA DiskAfterAppend ==
    ASSUME WriterInv, AppendStep
    PROVE  /\ ~Appended => DiskRows' \subseteq DiskRows /\ (skips = 0 => DiskRows' = DiskRows)
           /\ Appended => /\ DiskRows' \subseteq DiskRows \cup {Head(chain)}
                          /\ skips = 0 => DiskRows' = DiskRows \cup {Head(chain)}
           /\ UNCHANGED <<plan, ticket, run, turn>>
<1>0. /\ TypeOK /\ TornUnchecked /\ RotationHolds
      /\ live \in Seq(Line) /\ archives \in Seq(Seq(Line)) /\ chain \in Seq(Row)
      /\ job.head \in Seq(Line) /\ job.tail \in Seq(Line) /\ Junk \in Line
  BY BoundsAreNumbers DEF WriterInv, TypeOK, Job
<1>a. UNCHANGED <<plan, ticket, run, turn>>
  BY DEF AppendStep, BeginRotation, ArchiveSwapped, ArchiveSwapFails, LiveSwapped, LiveSwapFails,
         RotationUnblocked, TailUnread, Appended, AppendRetried, AppendFails
\* the lines of the two halves
<1>b. ASSUME job.at \in {"archive", "live"}
      PROVE  /\ ToSet(live) = ToSet(job.head) \cup ToSet(job.tail)
             /\ RowsOf(archives, live) = RowsOf(archives, job.tail) \cup (ToSet(job.head) \ {Junk})
  <2>1. live = job.head \o job.tail
    BY <1>0, <1>b DEF RotationHolds
  <2>2. ToSet(live) = ToSet(job.head) \cup ToSet(job.tail)
    BY <1>0, <2>1, Joined
  <2> QED BY <2>2 DEF RowsOf
<1>c. ASSUME job.at = "live"
      PROVE  /\ archives = Append(Front(archives), job.head) /\ Front(archives) \in Seq(Seq(Line))
             /\ \A s : RowsOf(archives, s) = RowsOf(Front(archives), s) \cup (ToSet(job.head) \ {Junk})
  <2>1. archives # <<>> /\ Last(archives) = job.head
    BY <1>0, <1>c DEF RotationHolds
  <2>2. archives = Append(Front(archives), job.head) /\ Front(archives) \in Seq(Seq(Line))
    BY <1>0, <2>1, FrontAndLast
  <2> DEFINE front == Front(archives)
  <2>3. \A fs \in Seq(Seq(Line)), h \in Seq(Line) : \A s :
            RowsOf(Append(fs, h), s) = RowsOf(fs, s) \cup (ToSet(h) \ {Junk})
    BY RowsOfAppend
  <2>4. \A s : RowsOf(Append(front, job.head), s) = RowsOf(front, s) \cup (ToSet(job.head) \ {Junk})
    <3> HIDE DEF front
    <3>1. front \in Seq(Seq(Line)) /\ job.head \in Seq(Line)
      BY <1>0, <2>2 DEF front
    <3> QED BY ONLY <2>3, <3>1
  <2> HIDE DEF front
  <2>5. \A s : RowsOf(archives, s) = RowsOf(front, s) \cup (ToSet(job.head) \ {Junk})
    <3>1. archives = Append(front, job.head)
      BY <2>2 DEF front
    <3> QED BY ONLY <2>4, <3>1
  <2> QED BY <2>2, <2>5 DEF front
<1>1. CASE BeginRotation \/ ArchiveSwapFails \/ RotationUnblocked \/ TailUnread
  <2>1. UNCHANGED <<live, archives>>
    BY <1>1 DEF BeginRotation, ArchiveSwapFails, RotationUnblocked, TailUnread
  <2>2. ~Appended
    <3>1. chain \in Seq(Row) /\ (Appended => chain # <<>> /\ chain' = Tail(chain))
      BY <1>0 DEF Appended, MayAppend, Appending
    <3>2. chain' = chain
      BY <1>1 DEF BeginRotation, ArchiveSwapFails, RotationUnblocked, TailUnread
    <3>3. chain # <<>> => Tail(chain) # chain
      BY <3>1, HeadTailProperties
    <3> QED BY <3>1, <3>2, <3>3
  <2> QED BY <1>a, <2>1, <2>2 DEF DiskRows
<1>2. CASE ArchiveSwapped
  <2>1. archives' = Append(archives, job.head) /\ live' = live /\ job.at = "archive"
    BY <1>2 DEF ArchiveSwapped
  <2>2. RowsOf(Append(archives, job.head), live) = RowsOf(archives, live) \cup (ToSet(job.head) \ {Junk})
    BY <1>0, RowsOfAppend
  <2>3. ToSet(job.head) \ {Junk} \subseteq RowsOf(archives, live)
    BY <1>b, <2>1 DEF RowsOf
  <2>4. ~Appended
    BY <2>1 DEF Appended, MayAppend
  <2> QED BY <1>a, <2>1, <2>2, <2>3, <2>4 DEF DiskRows
<1>3. CASE LiveSwapped
  <2>1. live' = job.tail /\ archives' = archives /\ job.at = "live"
    BY <1>3 DEF LiveSwapped
  <2>2. RowsOf(archives, job.tail) = RowsOf(archives, job.tail) \cup (ToSet(job.head) \ {Junk})
    BY <1>c, <2>1
  <2>3. ~Appended
    BY <2>1 DEF Appended, MayAppend
  <2> QED BY <1>a, <1>b, <2>1, <2>2, <2>3 DEF DiskRows
<1>4. CASE LiveSwapFails
  <2>1. live' = live /\ archives' \in {archives, Front(archives)} /\ job.at = "live"
    BY <1>4 DEF LiveSwapFails
  <2>2. RowsOf(archives, live) = RowsOf(Front(archives), live) \cup (ToSet(job.head) \ {Junk})
    BY <1>c, <2>1
  <2>3. ToSet(job.head) \ {Junk} \subseteq RowsOf(Front(archives), live)
    BY <1>b, <2>1 DEF RowsOf
  <2>4. ~Appended
    BY <2>1 DEF Appended, MayAppend
  <2> QED BY <1>a, <2>1, <2>2, <2>3, <2>4 DEF DiskRows
<1>5. CASE Appended
  <2>1. Write(Head(chain), TRUE) /\ archives' = archives /\ MayAppend
    BY <1>5 DEF Appended
  <2>2. Head(chain) \in Row /\ Head(chain) \in Line /\ Head(chain) # Junk
    BY <1>0, <2>1, HeadIs DEF Row, Junk
  <2>3. Extended(Head(chain)) \/ Damaged
    BY <1>0, <2>1, <2>2, WriteAppends
  <2> QED BY <1>5, <1>a, <2>1, <2>2, <2>3 DEF DiskRows, Extended, Damaged
<1>6. CASE (AppendRetried \/ AppendFails) /\ ~Appended
  <2>1. archives' = archives /\ LeavePart
    BY <1>6 DEF AppendRetried, AppendFails
  <2>2. CASE UNCHANGED <<live, torn>>
    BY <1>6, <1>a, <2>1, <2>2 DEF DiskRows
  <2>3. CASE Write(Junk, FALSE)
    <3>1. Extended(Junk) \/ Damaged
      BY <1>0, <2>3, WriteAppends
    <3> QED BY <1>6, <1>a, <2>1, <3>1 DEF DiskRows, Extended, Damaged
  <2> QED BY <2>1, <2>2, <2>3 DEF LeavePart
<1> QED BY <1>1, <1>2, <1>3, <1>4, <1>5, <1>6 DEF AppendStep

LEMMA DiskAfterCrash ==
    ASSUME WriterInv, Crash
    PROVE  /\ archives' = archives
           /\ \/ live' = live /\ DiskRows' = DiskRows
              \/ /\ MayAppend
                 /\ \E line \in {Junk, Head(chain)} :
                      /\ live' = Append(live, line) /\ line \in Line
                      /\ DiskRows' = DiskRows \cup ({line} \ {Junk})
              \/ Damaged /\ DiskRows' \subseteq DiskRows
<1>1. TypeOK /\ TornUnchecked /\ chain \in Seq(Row) /\ archives' = archives
  BY DEF WriterInv, TypeOK, Crash
<1>2. CASE UNCHANGED <<live, torn>>
  BY <1>1, <1>2 DEF DiskRows
<1>3. ASSUME MayAppend, NEW line \in {Junk, Head(chain)}, Write(line, FALSE)
      PROVE  \/ /\ live' = Append(live, line) /\ line \in Line
                /\ DiskRows' = DiskRows \cup ({line} \ {Junk})
             \/ Damaged /\ DiskRows' \subseteq DiskRows
  <2>1. line \in Line
    BY <1>1, <1>3, HeadIs, BoundsAreNumbers
  <2>2. Extended(line) \/ Damaged
    BY <1>1, <1>3, <2>1, WriteAppends
  <2> QED BY <1>1, <2>1, <2>2 DEF DiskRows, Extended, Damaged
<1> QED BY <1>1, <1>2, <1>3 DEF Crash
-----------------------------------------------------------------------------
(* The numbers of the rows.                                                  *)

\* No row is newer than the tickets; the chain is in order, and newer than the disk.
NumberInv ==
    /\ \A r \in DiskRows \cup ToSet(plan.rows) \cup ToSet(chain) : r <= ticket
    /\ Rising(chain)
    /\ \A d \in DiskRows, c \in ToSet(chain) : d < c

LEMMA TailIs ==
    ASSUME NEW s \in Seq(Row), s # <<>>, Rising(s)
    PROVE  /\ Rising(Tail(s)) /\ ToSet(Tail(s)) \subseteq ToSet(s) /\ Head(s) \in ToSet(s)
           /\ \A r \in ToSet(Tail(s)) : Head(s) < r
<1> DEFINE t == Tail(s)
<1>1. /\ t \in Seq(Row) /\ Len(t) = Len(s) - 1 /\ Head(s) = s[1] /\ Len(s) \in Nat \ {0}
      /\ \A i \in 1 .. Len(t) : t[i] = s[i + 1]
  BY HeadTailProperties, EmptySeq
<1> HIDE DEF t
<1>2. /\ DOMAIN t = 1 .. Len(s) - 1 /\ DOMAIN s = 1 .. Len(s) /\ 1 \in DOMAIN s
      /\ \A i \in DOMAIN t : t[i] = s[i + 1] /\ i + 1 \in DOMAIN s /\ 1 < i + 1
  BY <1>1
<1>3. Rising(t)
  <2>1. \A m, n \in DOMAIN t : m < n => m + 1 < n + 1
    BY <1>2
  <2> QED BY ONLY Rising(s), <1>2, <2>1 DEF Rising
<1>4. ToSet(t) \subseteq ToSet(s) /\ Head(s) \in ToSet(s)
  BY <1>1, <1>2 DEF ToSet
<1>5. \A i \in DOMAIN t : Head(s) < t[i]
  BY <1>1, <1>2 DEF Rising
<1> QED BY <1>3, <1>4, <1>5 DEF t, ToSet

\* A new row behind rows in order.
LEMMA RisingAppend ==
    ASSUME NEW s \in Seq(Row), NEW r \in Row, Rising(s), \A q \in ToSet(s) : q < r
    PROVE  Rising(Append(s, r)) /\ ToSet(Append(s, r)) = ToSet(s) \cup {r}
<1> DEFINE a == Append(s, r)
<1>1. /\ DOMAIN a = DOMAIN s \cup {Len(s) + 1} /\ a[Len(s) + 1] = r /\ DOMAIN s = 1 .. Len(s)
      /\ Len(s) \in Nat /\ \A i \in 1 .. Len(s) : a[i] = s[i]
  BY AppendIs
<1> HIDE DEF a
<1>2. Rising(a)
  <2>1. ASSUME NEW m \in DOMAIN a, NEW n \in DOMAIN a, m < n PROVE a[m] < a[n]
    <3>1. m \in DOMAIN s
      BY <1>1, <2>1
    <3>2. CASE n \in DOMAIN s
      BY <1>1, <2>1, <3>1, <3>2 DEF Rising
    <3>3. CASE n = Len(s) + 1
      BY <1>1, <3>1, <3>3 DEF ToSet
    <3> QED BY <1>1, <3>2, <3>3
  <2> QED BY <2>1 DEF Rising
<1>3. ToSet(a) = ToSet(s) \cup {r}
  BY ONLY <1>1 DEF ToSet
<1> QED BY <1>2, <1>3 DEF a

\* The rows a caller took out are lines that are not rows.
LEMMA UnblockedRows ==
    ASSUME TypeOK, NEW rows \in Seq(Row), NEW answers
    PROVE  /\ Parsed(Unblocked(rows, answers)) \in Seq(Row)
           /\ ToSet(Parsed(Unblocked(rows, answers))) \subseteq ToSet(rows)
           /\ Rising(rows) => Rising(Parsed(Unblocked(rows, answers)))
           /\ \A r \in ToSet(rows) : r \in answers => r \in ToSet(Parsed(Unblocked(rows, answers)))
           /\ \A i \in DOMAIN rows : i <= turn.from =>
                rows[i] \in ToSet(Parsed(Unblocked(rows, answers)))
<1> DEFINE u == Unblocked(rows, answers)
<1>1. u \in Seq(Line) /\ DOMAIN u = DOMAIN rows
  BY UnblockedIs
<1>2. \A i \in DOMAIN rows : u[i] = IF i <= turn.from \/ rows[i] \in answers THEN rows[i] ELSE Junk
  BY DEF Unblocked
<1> HIDE DEF u
<1>3. /\ Parsed(u) \in Seq(Row) /\ ToSet(Parsed(u)) = ToSet(u) \ {Junk}
      /\ Ordered(u) => Rising(Parsed(u))
  BY <1>1, ParsedIs
<1>4. \A i \in DOMAIN rows : rows[i] \in Row /\ rows[i] # Junk
  <2>1. \A i \in DOMAIN rows : rows[i] \in Row
    OBVIOUS
  <2>2. Junk \notin Row
    BY DEF Row, Junk
  <2> QED BY ONLY <2>1, <2>2
<1>5. ToSet(u) \ {Junk} \subseteq ToSet(rows)
  BY ONLY <1>1, <1>2 DEF ToSet
<1>6. ASSUME Rising(rows) PROVE Ordered(u)
  BY ONLY <1>1, <1>2, <1>6 DEF Rising, Ordered
<1>7. \A i \in DOMAIN rows : i <= turn.from \/ rows[i] \in answers => rows[i] \in ToSet(u) \ {Junk}
  <2>1. \A i \in DOMAIN rows : i <= turn.from \/ rows[i] \in answers => u[i] = rows[i]
    BY ONLY <1>2
  <2> QED BY ONLY <1>1, <1>4, <2>1 DEF ToSet
<1>8. \A r \in ToSet(rows) : \E i \in DOMAIN rows : r = rows[i]
  BY DEF ToSet
<1> QED BY <1>3, <1>5, <1>6, <1>7, <1>8 DEF u

\* The rows a rewrite is about to put down: on the disk already, or new.
LEMMA PlannedRows ==
    ASSUME TypeOK, QuietRun, RunStep, run' = "writing", run # "writing"
    PROVE  /\ UNCHANGED <<archives, live>>
           /\ ticket <= ticket'
           /\ \A r \in ToSet(plan'.rows) : r \in DiskRows \/ (ticket < r /\ r <= ticket')
           /\ \/ UNCHANGED chain
              \/ /\ run = "loading" /\ chain' \in Seq(Row) /\ Rising(chain')
                 /\ \A r \in ToSet(chain') : ticket < r /\ r <= ticket'
<1>0. /\ AllRows \in Seq(Row) /\ ToSet(AllRows) = DiskRows /\ ticket \in Nat
  <2>1. ticket \in Nat
    BY DEF TypeOK
  <2> QED BY <2>1, ReadersGet
<1>1. CASE LoadToResume
  <2>1. PICK answer \in Seq(Row), sent \in Seq(Row) :
             /\ chain' = answer
             /\ plan' = [rows |-> AllRows \o answer \o sent, gone |-> {},
                         new |-> ToSet(answer \o sent), next |-> "ready"]
             /\ ticket' \in 0 .. MaxRows /\ ticket <= ticket'
             /\ Rising(answer \o sent)
             /\ \A r \in ToSet(answer \o sent) : ticket < r /\ r <= ticket'
    BY <1>1, ResumeDoes
  <2>2. /\ ToSet(answer \o sent) = ToSet(answer) \cup ToSet(sent)
        /\ Len(answer \o sent) = Len(answer) + Len(sent)
        /\ \A k \in 1 .. Len(answer) : (answer \o sent)[k] = answer[k]
        /\ answer \o sent \in Seq(Row)
    BY Joined
  <2>3. ToSet(AllRows \o answer \o sent) = DiskRows \cup ToSet(answer \o sent)
    <3>1. AllRows \o answer \in Seq(Row) /\ ToSet(AllRows \o answer) = DiskRows \cup ToSet(answer)
      BY <1>0, Joined
    <3>2. ToSet(AllRows \o answer \o sent) = ToSet(AllRows \o answer) \cup ToSet(sent)
      <4> DEFINE a == AllRows \o answer
      <4>1. a \in Seq(Row)
        BY <3>1
      <4> HIDE DEF a
      <4>2. ToSet(a \o sent) = ToSet(a) \cup ToSet(sent)
        BY <4>1, Joined
      <4> QED BY <4>2 DEF a
    <3> QED BY <2>2, <3>1, <3>2
  <2>4. Rising(answer)
    <3>1. DOMAIN answer \subseteq DOMAIN (answer \o sent)
          /\ \A k \in DOMAIN answer : (answer \o sent)[k] = answer[k]
      BY <2>2
    <3> QED BY ONLY <2>1, <3>1 DEF Rising
  <2>5. UNCHANGED <<archives, live>> /\ run = "loading"
    BY <1>1 DEF LoadToResume
  <2>6. plan'.rows = AllRows \o answer \o sent
    BY <2>1
  <2>7. \A r \in ToSet(answer) : r \in ToSet(answer \o sent)
    BY <2>2
  <2> QED BY <1>0, <2>1, <2>3, <2>4, <2>5, <2>6, <2>7
<1>2. CASE LoadToRewind
  <2>1. PICK n \in 0 .. Len(AllRows) : plan'.rows = Append(SubSeq(AllRows, 1, n), ticket + 1)
    BY <1>2, RewindDoes
  <2>2. ticket' = ticket + 1 /\ ticket + 1 \in Row
    BY <1>2, RewindDoes
  <2>3. SubSeq(AllRows, 1, n) \in Seq(Row) /\ ToSet(SubSeq(AllRows, 1, n)) \subseteq DiskRows
    BY <1>0, PrefixIs
  <2>4. ToSet(plan'.rows) = ToSet(SubSeq(AllRows, 1, n)) \cup {ticket + 1}
    <3> DEFINE a == SubSeq(AllRows, 1, n)
    <3> HIDE DEF a
    <3>1. a \in Seq(Row) /\ plan'.rows = Append(a, ticket + 1)
      BY <2>1, <2>3 DEF a
    <3>2. /\ DOMAIN Append(a, ticket + 1) = DOMAIN a \cup {Len(a) + 1}
          /\ Append(a, ticket + 1)[Len(a) + 1] = ticket + 1 /\ DOMAIN a = 1 .. Len(a)
          /\ \A i \in 1 .. Len(a) : Append(a, ticket + 1)[i] = a[i]
      BY <2>2, <3>1, AppendIs
    <3>3. ToSet(Append(a, ticket + 1)) = ToSet(a) \cup {ticket + 1}
      BY ONLY <3>2 DEF ToSet
    <3> QED BY <3>1, <3>3 DEF a
  <2>5. UNCHANGED <<archives, live, chain>>
    BY <1>2 DEF LoadToRewind
  <2> QED BY <1>0, <2>2, <2>3, <2>4, <2>5
<1>3. CASE LoadToAmend
  <2>1. ticket' = ticket /\ plan'.rows \in {AllRows, Front(AllRows)} /\ AllRows # <<>>
    BY <1>3, AmendDoes
  <2>2. ToSet(Front(AllRows)) \subseteq ToSet(AllRows)
    BY <1>0, <2>1, FrontIs
  <2>3. UNCHANGED <<archives, live, chain>>
    BY <1>3 DEF LoadToAmend
  <2> QED BY <1>0, <2>1, <2>2, <2>3
<1>4. CASE LoadAfterBlock
  <2>1. ToSet(plan'.rows) \subseteq DiskRows
    <3>1. CASE plan'.rows = <<>>
      BY <3>1 DEF ToSet
    <3>2. ASSUME NEW read, NEW answers, plan'.rows = Parsed(Unblocked(Rows(read), answers))
          PROVE  ToSet(plan'.rows) \subseteq DiskRows
      <4>1. Rows(read) \in Seq(Row) /\ ToSet(Rows(read)) \subseteq DiskRows
        BY RowsTypes, ReadersGet
      <4>2. ToSet(Parsed(Unblocked(Rows(read), answers))) \subseteq ToSet(Rows(read))
        BY <4>1, UnblockedRows
      <4> QED BY <3>2, <4>1, <4>2
    <3> QED BY <1>4, <3>1, <3>2, BlockDoes
  <2>2. ticket' = ticket
    BY <1>4, BlockDoes
  <2>3. UNCHANGED <<archives, live, chain>>
    BY <1>4 DEF LoadAfterBlock
  <2> QED BY <1>0, <2>1, <2>2, <2>3
<1>5. CASE ArchivesRemoved
  BY <1>5 DEF ArchivesRemoved, QuietRun
<1>6. CASE Start \/ RepairStubs \/ TranscriptWriteFails \/ StrictLoadFails
  BY <1>6 DEF Start, RepairStubs, TranscriptWriteFails, StrictLoadFails, GoTo
<1> QED BY <1>1, <1>2, <1>3, <1>4, <1>5, <1>6 DEF RunStep, CreateRun, RunCreated, StartFlushThrows,
          ResumeRun, AmendFlushThrows, TranscriptWritten, BeginSteps, AppendMessage, EndStep,
          StepBoundary, EndTurn, EndAtLimit, Stop, Finish, GoTo

LEMMA DiskAfterRun ==
    ASSUME WriterInv, RunStep
    PROVE  /\ ~(RepairStubs \/ TranscriptWritten \/ ArchivesRemoved)
                => UNCHANGED <<archives, live>> /\ DiskRows' = DiskRows
           /\ ~TranscriptWritten => DiskRows' \subseteq DiskRows
           /\ DiskRows' \subseteq DiskRows \cup ToSet(plan.rows)
<1>0. TypeOK
  BY DEF WriterInv
<1>1. CASE RepairStubs
  <2>1. PICK unread \in SUBSET DOMAIN archives, kept \in SUBSET DOMAIN archives :
          live' = Rows(DOMAIN archives \ unread) /\ RemoveArchives(kept)
    BY <1>1 DEF RepairStubs
  <2>2. ToSet(live') \subseteq DiskRows
    BY <1>0, <2>1, ReadersGet
  <2>3. DiskRows' \subseteq DiskRows
    BY <1>0, <2>1, <2>2, FewerRows
  <2> QED BY <1>1, <2>3
<1>2. CASE TranscriptWritten
  <2>1. live' = plan.rows /\ archives' = archives
    BY <1>2 DEF TranscriptWritten
  <2>2. DiskRows' \subseteq DiskRows \cup ToSet(plan.rows)
    BY <2>1 DEF DiskRows, RowsOf
  <2> QED BY <1>2, <2>2
<1>3. CASE ArchivesRemoved
  <2>1. PICK kept \in SUBSET DOMAIN archives : RemoveArchives(kept)
    BY <1>3 DEF ArchivesRemoved
  <2>2. live' = live
    BY <1>3 DEF ArchivesRemoved
  <2>3. DiskRows' \subseteq DiskRows
    BY <1>0, <2>1, <2>2, FewerRows
  <2> QED BY <1>3, <2>3
<1>4. CASE ~(RepairStubs \/ TranscriptWritten \/ ArchivesRemoved)
  <2>1. UNCHANGED <<archives, live>>
    BY <1>4 DEF RunStep, Start, CreateRun, RunCreated, StartFlushThrows, ResumeRun,
          LoadToResume, LoadToRewind, LoadToAmend, StrictLoadFails, AmendFlushThrows,
          LoadAfterBlock, TranscriptWriteFails, BeginSteps, AppendMessage, EndStep, StepBoundary,
          EndTurn, EndAtLimit, Stop, Finish
  <2> QED BY <1>4, <2>1 DEF DiskRows
<1> QED BY <1>1, <1>2, <1>3, <1>4

\* The rows of a sequence of rows.
LEMMA Elements == ASSUME NEW s \in Seq(Row) PROVE ToSet(s) \subseteq Row
BY DEF ToSet

LEMMA NumberStep ==
    ASSUME WriterInv, NumberInv, [Next]_vars
    PROVE  NumberInv'
<1>0. /\ TypeOK /\ QuietRun /\ chain \in Seq(Row) /\ ticket \in Nat /\ ToSet(<<>>) = {}
      /\ NoPlan.rows = <<>> /\ Rising(<<>>) /\ DiskRows \subseteq Row /\ Row \subseteq Nat
  <2>1. TypeOK /\ QuietRun
    BY DEF WriterInv
  <2>2. chain \in Seq(Row) /\ ticket \in Nat
    BY <2>1 DEF TypeOK
  <2>3. ToSet(<<>>) = {} /\ NoPlan.rows = <<>> /\ Rising(<<>>)
    BY DEF ToSet, NoPlan, Rising
  <2> QED BY <2>1, <2>2, <2>3, ReadersGet, BoundsAreNumbers
<1>1. CASE UNCHANGED vars
  BY <1>1 DEF vars, NumberInv, DiskRows
<1>2. CASE AppendStep
  <2>1. CASE Appended
    <3>1. chain # <<>> /\ chain' = Tail(chain) /\ UNCHANGED <<plan, ticket>>
          /\ DiskRows' \subseteq DiskRows \cup {Head(chain)}
      BY <1>2, <2>1, DiskAfterAppend DEF Appended, MayAppend, Appending
    <3>2. /\ Rising(Tail(chain)) /\ ToSet(Tail(chain)) \subseteq ToSet(chain)
          /\ Head(chain) \in ToSet(chain) /\ \A r \in ToSet(Tail(chain)) : Head(chain) < r
      BY <1>0, <3>1, TailIs DEF NumberInv
    <3> QED BY ONLY NumberInv, <3>1, <3>2 DEF NumberInv
  <2>2. CASE ~Appended
    <3>1. DiskRows' \subseteq DiskRows /\ UNCHANGED <<plan, ticket>>
      BY <1>2, <2>2, DiskAfterAppend
    <3>2. chain' = chain \/ (chain # <<>> /\ chain' = Tail(chain))
      BY <1>2, <2>2 DEF AppendStep, BeginRotation, ArchiveSwapped, ArchiveSwapFails, LiveSwapped,
            LiveSwapFails, RotationUnblocked, TailUnread, AppendRetried, AppendFails, MayAppend, Appending
    <3>3. Rising(chain') /\ ToSet(chain') \subseteq ToSet(chain)
      BY <1>0, <3>2, TailIs DEF NumberInv
    <3> QED BY ONLY NumberInv, <3>1, <3>3 DEF NumberInv
  <2> QED BY <2>1, <2>2
<1>3. CASE RunStep
  <2>1. CASE run' = "writing" /\ run # "writing"
    <3>1. /\ UNCHANGED <<archives, live>>
          /\ ticket <= ticket'
          /\ \A r \in ToSet(plan'.rows) : r \in DiskRows \/ (ticket < r /\ r <= ticket')
          /\ \/ UNCHANGED chain
             \/ /\ run = "loading" /\ chain' \in Seq(Row) /\ Rising(chain')
                /\ \A r \in ToSet(chain') : ticket < r /\ r <= ticket'
      BY <1>0, <1>3, <2>1, PlannedRows
    <3>2. DiskRows' = DiskRows
      BY <3>1 DEF DiskRows
    <3>3. \A r \in DiskRows \cup ToSet(chain) : r \in Nat /\ r <= ticket
      BY <1>0 DEF NumberInv, ToSet
    <3>4. ticket' \in Nat
      BY <1>0, <1>3, RunTypes DEF TypeOK
    <3>5. ToSet(plan'.rows) \subseteq Nat /\ ToSet(chain') \subseteq Nat
      <4>1. chain' \in Seq(Row) /\ plan'.rows \in Seq(Row)
        BY <1>0, <1>3, RunTypes DEF TypeOK, Plan
      <4> QED BY <1>0, <4>1, Elements
    <3>6. Rising(chain') /\ \A d \in DiskRows, c \in ToSet(chain') : d < c
      <4>1. CASE UNCHANGED chain
        BY <4>1 DEF NumberInv
      <4>2. CASE Rising(chain') /\ \A r \in ToSet(chain') : ticket < r /\ r <= ticket'
        BY ONLY <1>0, <3>3, <3>4, <3>5, <4>2
      <4> QED BY <3>1, <4>1, <4>2
    <3>7. \A r \in DiskRows \cup ToSet(plan'.rows) \cup ToSet(chain') : r <= ticket'
      <4>1. \A r \in DiskRows \cup ToSet(chain) : r <= ticket'
        BY ONLY <1>0, <3>1, <3>3, <3>4
      <4> QED BY ONLY <3>1, <4>1
    <3> QED BY <3>2, <3>6, <3>7 DEF NumberInv
  <2>2. CASE CreateRun \/ AppendMessage
    <3>1. /\ DiskRows' = DiskRows /\ plan' = plan /\ ticket' = ticket + 1 /\ ticket < MaxRows
      BY <1>3, <2>2, DiskAfterRun DEF CreateRun, AppendMessage, RepairStubs, TranscriptWritten,
            ArchivesRemoved
    <3>2. ticket + 1 \in Row
      BY <1>0, <3>1, NewRow
    <3>3. \A r \in DiskRows \cup ToSet(plan.rows) \cup ToSet(chain) : r \in Nat /\ r <= ticket
      <4>1. plan.rows \in Seq(Row)
        BY <1>0 DEF TypeOK, Plan
      <4>2. DiskRows \cup ToSet(plan.rows) \cup ToSet(chain) \subseteq Nat
        BY <1>0, <4>1, Elements
      <4> QED BY <4>2 DEF NumberInv
    <3>4. Rising(chain') /\ ToSet(chain') \subseteq ToSet(chain) \cup {ticket + 1}
      <4>1. CASE CreateRun
        <5>1. chain' = <<ticket + 1>>
          BY <4>1 DEF CreateRun
        <5> QED BY <5>1 DEF Rising, ToSet
      <4>2. CASE AppendMessage
        <5>1. chain' = Append(chain, ticket + 1)
          BY <4>2 DEF AppendMessage
        <5>2. Rising(chain) /\ \A q \in ToSet(chain) : q < ticket + 1
          <6>1. Rising(chain)
            BY DEF NumberInv
          <6>2. ASSUME NEW q \in ToSet(chain) PROVE q < ticket + 1
            <7>1. ticket \in Nat
              BY <1>0
            <7>2. q \in Nat /\ q <= ticket
              BY ONLY <3>3, q \in ToSet(chain)
            <7> QED BY ONLY <7>1, <7>2
          <6> QED BY <6>1, <6>2
        <5> QED BY <1>0, <3>2, <5>1, <5>2, RisingAppend
      <4> QED BY <2>2, <4>1, <4>2
    <3>5. \A d \in DiskRows, c \in ToSet(chain') : d < c
      <4>1. \A d \in DiskRows, c \in ToSet(chain) : d < c
        BY DEF NumberInv
      <4>2. \A d \in DiskRows : d < ticket + 1
        BY ONLY <1>0, <3>3
      <4> QED BY ONLY <3>4, <4>1, <4>2
    <3>6. \A r \in DiskRows \cup ToSet(plan.rows) \cup ToSet(chain') : r <= ticket + 1
      <4>1. \A r \in DiskRows \cup ToSet(plan.rows) \cup ToSet(chain) : r <= ticket + 1
        BY ONLY <1>0, <3>3
      <4>2. ticket + 1 <= ticket + 1
        BY <1>0
      <4> QED BY ONLY <3>4, <4>1, <4>2
    <3> QED BY <3>1, <3>4, <3>5, <3>6 DEF NumberInv
  <2>3. CASE TranscriptWritten
    <3>1. chain = <<>> /\ UNCHANGED <<chain, plan, ticket>>
      BY <2>3 DEF TranscriptWritten, FlushPasses, Drained
    <3>2. DiskRows' \subseteq DiskRows \cup ToSet(plan.rows)
      BY <1>3, DiskAfterRun
    <3> QED BY <1>0, <3>1, <3>2 DEF NumberInv
  <2>4. CASE ~(CreateRun \/ AppendMessage \/ TranscriptWritten) /\ ~(run' = "writing" /\ run # "writing")
    <3>1. UNCHANGED <<chain, ticket>> /\ plan' \in {plan, NoPlan}
      BY <1>3, <2>4 DEF RunStep, Start, RunCreated, StartFlushThrows, ResumeRun, RepairStubs,
            LoadToResume, LoadToRewind, LoadToAmend, StrictLoadFails, AmendFlushThrows,
            LoadAfterBlock, TranscriptWriteFails, ArchivesRemoved, BeginSteps, EndStep,
            StepBoundary, EndTurn, EndAtLimit, Stop, Finish, GoTo, Edit
    <3>2. DiskRows' \subseteq DiskRows
      BY <1>3, <2>4, DiskAfterRun
    <3>3. ToSet(plan'.rows) \subseteq ToSet(plan.rows)
      BY <1>0, <3>1
    <3> QED BY ONLY NumberInv, <3>1, <3>2, <3>3 DEF NumberInv
  <2> QED BY <2>1, <2>2, <2>3, <2>4
<1>4. CASE ReaderFlush
  BY <1>4 DEF ReaderFlush, NumberInv, DiskRows
<1>5. CASE Crash
  <2>1. chain' = <<>> /\ plan'.rows = <<>> /\ ticket' = ticket
    BY <1>0, <1>5 DEF Crash
  <2>2. DiskRows' \subseteq DiskRows \cup ToSet(chain)
    <3>1. CASE DiskRows' \subseteq DiskRows
      BY <3>1
    <3>2. ASSUME MayAppend, NEW line \in {Junk, Head(chain)},
                 DiskRows' = DiskRows \cup ({line} \ {Junk})
          PROVE  DiskRows' \subseteq DiskRows \cup ToSet(chain)
      <4>1. Head(chain) \in ToSet(chain)
        BY <1>0, <3>2, TailIs DEF MayAppend, Appending, NumberInv
      <4> QED BY <3>2, <4>1
    <3> QED BY <1>5, <3>1, <3>2, DiskAfterCrash
  <2> QED BY <1>0, <2>1, <2>2 DEF NumberInv
<1> QED BY <1>1, <1>2, <1>3, <1>4, <1>5 DEF Next
-----------------------------------------------------------------------------
(* The order of the rows.                                                    *)

\* While no swap of two files was left half done: every file is in order, and so are the
\* files, but for the head that is in both places while it is being moved.
OrderInv ==
    ~halved =>
       /\ InOrder(archives) /\ Ordered(live)
       /\ run # "clearing" /\ job.at # "live" => Above(archives, live)
       /\ job.at = "live" => Above(Front(archives), live)
       /\ run = "writing" => Rising(plan.rows)

LEMMA BelowPart ==
    ASSUME NEW s, NEW t, NEW a, NEW b, Below(s, t), ToSet(a) \ {Junk} \subseteq ToSet(s),
           ToSet(b) \ {Junk} \subseteq ToSet(t)
    PROVE  Below(a, b)
<1>1. \A x \in ToSet(s) \ {Junk}, y \in ToSet(t) \ {Junk} : x < y
  BY BelowRows
<1>2. \A x \in ToSet(a) \ {Junk}, y \in ToSet(b) \ {Junk} : x < y
  BY ONLY <1>1, ToSet(a) \ {Junk} \subseteq ToSet(s), ToSet(b) \ {Junk} \subseteq ToSet(t)
<1> QED BY ONLY <1>2, BelowRows

LEMMA HalvesInOrder ==
    ASSUME NEW s \in Seq(Line), NEW t \in Seq(Line), Ordered(s \o t)
    PROVE  Ordered(s) /\ Ordered(t) /\ Below(s, t)
<1> DEFINE r == s \o t
<1>1. /\ Len(r) = Len(s) + Len(t) /\ r \in Seq(Line)
      /\ \A k \in 1 .. Len(s) : r[k] = s[k]
      /\ \A k \in 1 .. Len(t) : r[Len(s) + k] = t[k]
  BY Joined
<1> HIDE DEF r
<1>2. /\ DOMAIN r = 1 .. Len(s) + Len(t) /\ DOMAIN s = 1 .. Len(s) /\ DOMAIN t = 1 .. Len(t)
      /\ Len(s) \in Nat /\ Len(t) \in Nat
  BY <1>1
<1>3. /\ \A k \in DOMAIN s : k \in DOMAIN r /\ r[k] = s[k]
      /\ \A k \in DOMAIN t : Len(s) + k \in DOMAIN r /\ r[Len(s) + k] = t[k]
      /\ \A m \in DOMAIN s, n \in DOMAIN t : m < Len(s) + n
      /\ \A m, n \in DOMAIN t : m < n => Len(s) + m < Len(s) + n
  BY <1>1, <1>2
<1>4. Ordered(r)
  BY DEF r
<1>5. Ordered(s)
  BY ONLY <1>3, <1>4 DEF Ordered
<1>6. Ordered(t)
  BY ONLY <1>3, <1>4 DEF Ordered
<1>7. Below(s, t)
  BY ONLY <1>3, <1>4 DEF Ordered, Below
<1> QED BY <1>5, <1>6, <1>7

\* A newer row behind a file, or a line that is no row.
LEMMA OrderedAppend ==
    ASSUME NEW s \in Seq(Line), NEW l \in Line, Ordered(s),
           l = Junk \/ \A r \in ToSet(s) \ {Junk} : r < l
    PROVE  Ordered(Append(s, l)) /\ ToSet(Append(s, l)) = ToSet(s) \cup {l}
<1> DEFINE a == Append(s, l)
<1>1. /\ DOMAIN a = DOMAIN s \cup {Len(s) + 1} /\ a[Len(s) + 1] = l /\ DOMAIN s = 1 .. Len(s)
      /\ Len(s) \in Nat /\ \A i \in 1 .. Len(s) : a[i] = s[i]
  BY AppendIs
<1> HIDE DEF a
<1>2. ASSUME NEW m \in DOMAIN a, NEW n \in DOMAIN a, m < n, a[m] # Junk, a[n] # Junk
      PROVE  a[m] < a[n]
  <2>1. m \in DOMAIN s
    BY <1>1, <1>2
  <2>2. CASE n \in DOMAIN s
    BY <1>1, <1>2, <2>1, <2>2 DEF Ordered
  <2>3. CASE n = Len(s) + 1
    <3>1. a[m] \in ToSet(s) \ {Junk} /\ a[n] = l
      BY <1>1, <1>2, <2>1, <2>3 DEF ToSet
    <3> QED BY <1>2, <3>1
  <2> QED BY <1>1, <2>2, <2>3
<1>3. ToSet(a) = ToSet(s) \cup {l}
  BY ONLY <1>1 DEF ToSet
<1> QED BY <1>2, <1>3 DEF a, Ordered

LEMMA AboveLine ==
    ASSUME NEW fs, NEW s \in Seq(Line), NEW l \in Line, Above(fs, s),
           l = Junk \/ \A r \in RowsOf(fs, s) : r < l
    PROVE  Above(fs, Append(s, l))
<1>1. ToSet(Append(s, l)) = ToSet(s) \cup {l}
  BY RowsOfLines
<1>2. ASSUME NEW n \in DOMAIN fs PROVE Below(fs[n], Append(s, l))
  <2>1. \A a \in ToSet(fs[n]) \ {Junk}, b \in ToSet(s) \ {Junk} : a < b
    BY BelowRows DEF Above
  <2>2. \A a \in ToSet(fs[n]) \ {Junk} : a \in RowsOf(fs, s)
    BY DEF RowsOf
  <2>3. \A a \in ToSet(fs[n]) \ {Junk}, b \in ToSet(Append(s, l)) \ {Junk} : a < b
    BY <1>1, <2>1, <2>2
  <2> QED BY ONLY <2>3, BelowRows
<1> QED BY <1>2 DEF Above

\* A file behind the archives.
LEMMA InOrderAppend ==
    ASSUME NEW fs \in Seq(Seq(Line)), NEW h \in Seq(Line)
    PROVE  /\ InOrder(Append(fs, h)) <=> InOrder(fs) /\ Ordered(h) /\ Above(fs, h)
           /\ \A s : Above(Append(fs, h), s) <=> Above(fs, s) /\ Below(h, s)
<1> DEFINE a == Append(fs, h)
<1>1. /\ DOMAIN a = DOMAIN fs \cup {Len(fs) + 1} /\ a[Len(fs) + 1] = h /\ DOMAIN fs = 1 .. Len(fs)
      /\ Len(fs) \in Nat /\ \A i \in 1 .. Len(fs) : a[i] = fs[i]
  BY AppendIs
<1> HIDE DEF a
<1>2. /\ \A j \in DOMAIN fs : j < Len(fs) + 1 /\ a[j] = fs[j] /\ ~(Len(fs) + 1 < j)
      /\ ~(Len(fs) + 1 < Len(fs) + 1)
  BY <1>1
<1>3. InOrder(a) <=> InOrder(fs) /\ Ordered(h) /\ Above(fs, h)
  <2>1. ASSUME InOrder(a) PROVE InOrder(fs) /\ Ordered(h) /\ Above(fs, h)
    BY ONLY <1>1, <1>2, <2>1 DEF InOrder, Above
  <2>2. ASSUME InOrder(fs), Ordered(h), Above(fs, h) PROVE InOrder(a)
    <3>1. \A n \in DOMAIN a : Ordered(a[n])
      BY ONLY <1>1, <1>2, <2>2 DEF InOrder
    <3>2. \A j, n \in DOMAIN a : j < n => Below(a[j], a[n])
      BY ONLY <1>1, <1>2, <2>2 DEF InOrder, Above
    <3> QED BY <3>1, <3>2 DEF InOrder
  <2> QED BY <2>1, <2>2
<1>4. \A s : Above(a, s) <=> Above(fs, s) /\ Below(h, s)
  BY ONLY <1>1, <1>2 DEF Above
<1> QED BY <1>3, <1>4 DEF a

LEMMA OrderedRows ==
    ASSUME NEW s \in Seq(Row)
    PROVE  Ordered(s) <=> Rising(s)
<1>1. \A i \in DOMAIN s : s[i] \in Row
  OBVIOUS
<1>2. Junk \notin Row
  BY DEF Row, Junk
<1> QED BY ONLY <1>1, <1>2 DEF Ordered, Rising

LEMMA RisingPrefix ==
    ASSUME NEW s \in Seq(Row), NEW n \in 0 .. Len(s), Rising(s)
    PROVE  Rising(SubSeq(s, 1, n))
<1> DEFINE p == SubSeq(s, 1, n)
<1>1. /\ p \in Seq(Row) /\ Len(p) = n /\ \A i \in 1 .. n : p[i] = s[i]
  BY PrefixIs
<1> HIDE DEF p
<1>2. DOMAIN p = 1 .. n /\ 1 .. n \subseteq DOMAIN s
  BY <1>1
<1>3. Rising(p)
  BY ONLY <1>1, <1>2, Rising(s) DEF Rising
<1> QED BY <1>3 DEF p

\* Before a rewrite the files are in order, and so is what is about to be written.
LEMMA ReadInOrder ==
    ASSUME WriterInv, OrderInv, ~halved, run # "clearing", job.at # "live", NEW read
    PROVE  Rows(read) \in Seq(Row) /\ Rising(Rows(read))
<1>1. InOrder(archives) /\ Ordered(live) /\ Above(archives, live)
  BY DEF OrderInv
<1>2. archives \in Seq(Seq(Line)) /\ live \in Seq(Line)
  BY DEF WriterInv, TypeOK
<1> QED BY <1>1, <1>2, RowsAre

LEMMA PlanInOrder ==
    ASSUME WriterInv, NumberInv, OrderInv, ~halved, RunStep, run' = "writing", run # "writing"
    PROVE  Rising(plan'.rows)
<1>0. TypeOK /\ QuietRun /\ RotationHolds /\ Rising(<<>>)
  BY DEF WriterInv, Rising
<1>1. \A r \in DiskRows : r \in Nat /\ r <= ticket
  <2>1. DiskRows \subseteq Row /\ Row \subseteq Nat
    BY <1>0, ReadersGet, BoundsAreNumbers
  <2> QED BY <2>1 DEF NumberInv
<1>2. AllRows \in Seq(Row) /\ ToSet(AllRows) = DiskRows /\ ticket \in Nat
  <2>1. ticket \in Nat
    BY <1>0 DEF TypeOK
  <2> QED BY <1>0, <2>1, ReadersGet
<1>3. CASE LoadToResume
  <2>0. chain = <<>> /\ run = "loading"
    BY <1>3 DEF LoadToResume, FlushPasses, Drained
  <2>1. Rising(AllRows)
    BY <1>0, <2>0, ReadInOrder DEF RotationHolds, AllRows
  <2>2. PICK answer \in Seq(Row), sent \in Seq(Row) :
             /\ plan' = [rows |-> AllRows \o answer \o sent, gone |-> {},
                         new |-> ToSet(answer \o sent), next |-> "ready"]
             /\ Rising(answer \o sent)
             /\ \A r \in ToSet(answer \o sent) : ticket < r
    BY <1>0, <1>3, ResumeDoes
  <2> DEFINE a == answer \o sent
  <2>3. a \in Seq(Row)
    BY Joined
  <2>4. AllRows \o answer \o sent = AllRows \o a
    BY <1>2, ConcatAssociative
  <2>5. plan'.rows = AllRows \o a
    BY <2>2, <2>4
  <2>6. Rising(a) /\ \A r \in ToSet(a) : ticket < r
    BY <2>2
  <2> HIDE DEF a
  <2>7. ToSet(a) \subseteq Row /\ Row \subseteq Nat
    BY <2>3, Elements, BoundsAreNumbers
  <2>8. \A x \in DiskRows, y \in ToSet(a) : x < y
    <3>1. \A y \in ToSet(a) : y \in Nat /\ ticket < y
      BY ONLY <2>6, <2>7
    <3> QED BY ONLY <1>1, <1>2, <3>1
  <2>9. Below(AllRows, a)
    BY <1>2, <2>8, BelowRows
  <2>10. AllRows \in Seq(Line) /\ a \in Seq(Line)
    BY <1>2, <2>3, RowsAreLines
  <2>11. Ordered(AllRows) /\ Ordered(a)
    BY <1>2, <2>1, <2>3, <2>6, OrderedRows
  <2>12. Ordered(AllRows \o a)
    BY <2>9, <2>10, <2>11, JoinedInOrder
  <2>13. AllRows \o a \in Seq(Row)
    BY <1>2, <2>3, Joined
  <2> QED BY <2>5, <2>12, <2>13, OrderedRows
<1>4. CASE LoadToRewind
  <2>0. chain = <<>> /\ run = "rewinding"
    BY <1>4 DEF LoadToRewind, FlushPasses, Drained
  <2>1. Rising(AllRows)
    BY <1>0, <2>0, ReadInOrder DEF RotationHolds, AllRows
  <2>2. PICK n \in 0 .. Len(AllRows) : plan'.rows = Append(SubSeq(AllRows, 1, n), ticket + 1)
    BY <1>0, <1>4, RewindDoes
  <2>3. ticket + 1 \in Row
    BY <1>0, <1>4, RewindDoes
  <2> DEFINE p == SubSeq(AllRows, 1, n)
  <2>4. p \in Seq(Row) /\ ToSet(p) \subseteq DiskRows /\ Rising(p)
    BY <1>2, <2>1, PrefixIs, RisingPrefix
  <2>5. plan'.rows = Append(p, ticket + 1)
    BY <2>2
  <2> HIDE DEF p
  <2>6. \A q \in ToSet(p) : q < ticket + 1
    BY ONLY <1>1, <1>2, <2>4
  <2> QED BY <2>3, <2>4, <2>5, <2>6, RisingAppend
<1>5. CASE LoadToAmend
  <2>0. chain = <<>> /\ run = "stepping"
    BY <1>5 DEF LoadToAmend, FlushPasses, Drained
  <2>1. Rising(AllRows)
    BY <1>0, <2>0, ReadInOrder DEF RotationHolds, AllRows
  <2>2. plan'.rows \in {AllRows, Front(AllRows)} /\ AllRows # <<>>
    BY <1>0, <1>5, AmendDoes
  <2>3. Len(AllRows) - 1 \in 0 .. Len(AllRows)
    BY <1>2, <2>2, EmptySeq
  <2>4. Rising(Front(AllRows))
    BY <1>2, <2>1, <2>3, RisingPrefix DEF Front
  <2> QED BY <2>1, <2>2, <2>4
<1>6. CASE LoadAfterBlock
  <2>0. chain = <<>> /\ run = "ready"
    BY <1>6 DEF LoadAfterBlock, Drained
  <2>1. ASSUME NEW read, NEW answers, plan'.rows = Parsed(Unblocked(Rows(read), answers))
        PROVE  Rising(plan'.rows)
    <3>1. Rows(read) \in Seq(Row) /\ Rising(Rows(read))
      BY <1>0, <2>0, ReadInOrder DEF RotationHolds
    <3> QED BY <1>0, <2>1, <3>1, UnblockedRows
  <2> QED BY <1>0, <1>6, <2>1, BlockDoes
<1>7. CASE ArchivesRemoved
  BY <1>0, <1>7 DEF ArchivesRemoved, QuietRun
<1>8. CASE Start \/ RepairStubs \/ TranscriptWriteFails \/ StrictLoadFails
  BY <1>8 DEF Start, RepairStubs, TranscriptWriteFails, StrictLoadFails, GoTo
<1> QED BY <1>3, <1>4, <1>5, <1>6, <1>7, <1>8 DEF RunStep, CreateRun, RunCreated,
          StartFlushThrows, ResumeRun, AmendFlushThrows, TranscriptWritten, BeginSteps,
          AppendMessage, EndStep, StepBoundary, EndTurn, EndAtLimit, Stop, Finish, GoTo

\* A line that is no row any more leaves the others in order.
LEMMA DamagedInOrder ==
    ASSUME Ordered(live), Above(archives, live), Damaged
    PROVE  Ordered(live') /\ Above(archives, live')
<1>1. DOMAIN live' = DOMAIN live /\ \A i \in DOMAIN live : live'[i] \in {live[i], Junk}
  BY DEF Damaged
<1>2. Ordered(live')
  BY ONLY <1>1, Ordered(live) DEF Ordered
<1>3. ASSUME NEW n \in DOMAIN archives PROVE Below(archives[n], live')
  <2>1. Below(archives[n], live)
    BY DEF Above
  <2> QED BY ONLY <1>1, <2>1 DEF Below
<1> QED BY <1>2, <1>3 DEF Above

LEMMA OrderAfterAppend ==
    ASSUME WriterInv, NumberInv, OrderInv, AppendStep
    PROVE  OrderInv'
<1>0. /\ TypeOK /\ TornUnchecked /\ RotationHolds /\ QuietRun
      /\ live \in Seq(Line) /\ archives \in Seq(Seq(Line)) /\ chain \in Seq(Row)
      /\ job \in Job /\ job.head \in Seq(Line) /\ job.tail \in Seq(Line) /\ Junk \in Line
  BY BoundsAreNumbers DEF WriterInv, TypeOK, Job
<1>1. UNCHANGED <<run, plan>> /\ (~halved' => ~halved)
  <2>1. UNCHANGED <<run, plan>>
    BY DiskAfterAppend
  <2>2. ~halved' => ~halved
    BY DEF AppendStep, BeginRotation, ArchiveSwapped, ArchiveSwapFails, LiveSwapped, LiveSwapFails,
           RotationUnblocked, TailUnread, Appended, AppendRetried, AppendFails
  <2> QED BY <2>1, <2>2
<1> SUFFICES ASSUME ~halved, ~halved' PROVE OrderInv'
  BY <1>1 DEF OrderInv
<1>2. /\ InOrder(archives) /\ Ordered(live)
      /\ run # "clearing" /\ job.at # "live" => Above(archives, live)
      /\ job.at = "live" => Above(Front(archives), live)
      /\ run = "writing" => Rising(plan.rows)
  BY DEF OrderInv
<1>3. job.at # "idle" => run # "clearing"
  BY <1>0 DEF RotationHolds, QuietRun
\* the two halves of a rotation
<1>4. ASSUME job.at \in {"archive", "live"}
      PROVE  /\ Ordered(job.head) /\ Ordered(job.tail) /\ Below(job.head, job.tail)
             /\ ToSet(job.head) \subseteq ToSet(live) /\ ToSet(job.tail) \subseteq ToSet(live)
  <2>1. live = job.head \o job.tail
    BY <1>0, <1>4 DEF RotationHolds
  <2>2. ToSet(live) = ToSet(job.head) \cup ToSet(job.tail)
    BY <1>0, <2>1, Joined
  <2>3. Ordered(job.head \o job.tail)
    BY <1>2, <2>1
  <2> QED BY <1>0, <2>2, <2>3, HalvesInOrder
<1>5. ASSUME job.at = "live"
      PROVE  archives = Append(Front(archives), job.head) /\ Front(archives) \in Seq(Seq(Line))
  BY <1>0, <1>5, FrontAndLast DEF RotationHolds
<1>6. CASE BeginRotation
  <2> DEFINE cut == Len(live) - KeepLive
             h == SubSeq(live, 1, cut)
             t == SubSeq(live, cut + 1, Len(live))
  <2>1. job' = [job EXCEPT !.at = "archive", !.head = h, !.tail = t]
    BY <1>6 DEF BeginRotation
  <2> HIDE DEF h, t
  <2>2. UNCHANGED <<live, archives>> /\ job.at = "idle"
    BY <1>6 DEF BeginRotation, NeedsRotation
  <2>3. job'.at = "archive"
    BY <1>0, <2>1, JobAt
  <2> QED BY <1>1, <1>2, <2>2, <2>3 DEF OrderInv
<1>7. CASE ArchiveSwapped
  <2>1. /\ archives' = Append(archives, job.head) /\ live' = live /\ job.at = "archive"
        /\ job' = [job EXCEPT !.at = "live"]
    BY <1>7 DEF ArchiveSwapped
  <2>2. job'.at = "live"
    BY <1>0, <2>1, JobAt
  <2>3. Above(archives, live)
    BY <1>2, <1>3, <2>1
  <2>4. Above(archives, job.head)
    <3>1. \A n \in DOMAIN archives : Below(archives[n], live)
      BY <2>3 DEF Above
    <3>2. \A n \in DOMAIN archives : Below(archives[n], job.head)
      BY <1>4, <2>1, <3>1, BelowPart
    <3> QED BY <3>2 DEF Above
  <2>5. InOrder(archives')
    BY <1>0, <1>2, <1>4, <2>1, <2>4, InOrderAppend
  <2>6. Front(archives') = archives
    BY <1>0, <2>1, Appending1
  <2> QED BY <1>1, <1>2, <2>1, <2>2, <2>3, <2>5, <2>6 DEF OrderInv
<1>8. CASE ArchiveSwapFails
  <2>1. /\ UNCHANGED <<live, archives>> /\ job.at = "archive"
        /\ job' = [Idle EXCEPT !.at = "append", !.attempt = job.attempt]
    BY <1>8 DEF ArchiveSwapFails, PutOff
  <2>2. job'.at = "append"
    BY <1>0, <2>1, JobAt
  <2> QED BY <1>1, <1>2, <2>1, <2>2 DEF OrderInv
<1>9. CASE LiveSwapped
  <2>1. /\ live' = job.tail /\ archives' = archives /\ job.at = "live"
        /\ job' = [Idle EXCEPT !.at = "append", !.attempt = job.attempt]
    BY <1>9 DEF LiveSwapped
  <2>2. job'.at = "append"
    BY <1>0, <2>1, JobAt
  <2>3. Above(Front(archives), job.tail)
    <3>1. \A n \in DOMAIN Front(archives) : Below(Front(archives)[n], live)
      BY <1>2, <2>1 DEF Above
    <3>2. \A n \in DOMAIN Front(archives) : Below(Front(archives)[n], job.tail)
      BY <1>4, <2>1, <3>1, BelowPart
    <3> QED BY <3>2 DEF Above
  <2>4. Above(archives, job.tail)
    <3>1. Above(Append(Front(archives), job.head), job.tail)
      BY <1>0, <1>4, <1>5, <2>1, <2>3, InOrderAppend
    <3> QED BY <1>5, <2>1, <3>1
  <2> QED BY <1>1, <1>2, <1>4, <2>1, <2>2, <2>4 DEF OrderInv
<1>10. CASE LiveSwapFails
  <2>1. /\ live' = live /\ archives' = Front(archives) /\ job.at = "live"
        /\ job' = [Idle EXCEPT !.at = "append", !.attempt = job.attempt]
    BY <1>10 DEF LiveSwapFails, PutOff
  <2>2. job'.at = "append"
    BY <1>0, <2>1, JobAt
  <2>3. InOrder(Front(archives))
    <3>1. InOrder(Append(Front(archives), job.head))
      BY <1>2, <1>5, <2>1
    <3> QED BY <1>0, <1>5, <2>1, <3>1, InOrderAppend
  <2> QED BY <1>1, <1>2, <2>1, <2>2, <2>3 DEF OrderInv
<1>11. CASE RotationUnblocked
  BY <1>1, <1>2, <1>11 DEF RotationUnblocked, OrderInv
<1>12. CASE Appended \/ AppendRetried \/ AppendFails
  <2>1. /\ archives' = archives /\ job.at # "live" /\ chain # <<>>
        /\ job' = Idle \/ job' = [Idle EXCEPT !.attempt = job.attempt + 1]
    BY <1>12 DEF Appended, AppendRetried, AppendFails, MayAppend, Appending
  <2>2. job'.at = "idle"
    <3>1. Idle.at = "idle" /\ [Idle EXCEPT !.attempt = job.attempt + 1].at = "idle"
      BY <1>0, JobAt
    <3> QED BY ONLY <2>1, <3>1
  <2>3. run # "clearing" /\ Above(archives, live)
    BY <1>0, <1>2, <2>1 DEF QuietRun
  <2>4. live' = live \/ (\E l \in {Junk, Head(chain)} : live' = Append(live, l)) \/ Damaged
    <3>1. \A l \in Line, ended \in BOOLEAN : Write(l, ended) => live' = Append(live, l) \/ Damaged
      BY <1>0, WriteAppends DEF Extended
    <3>2. CASE Appended
      <4>1. Write(Head(chain), TRUE) /\ MayAppend
        BY <3>2 DEF Appended
      <4> QED BY <1>0, <3>1, <4>1, HeadIs
    <3>3. CASE AppendRetried \/ AppendFails
      BY <1>0, <3>1, <3>3 DEF AppendRetried, AppendFails, LeavePart
    <3> QED BY <1>12, <3>2, <3>3
  <2>5. ASSUME NEW l \in {Junk, Head(chain)}, live' = Append(live, l)
        PROVE  Ordered(live') /\ Above(archives, live')
    <3>1. l \in Line /\ (l = Junk \/ \A r \in DiskRows : r < l)
      <4>1. Head(chain) \in ToSet(chain) /\ Head(chain) \in Row
        BY <1>0, <2>1, TailIs, HeadTailProperties DEF NumberInv
      <4> QED BY <4>1, BoundsAreNumbers DEF NumberInv
    <3>2. ToSet(live) \ {Junk} \subseteq RowsOf(archives, live)
      BY DEF RowsOf
    <3>3. Ordered(live')
      BY <1>0, <1>2, <2>5, <3>1, <3>2, OrderedAppend DEF DiskRows
    <3>4. Above(archives, live')
      BY <1>0, <2>3, <2>5, <3>1, AboveLine DEF DiskRows
    <3> QED BY <3>3, <3>4
  <2>6. Ordered(live') /\ Above(archives, live')
    BY <1>2, <2>3, <2>4, <2>5, DamagedInOrder
  <2> QED BY <1>1, <1>2, <2>1, <2>2, <2>6 DEF OrderInv
<1>13. CASE TailUnread
  <2>1. UNCHANGED <<live, archives>> /\ job.at # "live" /\ job' = [job EXCEPT !.at = "append"]
    BY <1>13 DEF TailUnread, MayAppend
  <2>2. job'.at = "append"
    BY <1>0, <2>1, JobAt
  <2> QED BY <1>1, <1>2, <2>1, <2>2 DEF OrderInv
<1> QED BY <1>6, <1>7, <1>8, <1>9, <1>10, <1>11, <1>12, <1>13 DEF AppendStep

LEMMA OrderAfterRun ==
    ASSUME WriterInv, NumberInv, OrderInv, RunStep
    PROVE  OrderInv'
<1>0. /\ TypeOK /\ RotationHolds /\ QuietRun
      /\ live \in Seq(Line) /\ archives \in Seq(Seq(Line)) /\ job \in Job
  BY DEF WriterInv, TypeOK
<1>1. (~halved' => ~halved) /\ UNCHANGED job
  <2>1. CASE RepairStubs \/ ArchivesRemoved
    <3>1. UNCHANGED job
      BY <2>1 DEF RepairStubs, ArchivesRemoved
    <3>2. \E kept \in SUBSET DOMAIN archives : halved' = (halved \/ kept # {})
      BY <2>1 DEF RepairStubs, ArchivesRemoved, RemoveArchives
    <3> QED BY <3>1, <3>2
  <2>2. CASE ~(RepairStubs \/ ArchivesRemoved)
    <3>1. UNCHANGED <<halved, job>>
      BY <2>2 DEF RunStep, Start, CreateRun, RunCreated, StartFlushThrows, ResumeRun,
         LoadToResume, LoadToRewind, LoadToAmend, StrictLoadFails, AmendFlushThrows,
         LoadAfterBlock, TranscriptWritten, TranscriptWriteFails, BeginSteps,
         AppendMessage, EndStep, StepBoundary, EndTurn, EndAtLimit, Stop, Finish
    <3> QED BY <3>1
  <2> QED BY <2>1, <2>2
<1> SUFFICES ASSUME ~halved, ~halved' PROVE OrderInv'
  BY <1>1 DEF OrderInv
<1>2. /\ InOrder(archives) /\ Ordered(live)
      /\ run # "clearing" /\ job.at # "live" => Above(archives, live)
      /\ job.at = "live" => Above(Front(archives), live)
      /\ run = "writing" => Rising(plan.rows)
  BY DEF OrderInv
<1>3. \A s : InOrder(<<>>) /\ Above(<<>>, s)
  BY DEF InOrder, Above
<1>4. chain = <<>> => job.at = "idle"
  BY <1>0 DEF RotationHolds
<1>5. CASE RepairStubs
  <2>1. PICK unread \in SUBSET DOMAIN archives, kept \in SUBSET DOMAIN archives :
          live' = Rows(DOMAIN archives \ unread) /\ RemoveArchives(kept)
    BY <1>5 DEF RepairStubs
  <2>2. chain = <<>> /\ run = "starting" /\ run' = "loading"
    BY <1>5 DEF RepairStubs, FlushPasses, Drained, GoTo
  <2>3. archives' = <<>>
    <3>1. kept = {}
      BY <1>0, <2>1, RemovedAre
    <3> QED BY <1>0, <2>1, <3>1, RemovedAre
  <2>4. live' \in Seq(Row) /\ Rising(live')
    BY <1>4, <2>1, <2>2, ReadInOrder
  <2>5. Ordered(live')
    BY <2>4, OrderedRows
  <2> QED BY <1>1, <1>3, <1>4, <2>2, <2>3, <2>5 DEF OrderInv
<1>6. CASE TranscriptWritten
  <2>1. /\ live' = plan.rows /\ archives' = archives /\ run = "writing" /\ run' = "clearing"
        /\ chain = <<>>
    BY <1>6 DEF TranscriptWritten, FlushPasses, Drained
  <2>2. plan.rows \in Seq(Row)
    BY <1>0 DEF TypeOK, Plan
  <2>3. Ordered(live')
    BY <1>2, <2>1, <2>2, OrderedRows
  <2> QED BY <1>1, <1>2, <1>4, <2>1, <2>3 DEF OrderInv
<1>7. CASE ArchivesRemoved
  <2>1. PICK kept \in SUBSET DOMAIN archives : RemoveArchives(kept)
    BY <1>7 DEF ArchivesRemoved
  <2>2. archives' = <<>>
    <3>1. kept = {}
      BY <1>0, <2>1, RemovedAre
    <3> QED BY <1>0, <2>1, <3>1, RemovedAre
  <2>3. /\ live' = live /\ run' = plan.next /\ run = "clearing"
    BY <1>7 DEF ArchivesRemoved
  <2>4. chain = <<>> /\ run' # "writing"
    BY <1>0, <2>3 DEF QuietRun
  <2> QED BY <1>1, <1>2, <1>3, <1>4, <2>2, <2>3, <2>4 DEF OrderInv
<1>8. CASE ~(RepairStubs \/ TranscriptWritten \/ ArchivesRemoved)
  <2>1. UNCHANGED <<archives, live>>
    BY <1>8, DiskAfterRun
  <2>2. run = "clearing" => run' = "clearing"
    BY <1>8 DEF RunStep, Start, CreateRun, RunCreated, StartFlushThrows, ResumeRun,
         LoadToResume, LoadToRewind, LoadToAmend, StrictLoadFails, AmendFlushThrows,
         LoadAfterBlock, TranscriptWriteFails, BeginSteps,
         AppendMessage, EndStep, StepBoundary, EndTurn, EndAtLimit, Stop, Finish
  <2>3. run' = "writing" => Rising(plan'.rows)
    <3>1. CASE run # "writing"
      BY <3>1, PlanInOrder
    <3>2. CASE run = "writing"
      <4>1. run' = "writing" => plan' = plan
        BY <1>8, <3>2 DEF RunStep, Start, CreateRun, RunCreated, StartFlushThrows, ResumeRun,
             LoadToResume, LoadToRewind, LoadToAmend, StrictLoadFails, AmendFlushThrows,
             LoadAfterBlock, TranscriptWriteFails, BeginSteps,
             AppendMessage, EndStep, StepBoundary, EndTurn, EndAtLimit, Stop, Finish
      <4> QED BY <1>2, <3>2, <4>1
    <3> QED BY <3>1, <3>2
  <2> QED BY <1>1, <1>2, <2>1, <2>2, <2>3 DEF OrderInv
<1> QED BY <1>5, <1>6, <1>7, <1>8

LEMMA OrderStep ==
    ASSUME WriterInv, NumberInv, OrderInv, [Next]_vars
    PROVE  OrderInv'
<1>1. CASE UNCHANGED vars
  BY <1>1 DEF vars, OrderInv
<1>2. CASE ReaderFlush
  BY <1>2 DEF ReaderFlush, OrderInv
<1>3. CASE Crash
  <2>0. TypeOK /\ job \in Job /\ live \in Seq(Line) /\ chain \in Seq(Row)
    BY DEF WriterInv, TypeOK
  <2>1. /\ ~halved' => ~halved /\ job.at # "live" /\ run # "clearing"
        /\ run' = "off" /\ job'.at = "idle" /\ archives' = archives
    BY <1>3, <2>0, JobAt DEF Crash
  <2> SUFFICES ASSUME ~halved, job.at # "live", run # "clearing" PROVE OrderInv'
    BY <2>1 DEF OrderInv
  <2>2. InOrder(archives) /\ Ordered(live) /\ Above(archives, live)
    BY DEF OrderInv
  <2>3. ASSUME NEW l \in {Junk, Head(chain)}, MayAppend, live' = Append(live, l), l \in Line
        PROVE  Ordered(live') /\ Above(archives, live')
    <3>1. l = Junk \/ \A r \in DiskRows : r < l
      <4>1. Head(chain) \in ToSet(chain)
        BY <2>0, <2>3, TailIs DEF NumberInv, MayAppend, Appending
      <4> QED BY <2>3, <4>1 DEF NumberInv
    <3>2. ToSet(live) \ {Junk} \subseteq RowsOf(archives, live)
      BY DEF RowsOf
    <3>3. Ordered(live')
      BY <2>0, <2>2, <2>3, <3>1, <3>2, OrderedAppend DEF DiskRows
    <3>4. Above(archives, live')
      BY <2>0, <2>2, <2>3, <3>1, AboveLine DEF DiskRows
    <3> QED BY <3>3, <3>4
  <2>4. Ordered(live') /\ Above(archives, live')
    BY <1>3, <2>2, <2>3, DiskAfterCrash, DamagedInOrder
  <2> QED BY <2>1, <2>2, <2>4 DEF OrderInv
<1> QED BY <1>1, <1>2, <1>3, OrderAfterAppend, OrderAfterRun DEF Next

FileInv == WriterInv /\ NumberInv /\ OrderInv

LEMMA FileInit == Init => FileInv
<1> SUFFICES ASSUME Init PROVE FileInv
  OBVIOUS
<1>1. archives = <<>> /\ live = <<>> /\ chain = <<>> /\ plan = NoPlan /\ run = "off" /\ job = Idle
  BY DEF Init
<1>2. /\ ToSet(<<>>) = {} /\ NoPlan.rows = <<>> /\ Rising(<<>>) /\ Idle.at = "idle"
      /\ InOrder(<<>>) /\ Ordered(<<>>) /\ Above(<<>>, <<>>)
  BY DEF ToSet, NoPlan, Rising, Idle, InOrder, Ordered, Above
<1>3. DiskRows = {}
  BY <1>1, <1>2 DEF DiskRows, RowsOf
<1>4. NumberInv
  BY ONLY <1>1, <1>2, <1>3 DEF NumberInv
<1>5. OrderInv
  BY ONLY <1>1, <1>2 DEF OrderInv
<1> QED BY <1>4, <1>5, WriterInit DEF FileInv

LEMMA FileStep == FileInv /\ [Next]_vars => FileInv'
BY WriterStep, NumberStep, OrderStep DEF FileInv

\* While no swap of two files was left half done, the transcript that readers stitch
\* together has every row once and in the order of the appends.
THEOREM StitchedInOrder == Spec => []TranscriptInOrder
<1>1. FileInv => TranscriptInOrder
  <2> SUFFICES ASSUME FileInv, ~halved, job.at # "live", run # "clearing"
               PROVE  \A m, n \in DOMAIN AllRows : m < n => AllRows[m] < AllRows[n]
    BY DEF TranscriptInOrder
  <2>1. Rising(Rows(DOMAIN archives))
    BY ReadInOrder DEF FileInv
  <2> QED BY <2>1 DEF Rising, AllRows
<1> QED BY <1>1, FileInit, FileStep, PTL DEF Spec
-----------------------------------------------------------------------------
(* The rows that were appended.                                              *)

\* The rows behind where the invoke began are its own.
TurnRows(rows, t) == \A i \in DOMAIN rows : i > t.from => rows[i] \in t.new

\* While no read was skipped and no archive kept: the rows that were appended are on the
\* disk; a rewrite holds those it does not take out, and those still being appended; and
\* where a blocked instruction is asked, the rows behind its start are its own.
LandedInv ==
    skips = 0 /\ unlinks = 0 =>
       /\ landed \subseteq DiskRows
       /\ run = "writing"
            => (landed \ plan.gone) \cup plan.new \cup ToSet(chain) \subseteq ToSet(plan.rows)
       /\ run = "clearing" => landed \subseteq ToSet(live)
       /\ run = "created" => DiskRows \cup ToSet(chain) \subseteq turn.new
       /\ run = "ready" => \/ DiskRows \subseteq turn.new
                           \/ archives = <<>> /\ live \in Seq(Row) /\ TurnRows(live, turn)
       /\ run \in {"writing", "clearing"} /\ plan.next = "ready" => TurnRows(plan.rows, turn)

LEMMA CountsGrow ==
    ASSUME TypeOK, [Next]_vars, skips' = 0, unlinks' = 0
    PROVE  skips = 0 /\ unlinks = 0
<1>0. skips \in Nat /\ unlinks \in Nat
  BY BoundsAreNumbers DEF TypeOK
<1>1. skips = 0
  BY SkipsGrow
<1>2. unlinks = 0
  <2>1. CASE RepairStubs \/ ArchivesRemoved
    <3>1. PICK kept \in SUBSET DOMAIN archives : RemoveArchives(kept)
      BY <2>1 DEF RepairStubs, ArchivesRemoved
    <3>2. Cardinality(kept) \in Nat /\ unlinks' = unlinks + Cardinality(kept)
      BY <3>1, RemoveArchivesTypes DEF RemoveArchives
    <3> QED BY ONLY <1>0, <3>2, unlinks' = 0
  <2>2. CASE LiveSwapFails
    BY <1>0, <2>2 DEF LiveSwapFails
  <2>3. CASE ~(RepairStubs \/ ArchivesRemoved \/ LiveSwapFails)
    <3>1. UNCHANGED unlinks
      BY <2>3 DEF Next, vars, AppendStep, BeginRotation, ArchiveSwapped, ArchiveSwapFails,
         LiveSwapped, RotationUnblocked, TailUnread, Appended, AppendRetried, AppendFails,
         RunStep, Start, CreateRun, RunCreated, StartFlushThrows, ResumeRun,
         LoadToResume, LoadToRewind, LoadToAmend, StrictLoadFails, AmendFlushThrows,
         LoadAfterBlock, TranscriptWritten, TranscriptWriteFails, BeginSteps, AppendMessage,
         EndStep, StepBoundary, EndTurn, EndAtLimit, Stop, Finish, ReaderFlush, Crash
    <3> QED BY <3>1
  <2> QED BY <2>1, <2>2, <2>3
<1> QED BY <1>1, <1>2

\* What a rewrite that is about to begin holds.
LEMMA PlanHoldsLanded ==
    ASSUME FileInv, LandedInv, RunStep, skips = 0, unlinks = 0, skips' = 0,
           run' = "writing", run # "writing"
    PROVE  /\ (landed \ plan'.gone) \cup plan'.new \cup ToSet(chain') \subseteq ToSet(plan'.rows)
           /\ plan'.next = "ready" => TurnRows(plan'.rows, turn')
<1>0. /\ TypeOK /\ QuietRun /\ ToSet(<<>>) = {}
      /\ AllRows \in Seq(Row) /\ ToSet(AllRows) = DiskRows /\ landed \subseteq ToSet(AllRows)
  <2>1. TypeOK /\ QuietRun /\ ToSet(<<>>) = {}
    BY DEF FileInv, WriterInv, ToSet
  <2>2. landed \subseteq DiskRows
    BY DEF LandedInv
  <2> QED BY <2>1, <2>2, ReadersGet
<1>1. CASE LoadToResume
  <2>1. PICK answer \in Seq(Row), sent \in Seq(Row) :
             /\ chain' = answer
             /\ turn' = [from |-> Len(AllRows \o answer), new |-> ToSet(sent)]
             /\ plan' = [rows |-> AllRows \o answer \o sent, gone |-> {},
                         new |-> ToSet(answer \o sent), next |-> "ready"]
    BY <1>0, <1>1, ResumeDoes
  <2> DEFINE a == AllRows \o answer
             r == a \o sent
  <2>2. /\ a \in Seq(Row) /\ ToSet(a) = ToSet(AllRows) \cup ToSet(answer)
        /\ ToSet(answer \o sent) = ToSet(answer) \cup ToSet(sent)
    BY <1>0, Joined
  <2>3. /\ chain' = answer /\ turn'.from = Len(a) /\ turn'.new = ToSet(sent)
        /\ plan'.rows = r /\ plan'.gone = {} /\ plan'.new = ToSet(answer \o sent)
    BY <2>1
  <2> HIDE DEF a
  <2>4. /\ r \in Seq(Row) /\ ToSet(r) = ToSet(a) \cup ToSet(sent) /\ Len(r) = Len(a) + Len(sent)
        /\ \A k \in 1 .. Len(sent) : r[Len(a) + k] = sent[k]
    BY <2>2, Joined
  <2> HIDE DEF r
  <2>5. TurnRows(r, turn')
    <3>1. /\ DOMAIN r = 1 .. Len(a) + Len(sent) /\ Len(a) \in Nat /\ Len(sent) \in Nat
          /\ DOMAIN sent = 1 .. Len(sent)
      BY <2>2, <2>4
    <3>2. ASSUME NEW i \in DOMAIN r, i > turn'.from PROVE r[i] \in turn'.new
      <4>1. i - Len(a) \in 1 .. Len(sent) /\ Len(a) + (i - Len(a)) = i
        BY ONLY <2>3, <3>1, <3>2, SMTT(30)
      <4>2. r[i] = sent[i - Len(a)]
        BY ONLY <2>4, <4>1
      <4> QED BY ONLY <2>3, <3>1, <4>1, <4>2 DEF ToSet
    <3> QED BY ONLY <3>2 DEF TurnRows
  <2>6. (landed \ {}) \cup ToSet(answer \o sent) \cup ToSet(answer) \subseteq ToSet(r)
    BY ONLY <1>0, <2>2, <2>4
  <2> QED BY ONLY <2>3, <2>5, <2>6
<1>2. CASE LoadToRewind
  <2>1. PICK n \in 0 .. Len(AllRows) :
              /\ plan'.rows = Append(SubSeq(AllRows, 1, n), ticket + 1)
              /\ plan'.gone = ToSet(AllRows) \ ToSet(SubSeq(AllRows, 1, n))
    BY <1>0, <1>2, RewindDoes
  <2> DEFINE p == SubSeq(AllRows, 1, n)
  <2>2. /\ plan'.rows = Append(p, ticket + 1) /\ plan'.gone = ToSet(AllRows) \ ToSet(p)
        /\ plan'.new = {ticket + 1} /\ plan'.next = "starting" /\ ticket + 1 \in Line
    BY <1>0, <1>2, <2>1, RewindDoes, BoundsAreNumbers
  <2>3. p \in Seq(Line)
    BY <1>0, PrefixIs, RowsAreLines
  <2> HIDE DEF p
  <2>4. ToSet(Append(p, ticket + 1)) = ToSet(p) \cup {ticket + 1}
    BY <2>2, <2>3, RowsOfLines
  <2>5. chain' = <<>>
    BY <1>2 DEF LoadToRewind, FlushPasses, Drained
  <2>6. ToSet(chain') = {}
    BY <1>0, <2>5
  <2> QED BY ONLY <1>0, <2>2, <2>4, <2>6
<1>3. CASE LoadToAmend
  <2>1. /\ plan'.new = {} /\ AllRows # <<>>
        /\ \/ plan'.next = "stepping" /\ plan'.rows = AllRows /\ plan'.gone = {}
           \/ plan'.next = "boundary" /\ plan'.rows = Front(AllRows)
                /\ plan'.gone = {Last(AllRows)}
    BY <1>0, <1>3, AmendDoes
  <2>2. ToSet(AllRows) = ToSet(Front(AllRows)) \cup {Last(AllRows)}
    BY <1>0, <2>1, FrontIs
  <2>3. chain' = <<>>
    BY <1>3 DEF LoadToAmend, FlushPasses, Drained
  <2>4. ToSet(chain') = {}
    BY <1>0, <2>3
  <2> QED BY ONLY <1>0, <2>1, <2>2, <2>4
<1>4. CASE LoadAfterBlock
  <2>1. /\ run = "ready" /\ plan'.next = "failed" /\ plan'.new = {} /\ plan'.gone = turn.new
        /\ \E answers : plan'.rows = Parsed(Unblocked(AllRows, answers))
    <3>1. ~failures
      BY <1>0, <1>4, BlockDoes DEF QuietRun
    <3> QED BY <1>0, <1>4, <3>1, BlockDoes DEF AllRows
  <2>2. PICK answers : plan'.rows = Parsed(Unblocked(AllRows, answers))
    BY <2>1
  <2>3. \A i \in DOMAIN AllRows : i <= turn.from => AllRows[i] \in ToSet(plan'.rows)
    BY <1>0, <2>2, UnblockedRows
  <2>4. ASSUME NEW r \in landed \ turn.new PROVE r \in ToSet(plan'.rows)
    <3>1. r \in DiskRows /\ r \notin turn.new
      BY <1>0, <2>4
    <3>2. archives = <<>> /\ live \in Seq(Row) /\ TurnRows(live, turn)
      BY <2>1, <3>1 DEF LandedInv
    <3>3. AllRows = live
      <4>1. archives \in Seq(Seq(Line)) /\ live \in Seq(Line)
        BY <1>0 DEF TypeOK
      <4> QED BY <3>2, <4>1, RowsAre DEF AllRows
    <3>4. PICK i \in DOMAIN AllRows : r = AllRows[i]
      BY <1>0, <3>1 DEF ToSet
    <3>5. i \in Nat /\ turn.from \in Nat
      BY <1>0, <3>4 DEF TypeOK, Turn
    <3>6. ~(i > turn.from)
      BY ONLY <3>1, <3>2, <3>3, <3>4 DEF TurnRows
    <3>7. i <= turn.from
      BY ONLY <3>5, <3>6
    <3> QED BY ONLY <2>3, <3>4, <3>7
  <2>5. chain' = <<>>
    BY <1>4 DEF LoadAfterBlock, Drained
  <2>6. ToSet(chain') = {}
    BY <1>0, <2>5
  <2> QED BY ONLY <2>1, <2>4, <2>6
<1>5. CASE ArchivesRemoved
  BY <1>0, <1>5 DEF ArchivesRemoved, QuietRun
<1>6. CASE Start \/ RepairStubs \/ TranscriptWriteFails \/ StrictLoadFails
  BY <1>6 DEF Start, RepairStubs, TranscriptWriteFails, StrictLoadFails, GoTo
<1> QED BY <1>1, <1>2, <1>3, <1>4, <1>5, <1>6 DEF RunStep, CreateRun, RunCreated,
          StartFlushThrows, ResumeRun, AmendFlushThrows, TranscriptWritten, BeginSteps,
          AppendMessage, EndStep, StepBoundary, EndTurn, EndAtLimit, Stop, Finish, GoTo

LEMMA LandedAfterAppend ==
    ASSUME FileInv, LandedInv, AppendStep, skips = 0, unlinks = 0
    PROVE  LandedInv'
<1>0. WriterInv /\ QuietRun /\ RotationHolds /\ chain \in Seq(Row) /\ Rising(chain)
  BY DEF FileInv, WriterInv, NumberInv, TypeOK
<1>1. /\ UNCHANGED <<plan, ticket, run, turn>> /\ DiskRows \subseteq DiskRows'
      /\ ~Appended => DiskRows' = DiskRows
      /\ Appended => DiskRows' = DiskRows \cup {Head(chain)}
  BY <1>0, DiskAfterAppend
<1>2. /\ ~Appended => landed' = landed
      /\ Appended => landed' = landed \cup {Head(chain)} /\ chain # <<>>
      /\ chain' = chain \/ (chain # <<>> /\ chain' = Tail(chain))
  BY DEF AppendStep, BeginRotation, ArchiveSwapped, ArchiveSwapFails, LiveSwapped, LiveSwapFails,
         RotationUnblocked, TailUnread, Appended, AppendRetried, AppendFails, MayAppend, Appending
<1>3. ToSet(chain') \subseteq ToSet(chain) /\ (Appended => Head(chain) \in ToSet(chain))
  BY <1>0, <1>2, TailIs
<1>4. CASE RotationUnblocked
  BY <1>1, <1>2, <1>4 DEF RotationUnblocked, LandedInv, DiskRows
<1>5. CASE ~RotationUnblocked
  <2>1. chain # <<>>
    BY <1>0, <1>5 DEF AppendStep, BeginRotation, ArchiveSwapped, ArchiveSwapFails, LiveSwapped,
          LiveSwapFails, TailUnread, Appended, AppendRetried, AppendFails, MayAppend, Appending, RotationHolds
  <2>2. run \notin {"clearing", "ready"}
    BY <1>0, <2>1 DEF QuietRun
  <2>3. landed' \subseteq DiskRows'
    BY <1>1, <1>2 DEF LandedInv
  <2>4. run = "writing" =>
          (landed' \ plan.gone) \cup plan.new \cup ToSet(chain') \subseteq ToSet(plan.rows)
    <3>1. run = "writing" =>
            (landed \ plan.gone) \cup plan.new \cup ToSet(chain) \subseteq ToSet(plan.rows)
      BY DEF LandedInv
    <3> QED BY ONLY <1>2, <1>3, <3>1
  <2>5. run = "created" => DiskRows' \cup ToSet(chain') \subseteq turn.new
    <3>1. run = "created" => DiskRows \cup ToSet(chain) \subseteq turn.new
      BY DEF LandedInv
    <3> QED BY ONLY <1>1, <1>3, <3>1
  <2>6. run \in {"writing", "clearing"} /\ plan.next = "ready" => TurnRows(plan.rows, turn)
    BY DEF LandedInv
  <2> QED BY <1>1, <2>2, <2>3, <2>4, <2>5, <2>6 DEF LandedInv
<1> QED BY <1>4, <1>5

LEMMA LandedAfterRun ==
    ASSUME FileInv, LandedInv, RunStep, skips = 0, unlinks = 0, skips' = 0, unlinks' = 0
    PROVE  LandedInv'
<1>0. WriterInv /\ TypeOK /\ QuietRun /\ chain \in Seq(Row) /\ skips \in Nat /\ unlinks \in Nat
  BY BoundsAreNumbers DEF FileInv, WriterInv, TypeOK
<1>1. /\ landed \subseteq DiskRows
      /\ run = "writing"
            => (landed \ plan.gone) \cup plan.new \cup ToSet(chain) \subseteq ToSet(plan.rows)
      /\ run = "clearing" => landed \subseteq ToSet(live)
      /\ run = "created" => DiskRows \cup ToSet(chain) \subseteq turn.new
      /\ run = "ready" => \/ DiskRows \subseteq turn.new
                          \/ archives = <<>> /\ live \in Seq(Row) /\ TurnRows(live, turn)
      /\ run \in {"writing", "clearing"} /\ plan.next = "ready" => TurnRows(plan.rows, turn)
  BY DEF LandedInv
<1>2. ~TranscriptWritten => landed' = landed
  BY DEF RunStep, Start, CreateRun, RunCreated, StartFlushThrows, ResumeRun, RepairStubs,
         LoadToResume, LoadToRewind, LoadToAmend, StrictLoadFails, AmendFlushThrows,
         LoadAfterBlock, TranscriptWriteFails, ArchivesRemoved, BeginSteps, AppendMessage,
         EndStep, StepBoundary, EndTurn, EndAtLimit, Stop, Finish
<1>3. ASSUME NEW kept \in SUBSET DOMAIN archives, RemoveArchives(kept) PROVE archives' = <<>>
  <2>1. Cardinality(kept) \in Nat /\ (kept = {} <=> Cardinality(kept) = 0)
    BY <1>0, <1>3, RemoveArchivesTypes
  <2>2. unlinks' = unlinks + Cardinality(kept)
    BY <1>3 DEF RemoveArchives
  <2>3. kept = {}
    BY ONLY <1>0, <2>1, <2>2, unlinks' = 0
  <2> QED BY <1>0, <1>3, <2>3, RemovedAre
<1>4. CASE run' = "writing" /\ run # "writing"
  <2>1. /\ (landed \ plan'.gone) \cup plan'.new \cup ToSet(chain') \subseteq ToSet(plan'.rows)
        /\ plan'.next = "ready" => TurnRows(plan'.rows, turn')
    BY <1>4, PlanHoldsLanded
  <2>2. ~TranscriptWritten /\ DiskRows' = DiskRows
    <3>1. ~TranscriptWritten
      BY <1>4 DEF TranscriptWritten
    <3>2. UNCHANGED <<archives, live>>
      BY <1>0, <1>4, PlannedRows
    <3> QED BY <3>1, <3>2 DEF DiskRows
  <2> QED BY <1>1, <1>2, <1>4, <2>1, <2>2 DEF LandedInv
<1>5. CASE RepairStubs
  <2>1. PICK unread \in SUBSET DOMAIN archives, kept \in SUBSET DOMAIN archives :
          /\ skips' = skips + Cardinality(unread)
          /\ live' = Rows(DOMAIN archives \ unread)
          /\ RemoveArchives(kept)
    BY <1>5 DEF RepairStubs
  <2>2. unread = {}
    <3>1. Cardinality(unread) \in Nat /\ (unread = {} <=> Cardinality(unread) = 0)
      BY <1>0, SkipsAre
    <3> QED BY ONLY <1>0, <2>1, <3>1, skips' = 0
  <2>3. live' = AllRows
    BY <2>1, <2>2 DEF AllRows
  <2>4. ToSet(live') = DiskRows /\ Junk \notin DiskRows
    BY <1>0, <2>3, ReadersGet DEF DiskRows, RowsOf
  <2>5. DiskRows \subseteq DiskRows'
    BY <2>4 DEF DiskRows, RowsOf
  <2>6. run' = "loading" /\ ~TranscriptWritten
    BY <1>5 DEF RepairStubs, GoTo, TranscriptWritten
  <2> QED BY <1>1, <1>2, <2>5, <2>6 DEF LandedInv
<1>6. CASE TranscriptWritten
  <2>1. /\ live' = plan.rows /\ archives' = archives /\ run = "writing" /\ run' = "clearing"
        /\ landed' = (landed \ plan.gone) \cup plan.new /\ UNCHANGED <<plan, turn>>
    BY <1>6 DEF TranscriptWritten
  <2>2. landed' \subseteq ToSet(live')
    BY <1>1, <2>1
  <2>3. Junk \notin ToSet(live')
    <3>1. plan.rows \in Seq(Row)
      BY <1>0 DEF TypeOK, Plan
    <3> QED BY <2>1, <3>1, Elements DEF Row, Junk
  <2>4. landed' \subseteq DiskRows'
    BY <2>2, <2>3 DEF DiskRows, RowsOf
  <2> QED BY <1>1, <2>1, <2>2, <2>4 DEF LandedInv
<1>7. CASE ArchivesRemoved
  <2>1. archives' = <<>>
    BY <1>3, <1>7 DEF ArchivesRemoved
  <2>2. /\ live' = live /\ run = "clearing" /\ run' = plan.next /\ UNCHANGED <<turn, landed>>
    BY <1>7 DEF ArchivesRemoved
  <2>3. landed \subseteq ToSet(live') \ {Junk}
    <3>1. landed \subseteq Row
      BY <1>0 DEF TypeOK
    <3> QED BY <1>1, <2>2, <3>1 DEF Row, Junk
  <2>4. landed' \subseteq DiskRows'
    BY <2>2, <2>3 DEF DiskRows, RowsOf
  <2>5. live = plan.rows /\ run' \notin {"writing", "clearing", "created"}
    BY <1>0, <2>2 DEF QuietRun
  <2>6. plan.rows \in Seq(Row)
    BY <1>0 DEF TypeOK, Plan
  <2>7. run' = "ready" => live' \in Seq(Row) /\ TurnRows(live', turn')
    BY <1>1, <2>2, <2>5, <2>6
  <2> QED BY <2>1, <2>4, <2>5, <2>7 DEF LandedInv
<1>8. CASE CreateRun
  <2>1. /\ archives = <<>> /\ live = <<>> /\ chain' = <<ticket + 1>> /\ turn'.new = {ticket + 1}
        /\ UNCHANGED <<archives, live>> /\ run' = "created"
    BY <1>0, <1>8 DEF CreateRun, QuietRun
  <2>2. DiskRows' = {} /\ DiskRows = {}
    BY <2>1 DEF DiskRows, RowsOf, ToSet
  <2>3. ToSet(chain') = {ticket + 1}
    BY <2>1 DEF ToSet
  <2>4. ~TranscriptWritten
    BY <2>1 DEF TranscriptWritten
  <2> QED BY <1>1, <1>2, <2>1, <2>2, <2>3, <2>4 DEF LandedInv
<1>9. CASE RunCreated
  <2>1. run = "created" /\ run' = "ready" /\ UNCHANGED <<archives, live, turn>>
    BY <1>9 DEF RunCreated, GoTo
  <2>2. DiskRows' = DiskRows /\ ~TranscriptWritten
    BY <2>1 DEF DiskRows, TranscriptWritten
  <2> QED BY <1>1, <1>2, <2>1, <2>2 DEF LandedInv
<1>10. CASE /\ ~(run' = "writing" /\ run # "writing")
            /\ ~(RepairStubs \/ TranscriptWritten \/ ArchivesRemoved \/ CreateRun \/ RunCreated)
  <2>1. run' \notin {"writing", "clearing", "created", "ready"}
    BY <1>10 DEF RunStep, Start, StartFlushThrows, ResumeRun,
           LoadToResume, LoadToRewind, LoadToAmend, StrictLoadFails, AmendFlushThrows,
           LoadAfterBlock, TranscriptWriteFails, BeginSteps, AppendMessage,
           EndStep, StepBoundary, EndTurn, EndAtLimit, Stop, Finish, GoTo, Edit
  <2>2. DiskRows' = DiskRows
    BY <1>0, <1>10, DiskAfterRun
  <2> QED BY <1>1, <1>2, <1>10, <2>1, <2>2 DEF LandedInv
<1> QED BY <1>4, <1>5, <1>6, <1>7, <1>8, <1>9, <1>10

LEMMA LandedStep ==
    ASSUME FileInv, LandedInv, [Next]_vars
    PROVE  LandedInv'
<1>0. TypeOK /\ WriterInv
  BY DEF FileInv, WriterInv
<1> SUFFICES ASSUME skips' = 0, unlinks' = 0 PROVE LandedInv'
  BY DEF LandedInv
<1>1. skips = 0 /\ unlinks = 0
  BY <1>0, CountsGrow
<1>2. CASE UNCHANGED vars
  BY <1>2 DEF vars, LandedInv, DiskRows
<1>3. CASE ReaderFlush
  BY <1>3 DEF ReaderFlush, LandedInv, DiskRows
<1>4. CASE Crash
  <2>1. run' = "off" /\ landed' = landed
    BY <1>4 DEF Crash
  <2>2. DiskRows \subseteq DiskRows'
    BY <1>0, <1>1, <1>4, DiskAfterCrash DEF Damaged
  <2>3. landed \subseteq DiskRows
    BY <1>1 DEF LandedInv
  <2> QED BY <2>1, <2>2, <2>3 DEF LandedInv
<1> QED BY <1>1, <1>2, <1>3, <1>4, LandedAfterAppend, LandedAfterRun DEF Next

LEMMA LandedInit == Init => LandedInv
<1> SUFFICES ASSUME Init PROVE LandedInv
  OBVIOUS
<1>1. landed = {} /\ run = "off"
  BY DEF Init
<1> QED BY <1>1 DEF LandedInv

\* A row that was appended, or written by a rewrite, stays in the transcript until a rewrite
\* takes it out on purpose: through rotations that fail half way, torn lines, retries and
\* crashes, while no read is skipped, the look at a torn tail is none that fails, and no
\* archive stays behind.
THEOREM AppendedSurvives == Spec => []LandedSurvives
<1> DEFINE Inv == FileInv /\ LandedInv
<1>1. Init => Inv
  BY FileInit, LandedInit
<1>2. Inv /\ [Next]_vars => Inv'
  BY FileStep, LandedStep
<1>3. Inv => LandedSurvives
  <2>1. FileInv => ToSet(AllRows) = DiskRows
    BY ReadersGet DEF FileInv, WriterInv
  <2> QED BY <2>1 DEF LandedInv, LandedSurvives
<1> HIDE DEF Inv
<1> QED BY <1>1, <1>2, <1>3, PTL DEF Spec
=============================================================================

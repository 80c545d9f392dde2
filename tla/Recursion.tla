----------------------------- MODULE Recursion ------------------------------
(***************************************************************************)
(* Induction over the natural numbers and the recursive functions defined  *)
(* along them, stated of sets and functions so that they can be applied.   *)
(***************************************************************************)
EXTENDS Naturals, Lists, SequencesExt, SequenceTheorems, WellFoundedInduction, TLAPS

(* A set that holds 0 and, with every number, the next one holds them all. *)
LEMMA InductiveSet ==
    ASSUME NEW S, 0 \in S, \A n \in Nat : n \in S => n + 1 \in S
    PROVE  \A n \in Nat : n \in S
<1> DEFINE R == OpToRel(<, Nat)
           U == {n \in Nat : n \notin S}
<1>1. IsWellFoundedOn(R, Nat)
  BY NatLessThanWellFounded
<1>2. \A x, y \in Nat : <<x, y>> \in R <=> x < y
  BY DEF OpToRel
<1> HIDE DEF R
<1>3. SUFFICES ASSUME U # {} PROVE FALSE
  OBVIOUS
<1>4. PICK u \in U : \A y \in U : ~ (<<y, u>> \in R)
  BY <1>1, <1>3, WFMin
<1>5. u \in Nat /\ u # 0
  OBVIOUS
<1>6. u - 1 \in Nat /\ u - 1 \in U /\ u - 1 < u
  BY <1>4, <1>5
<1> QED
  BY <1>2, <1>4, <1>5, <1>6

(* A set of the first k positions that is not empty has a last one.        *)
LEMMA GreatestMember ==
    ASSUME NEW k \in Nat, NEW T \in SUBSET (1..k), T # {}
    PROVE  \E j \in T : \A i \in T : i <= j
<1> DEFINE R == OpToRel(<, Nat)
           U == {k - j : j \in T}
<1>1. U \in SUBSET Nat /\ U # {}
  <2>1. \A j \in T : k - j \in Nat
    OBVIOUS
  <2>2. QED BY <2>1
<1>2. IsWellFoundedOn(R, Nat)
  BY NatLessThanWellFounded
<1>3. \A x, y \in Nat : <<x, y>> \in R <=> x < y
  BY DEF OpToRel
<1> HIDE DEF R
<1>4. PICK u \in U : \A y \in U : ~ (<<y, u>> \in R)
  BY <1>1, <1>2, WFMin
<1>5. PICK j \in T : u = k - j
  BY <1>4
<1>6. \A i \in T : i <= j
  <2>1. \A i \in T : k - i \in U /\ k - i \in Nat
    OBVIOUS
  <2>2. \A i \in T : ~ (k - i < k - j)
    BY <1>3, <1>4, <1>5, <2>1
  <2>3. QED BY <2>2
<1>7. QED BY <1>6

(* A step that stays in A at every position of 1..n, and the loop that     *)
(* takes it from position to position.                                     *)
Stays(step, A, n) == \A a \in A : \A k \in 1..n : step[<<a, k>>] \in A

IsLoop(g, A, base, step, n) ==
    /\ g \in [0..n -> A]
    /\ g[0] = base
    /\ \A k \in 1..n : g[k] = step[<<g[k - 1], k>>]

(* The loop is a function on 0..n.                                         *)
LEMMA LoopExists ==
    ASSUME NEW A, NEW base \in A, NEW n \in Nat, NEW step, Stays(step, A, n)
    PROVE  \E g : IsLoop(g, A, base, step, n)
<1> DEFINE S == {m \in Nat : m <= n => \E g : IsLoop(g, A, base, step, m)}
<1>1. 0 \in S
  <2> DEFINE g == [k \in 0..0 |-> base]
  <2>1. g \in [0..0 -> A] /\ g[0] = base
    OBVIOUS
  <2> HIDE DEF g
  <2>2. IsLoop(g, A, base, step, 0)
    BY <2>1 DEF IsLoop
  <2> QED
    BY <2>2
<1>2. ASSUME NEW m \in Nat, m \in S
      PROVE  m + 1 \in S
  <2>1. SUFFICES ASSUME m + 1 <= n
                 PROVE  \E g : IsLoop(g, A, base, step, m + 1)
    OBVIOUS
  <2>2. PICK g : IsLoop(g, A, base, step, m)
    BY <1>2, <2>1
  <2> DEFINE h == [k \in 0..m + 1 |-> IF k = m + 1 THEN step[<<g[m], m + 1>>] ELSE g[k]]
  <2>3. step[<<g[m], m + 1>>] \in A
    BY <2>1, <2>2 DEF IsLoop, Stays
  <2>4. h \in [0..m + 1 -> A]
    BY <2>2, <2>3 DEF IsLoop
  <2>5. h[m + 1] = step[<<g[m], m + 1>>] /\ \A k \in 0..m : h[k] = g[k]
    OBVIOUS
  <2> HIDE DEF h
  <2>6. \A k \in 1..m + 1 : h[k] = step[<<h[k - 1], k>>]
    <3> TAKE k \in 1..m + 1
    <3>1. CASE k = m + 1
      <4>1. k - 1 = m /\ h[m] = g[m]
        BY <2>5, <3>1
      <4> QED
        BY <2>5, <3>1, <4>1
    <3>2. CASE k \in 1..m
      <4>1. h[k] = g[k] /\ h[k - 1] = g[k - 1]
        BY <2>5, <3>2
      <4>2. g[k] = step[<<g[k - 1], k>>]
        BY <2>2, <3>2 DEF IsLoop
      <4> QED
        BY <4>1, <4>2
    <3> QED
      BY <3>1, <3>2
  <2>7. h[0] = base
    BY <2>2, <2>5 DEF IsLoop
  <2>8. IsLoop(h, A, base, step, m + 1)
    BY <2>4, <2>6, <2>7 DEF IsLoop
  <2> QED
    BY <2>8
<1> HIDE DEF S
<1>3. n \in S
  BY <1>1, <1>2, InductiveSet
<1> QED
  BY <1>3 DEF S

-----------------------------------------------------------------------------
(* Lists.                                                                  *)

LEMMA AppendRange ==
    ASSUME NEW E, NEW s \in Seq(E), NEW e \in E
    PROVE  Range(Append(s, e)) = Range(s) \cup {e}
<1>1. Append(s, e) = s \o <<e>>
  BY AppendIsConcat
<1> DEFINE t == <<e>>
<1>2. t \in Seq(E) /\ Range(t) = {e}
  BY DEF Range
<1> HIDE DEF t
<1>3. Range(s \o t) = Range(s) \cup Range(t)
  BY <1>2, RangeConcatenation
<1> QED
  BY <1>1, <1>2, <1>3 DEF t

(* What is kept of a list is in it, and nothing else is.                   *)
LEMMA PickedIs ==
    ASSUME NEW E, NEW s \in Seq(E), NEW at
    PROVE  /\ Picked(s, at) \in Seq(E)
           /\ Range(Picked(s, at)) = {s[i] : i \in at \cap DOMAIN s}
<1> DEFINE n == Len(s)
           Keep(x, k) == IF k \in at THEN Append(x, s[k]) ELSE x
           Filtering(g) == g = [k \in 0..n |-> IF k = 0 THEN << >>
                                               ELSE IF k \in at THEN Append(g[k - 1], s[k])
                                               ELSE g[k - 1]]
           out == CHOOSE g : Filtering(g)
           kept(k) == {s[i] : i \in at \cap (1..k)}
           S == {k \in Nat : k <= n => out[k] \in Seq(E) /\ Range(out[k]) = kept(k)}
<1>1. n \in Nat /\ \A k \in 1..n : s[k] \in E
  OBVIOUS
<1>2. Picked(s, at) = out[n]
  BY DEF Picked
<1>3. DOMAIN s = 1..n
  OBVIOUS
<1> HIDE DEF n
<1>4. \E g : Filtering(g)
  <2> DEFINE step == [x \in Seq(E) \X (1..n) |-> Keep(x[1], x[2])]
  <2>1. \A d \in Seq(E) : \A k \in 1..n : step[<<d, k>>] = Keep(d, k)
    OBVIOUS
  <2>2. \A d \in Seq(E) : \A k \in 1..n : Keep(d, k) \in Seq(E)
    BY <1>1, AppendProperties
  <2>3. Stays(step, Seq(E), n)
    BY <2>1, <2>2 DEF Stays
  <2> HIDE DEF step
  <2>4. << >> \in Seq(E)
    OBVIOUS
  <2>5. PICK g : IsLoop(g, Seq(E), << >>, step, n)
    BY <1>1, <2>3, <2>4, LoopExists
  <2>6. /\ g \in [0..n -> Seq(E)] /\ g[0] = << >>
        /\ \A k \in 1..n : g[k] = step[<<g[k - 1], k>>] /\ g[k - 1] \in Seq(E)
    BY <1>1, <2>5 DEF IsLoop
  <2>7. \A k \in 0..n : g[k] = IF k = 0 THEN << >>
                               ELSE IF k \in at THEN Append(g[k - 1], s[k])
                               ELSE g[k - 1]
    <3> TAKE k \in 0..n
    <3>1. k # 0 => k \in 1..n
      BY <1>1
    <3>2. k # 0 => g[k] = Keep(g[k - 1], k)
      BY <2>1, <2>6, <3>1
    <3> QED
      BY <2>6, <3>2
  <2>8. Filtering(g)
    BY <2>6, <2>7
  <2> QED
    BY <2>8
<1>5. Filtering(out)
  BY <1>4
<1> HIDE DEF out
<1>6. 0 \in S
  <2>1. out[0] = << >> /\ kept(0) = {}
    BY <1>1, <1>5
  <2>2. Range(<< >>) = {}
    BY DEF Range
  <2>3. << >> \in Seq(E)
    OBVIOUS
  <2> HIDE DEF kept
  <2>4. out[0] \in Seq(E) /\ Range(out[0]) = kept(0)
    BY <2>1, <2>2, <2>3
  <2> QED
    BY <2>4
<1>7. ASSUME NEW k \in Nat, k \in S
      PROVE  k + 1 \in S
  <2> SUFFICES ASSUME k + 1 <= n
               PROVE  out[k + 1] \in Seq(E) /\ Range(out[k + 1]) = kept(k + 1)
    OBVIOUS
  <2>1. /\ k + 1 \in 1..n /\ k + 1 \in 0..n /\ k + 1 # 0 /\ (k + 1) - 1 = k
        /\ out[k] \in Seq(E) /\ Range(out[k]) = kept(k)
    BY <1>1, <1>7
  <2>2. out[k + 1] = IF k + 1 \in at THEN Append(out[k], s[k + 1]) ELSE out[k]
    BY <1>5, <2>1
  <2>3. 1..k + 1 = (1..k) \cup {k + 1}
    OBVIOUS
  <2>4. CASE k + 1 \notin at
    <3>1. kept(k + 1) = kept(k)
      BY <2>3, <2>4
    <3> QED
      BY <2>1, <2>2, <2>4, <3>1
  <2>5. CASE k + 1 \in at
    <3>1. kept(k + 1) = kept(k) \cup {s[k + 1]}
      BY <2>3, <2>5
    <3> HIDE DEF kept
    <3>2. s[k + 1] \in E
      BY <1>1, <2>1
    <3>3. /\ Append(out[k], s[k + 1]) \in Seq(E)
          /\ Range(Append(out[k], s[k + 1])) = Range(out[k]) \cup {s[k + 1]}
      BY <2>1, <3>2, AppendProperties, AppendRange
    <3> QED
      BY <2>1, <2>2, <2>5, <3>1, <3>3
  <2> QED
    BY <2>4, <2>5
<1> HIDE DEF S
<1>8. n \in S
  BY <1>1, <1>6, <1>7, InductiveSet
<1>9. out[n] \in Seq(E) /\ Range(out[n]) = kept(n)
  BY <1>1, <1>8 DEF S
<1>10. kept(n) = {s[i] : i \in at \cap DOMAIN s}
  BY <1>3 DEF Range
<1> QED
  BY <1>2, <1>9, <1>10

(* A list of lists, laid end to end, is a list of the same items.          *)
LEMMA FlattenedIsASeq ==
    ASSUME NEW E, NEW seqs \in Seq(Seq(E))
    PROVE  FlattenSeq(seqs) \in Seq(E)
<1> DEFINE n == Len(seqs)
           Joining(f) == f = [i \in 1..n |-> IF i = 1 THEN seqs[i] ELSE f[i - 1] \o seqs[i]]
           flat == CHOOSE f : Joining(f)
           S == {k \in Nat : k + 1 <= n => flat[k + 1] \in Seq(E)}
<1>1. n \in Nat /\ \A k \in 1..n : seqs[k] \in Seq(E)
  OBVIOUS
<1>2. << >> \in Seq(E)
  OBVIOUS
<1>3. FlattenSeq(seqs) = IF n = 0 THEN seqs ELSE flat[n]
  BY DEF FlattenSeq
<1>4. n = 0 => FlattenSeq(seqs) \in Seq(E)
  <2>1. n = 0 => seqs = << >>
    OBVIOUS
  <2> QED
    BY <1>2, <1>3, <2>1
<1> HIDE DEF n
<1>5. \E f : Joining(f)
  <2> DEFINE step == [x \in Seq(E) \X (1..n) |-> x[1] \o seqs[x[2]]]
  <2>1. \A d \in Seq(E) : \A k \in 1..n : step[<<d, k>>] = d \o seqs[k]
    OBVIOUS
  <2>2. \A d \in Seq(E) : \A k \in 1..n : d \o seqs[k] \in Seq(E)
    BY <1>1, ConcatProperties
  <2>3. Stays(step, Seq(E), n)
    BY <2>1, <2>2 DEF Stays
  <2> HIDE DEF step
  <2>4. PICK g : IsLoop(g, Seq(E), << >>, step, n)
    BY <1>1, <1>2, <2>3, LoopExists
  <2>5. /\ g \in [0..n -> Seq(E)] /\ g[0] = << >>
        /\ \A k \in 1..n : g[k] = step[<<g[k - 1], k>>] /\ g[k - 1] \in Seq(E)
    BY <1>1, <2>4 DEF IsLoop
  <2> DEFINE f == [i \in 1..n |-> g[i]]
  <2>6. \A i \in 1..n : g[i] = g[i - 1] \o seqs[i]
    BY <2>1, <2>5
  <2>7. \A i \in 1..n : g[i] = IF i = 1 THEN seqs[i] ELSE f[i - 1] \o seqs[i]
    <3> TAKE i \in 1..n
    <3>1. CASE i = 1
      <4>1. << >> \o seqs[i] = seqs[i]
        BY <1>1, ConcatEmptySeq
      <4>2. g[i - 1] = << >>
        BY <2>5, <3>1
      <4> QED
        BY <2>6, <3>1, <4>1, <4>2
    <3>2. CASE i # 1
      <4>1. i - 1 \in 1..n /\ f[i - 1] = g[i - 1]
        BY <1>1, <3>2
      <4> HIDE DEF f
      <4> QED
        BY <2>6, <3>2, <4>1
    <3> QED
      BY <3>1, <3>2
  <2>8. Joining(f)
    BY <2>7
  <2> QED
    BY <2>8
<1>6. Joining(flat)
  BY <1>5
<1> HIDE DEF flat
<1>7. 0 \in S
  BY <1>1, <1>6
<1>8. ASSUME NEW k \in Nat, k \in S
      PROVE  k + 1 \in S
  <2> SUFFICES ASSUME (k + 1) + 1 <= n
               PROVE  flat[(k + 1) + 1] \in Seq(E)
    OBVIOUS
  <2>1. /\ k + 1 \in 1..n /\ (k + 1) + 1 \in 1..n /\ (k + 1) + 1 # 1
        /\ ((k + 1) + 1) - 1 = k + 1 /\ flat[k + 1] \in Seq(E)
    BY <1>1, <1>8
  <2>2. flat[(k + 1) + 1] = flat[k + 1] \o seqs[(k + 1) + 1]
    BY <1>6, <2>1
  <2>3. seqs[(k + 1) + 1] \in Seq(E)
    BY <1>1, <2>1
  <2> QED
    BY <2>1, <2>2, <2>3, ConcatProperties
<1> HIDE DEF S
<1>9. \A k \in Nat : k \in S
  BY <1>7, <1>8, InductiveSet
<1>10. n # 0 => flat[n] \in Seq(E)
  <2> SUFFICES ASSUME n # 0 PROVE flat[n] \in Seq(E)
    OBVIOUS
  <2>1. n - 1 \in Nat /\ (n - 1) + 1 = n
    BY <1>1
  <2>2. n - 1 \in S
    BY <1>9, <2>1
  <2> QED
    BY <2>1, <2>2 DEF S
<1> QED
  BY <1>3, <1>4, <1>10
=============================================================================

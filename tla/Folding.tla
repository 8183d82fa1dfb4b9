------------------------------- MODULE Folding -------------------------------
(***************************************************************************)
(* What a loop over a sequence keeps: FoldLeft is op applied to one        *)
(* element after the other, so that a relation between where it started,   *)
(* where it is and what it went through holds at its end, when op keeps it.*)
(* The loops of the code are such folds; a module that reasons about one   *)
(* instantiates this one with its step and its invariant.                  *)
(***************************************************************************)
EXTENDS Integers, Sequences, SequencesExt, WellFoundedInduction, TLAPS

CONSTANTS
    op(_, _),       \* the step: what the element makes of the accumulator
    Inv(_, _, _)    \* the invariant: start, accumulator, elements so far

-------------------------------------------------------------------------------
(* Induction.                                                              *)

\* A set that has zero and, with a number, the next one, has them all: a
\* number it lacks would have a least one below it that it lacks too.
LEMMA InductionOnNat ==
  ASSUME NEW S, 0 \in S, \A n \in Nat : n \in S => n + 1 \in S
  PROVE  \A n \in Nat : n \in S
<1> DEFINE R == OpToRel(<, Nat)
           T == Nat \ S
<1>1. SUFFICES ASSUME T # {} PROVE FALSE
  OBVIOUS
<1>2. IsWellFoundedOn(R, Nat)
  BY NatLessThanWellFounded
<1>3. T \subseteq Nat
  OBVIOUS
<1>4. \E x \in T : \A y \in T : ~ (<<y, x>> \in R)
  <2> HIDE DEF R, T
  <2> QED BY <1>1, <1>2, <1>3, WFMin
<1>5. PICK x \in T : \A y \in T : ~ (<<y, x>> \in R)
  BY <1>4
<1>6. \A y \in Nat : y < x => <<y, x>> \in R
  BY <1>5 DEF OpToRel
<1>7. x # 0 /\ x \in Nat
  OBVIOUS
<1>8. x - 1 \in Nat /\ x - 1 < x
  BY <1>7
<1>9. x - 1 \notin T
  BY <1>5, <1>6, <1>8
<1>10. x - 1 \in S
  BY <1>8, <1>9
<1>11. x \in S
  BY <1>8, <1>10, <1>7
<1> QED BY <1>11

\* A set of numbers that is not empty has a least one: else no number is below
\* all of it and in it, so that every number is below all of it.
LEMMA LeastExists ==
  ASSUME NEW S \in SUBSET Nat, S # {}
  PROVE  \E n \in S : \A k \in S : n <= k
<1> DEFINE T == {n \in Nat : \A k \in S : n <= k}
<1>1. \E n \in T : n \in S
  <2> SUFFICES ASSUME \A n \in T : n \notin S PROVE FALSE
    OBVIOUS
  <2>1. 0 \in T
    OBVIOUS
  <2>2. \A n \in Nat : n \in T => n + 1 \in T
    OBVIOUS
  <2> HIDE DEF T
  <2>3. \A n \in Nat : n \in T
    BY <2>1, <2>2, InductionOnNat
  <2> QED BY <2>3
<1> QED BY <1>1

-------------------------------------------------------------------------------
(* The recursive function a fold is defined by.                            *)

Folded(base, seq) == FoldLeft(op, base, seq)

\* The fold over a set of indices: the greatest of them is applied last.
Step(base, seq, g, s) ==
    IF s = {} THEN base ELSE op(g[s \ {Max(s)}], seq[Max(s)])

IsFold(g, base, seq, n) == g = [s \in SUBSET (1 .. n) |-> Step(base, seq, g, s)]

SameUpTo(n, seq, other) == \A i \in 1 .. n : seq[i] = other[i]

\* A fold over a sequence is that function, of all the indices.
LEMMA FoldLeftIs ==
  ASSUME NEW base, NEW S, NEW seq \in Seq(S)
  PROVE FoldLeft(op, base, seq) = (CHOOSE g : IsFold(g, base, seq, Len(seq)))[1 .. Len(seq)]
<1>1. DOMAIN seq = 1 .. Len(seq)
  OBVIOUS
<1> QED
  BY <1>1 DEF FoldLeft, MapThenFoldSet, IsFold, Step

\* The greatest index up to n + 1 is n + 1; the others are up to n.
LEMMA MaxOf ==
  ASSUME NEW n \in Nat, NEW s \in SUBSET (1 .. n + 1)
  PROVE  /\ n + 1 \in s => Max(s) = n + 1
         /\ s \ {n + 1} \in SUBSET (1 .. n)
<1>1. ASSUME n + 1 \in s PROVE Max(s) = n + 1
  <2>1. \A y \in s : y \in Int /\ n + 1 >= y
    OBVIOUS
  <2>2. \A x \in s : (\A y \in s : x >= y) => x = n + 1
    BY <1>1, <2>1
  <2> QED BY <1>1, <2>1, <2>2 DEF Max
<1>2. \A x \in s : x # n + 1 => x \in 1 .. n
  OBVIOUS
<1> QED BY <1>1, <1>2

\* There is such a function for every number of indices.
LEMMA FoldExists ==
  ASSUME NEW base, NEW seq
  PROVE  \A n \in Nat : \E g : IsFold(g, base, seq, n)
<1> DEFINE T == {n \in Nat : \E g : IsFold(g, base, seq, n)}
<1>1. 0 \in T
  <2> DEFINE g == [s \in SUBSET (1 .. 0) |-> base]
  <2>1. g = [s \in SUBSET (1 .. 0) |-> Step(base, seq, g, s)]
    BY DEF Step
  <2> QED BY <2>1 DEF IsFold
<1>2. ASSUME NEW n \in Nat, n \in T PROVE n + 1 \in T
  <2>1. PICK g : IsFold(g, base, seq, n)
    BY <1>2
  <2> DEFINE h == [s \in SUBSET (1 .. n + 1) |->
                     IF n + 1 \in s THEN op(g[s \ {n + 1}], seq[n + 1]) ELSE g[s]]
  <2>2. ASSUME NEW s \in SUBSET (1 .. n + 1)
        PROVE  h[s] = Step(base, seq, h, s)
    <3>1. CASE n + 1 \in s
      <4>1. Max(s) = n + 1 /\ s \ {n + 1} \in SUBSET (1 .. n + 1)
            /\ n + 1 \notin s \ {n + 1}
        BY MaxOf, <3>1
      <4>2. h[s \ {n + 1}] = g[s \ {n + 1}]
        BY <4>1
      <4>3. h[s] = op(g[s \ {n + 1}], seq[n + 1])
        BY <3>1
      <4> HIDE DEF h
      <4> QED BY <3>1, <4>1, <4>2, <4>3 DEF Step
    <3>2. CASE n + 1 \notin s
      <4>1. s \in SUBSET (1 .. n)
        BY <3>2
      <4>2. h[s] = g[s]
        BY <3>2
      <4>3. g[s] = Step(base, seq, g, s)
        BY <2>1, <4>1 DEF IsFold
      <4>4. s \ {Max(s)} \in SUBSET (1 .. n + 1) /\ n + 1 \notin s \ {Max(s)}
        BY <3>2
      <4>5. h[s \ {Max(s)}] = g[s \ {Max(s)}]
        BY <4>4
      <4> HIDE DEF h
      <4> QED BY <4>2, <4>3, <4>5 DEF Step
    <3> QED BY <3>1, <3>2
  <2>3. h = [s \in SUBSET (1 .. n + 1) |-> Step(base, seq, h, s)]
    <3> DEFINE k == [s \in SUBSET (1 .. n + 1) |-> Step(base, seq, h, s)]
    <3>1. DOMAIN h = SUBSET (1 .. n + 1) /\ h = [s \in SUBSET (1 .. n + 1) |-> h[s]]
      OBVIOUS
    <3> HIDE DEF h
    <3> QED BY <2>2, <3>1
  <2> HIDE DEF h
  <2> QED BY <2>3 DEF IsFold
<1> HIDE DEF T
<1>3. \A n \in Nat : n \in T
  BY <1>1, <1>2, InductionOnNat
<1> QED BY <1>3 DEF T

\* Two of them agree where their sequences do, whatever follows in one.
LEMMA FoldsAgree ==
  ASSUME NEW base, NEW seq, NEW other, NEW n \in Nat,
         NEW g, NEW h, IsFold(g, base, seq, n), IsFold(h, base, other, n + 1),
         SameUpTo(n, seq, other)
  PROVE  \A s \in SUBSET (1 .. n) : g[s] = h[s]
<1> DEFINE T == {k \in Nat : k <= n => \A s \in SUBSET (1 .. k) : g[s] = h[s]}
<1>0. ASSUME NEW s \in SUBSET (1 .. n)
      PROVE  g[s] = Step(base, seq, g, s) /\ h[s] = Step(base, other, h, s)
  <2>1. s \in SUBSET (1 .. n + 1)
    OBVIOUS
  <2> QED BY <2>1 DEF IsFold
<1>1. 0 \in T
  <2>1. {} \in SUBSET (1 .. n) /\ \A s \in SUBSET (1 .. 0) : s = {}
    OBVIOUS
  <2>2. g[{}] = base /\ h[{}] = base
    BY <2>1, <1>0 DEF Step
  <2> QED BY <2>1, <2>2
<1>2. ASSUME NEW k \in Nat, k \in T PROVE k + 1 \in T
  <2> SUFFICES ASSUME k + 1 <= n, NEW s \in SUBSET (1 .. k + 1) PROVE g[s] = h[s]
    OBVIOUS
  <2>1. CASE k + 1 \in s
    <3>1. Max(s) = k + 1 /\ s \ {k + 1} \in SUBSET (1 .. k)
      BY <2>1, MaxOf
    <3>2. g[s \ {k + 1}] = h[s \ {k + 1}]
      BY <1>2, <3>1
    <3>3. s \in SUBSET (1 .. n) /\ k + 1 \in 1 .. n
      OBVIOUS
    <3>4. seq[k + 1] = other[k + 1]
      BY <3>3 DEF SameUpTo
    <3>5. g[s] = Step(base, seq, g, s) /\ h[s] = Step(base, other, h, s)
      BY <1>0, <3>3
    <3> QED BY <3>1, <3>2, <3>4, <3>5 DEF Step
  <2>2. CASE k + 1 \notin s
    <3>1. s \in SUBSET (1 .. k)
      BY <2>2
    <3> QED BY <1>2, <3>1
  <2> QED BY <2>1, <2>2
<1> HIDE DEF T
<1>3. \A k \in Nat : k \in T
  BY <1>1, <1>2, InductionOnNat
<1> QED BY <1>3 DEF T

-------------------------------------------------------------------------------
(* Folds over sequences.                                                   *)

\* A fold over nothing is where it started.
THEOREM FoldLeftOfEmpty ==
  ASSUME NEW base
  PROVE  Folded(base, << >>) = base
<1>1. PICK g : IsFold(g, base, << >>, 0)
  BY FoldExists
<1>2. IsFold(CHOOSE f : IsFold(f, base, << >>, 0), base, << >>, 0)
  BY <1>1
<1> DEFINE f == CHOOSE f : IsFold(f, base, << >>, 0)
<1>3. << >> \in Seq({}) /\ Len(<< >>) = 0 /\ 1 .. 0 = {}
  OBVIOUS
<1>4. Folded(base, << >>) = f[1 .. 0]
  BY <1>3, FoldLeftIs DEF Folded
<1>5. f[1 .. 0] = Step(base, << >>, f, 1 .. 0)
  <2> HIDE DEF f
  <2>1. IsFold(f, base, << >>, 0)
    BY <1>2 DEF f
  <2> QED BY <2>1 DEF IsFold
<1> QED BY <1>3, <1>4, <1>5 DEF Step

\* A fold over one more element is one more step.
THEOREM FoldLeftOfAppend ==
  ASSUME NEW base, NEW S, NEW seq \in Seq(S), NEW e \in S
  PROVE  Folded(base, Append(seq, e)) = op(Folded(base, seq), e)
<1> DEFINE n == Len(seq)
           longer == Append(seq, e)
           f == CHOOSE g : IsFold(g, base, seq, n)
           h == CHOOSE g : IsFold(g, base, longer, n + 1)
<1>1. n \in Nat /\ n + 1 \in Nat /\ longer \in Seq(S) /\ Len(longer) = n + 1
      /\ longer[n + 1] = e /\ \A i \in 1 .. n : seq[i] = longer[i]
  OBVIOUS
<1>2. Folded(base, seq) = f[1 .. n]
  BY FoldLeftIs DEF Folded
<1>3. Folded(base, longer) = h[1 .. n + 1]
  <2> HIDE DEF longer, n
  <2>1. Folded(base, longer)
          = (CHOOSE g : IsFold(g, base, longer, Len(longer)))[1 .. Len(longer)]
    BY <1>1, FoldLeftIs DEF Folded
  <2> QED BY <1>1, <2>1
<1>4. IsFold(f, base, seq, n)
  BY <1>1, FoldExists
<1>5. IsFold(h, base, longer, n + 1)
  <2> HIDE DEF longer, n
  <2> QED BY <1>1, FoldExists
<1> HIDE DEF n, longer, f, h
<1>6. h[1 .. n + 1] = op(h[1 .. n], e)
  <2>1. h[1 .. n + 1] = Step(base, longer, h, 1 .. n + 1)
    BY <1>1, <1>5 DEF IsFold
  <2>2. n + 1 \in 1 .. n + 1 /\ 1 .. n + 1 # {} /\ (1 .. n + 1) \ {n + 1} = 1 .. n
    <3>1. \A i \in 1 .. n + 1 : i # n + 1 => i \in 1 .. n
      BY <1>1
    <3>2. \A i \in 1 .. n : i \in 1 .. n + 1 /\ i # n + 1
      BY <1>1
    <3>3. n + 1 \in 1 .. n + 1
      BY <1>1
    <3> QED BY <3>1, <3>2, <3>3
  <2>3. Max(1 .. n + 1) = n + 1
    BY <1>1, <2>2, MaxOf
  <2> QED BY <1>1, <2>1, <2>2, <2>3 DEF Step
<1>7. f[1 .. n] = h[1 .. n]
  <2>2. \A s \in SUBSET (1 .. n) : f[s] = h[s]
    <3>1. n \in Nat /\ n + 1 \in Nat /\ SameUpTo(n, seq, longer)
      BY <1>1 DEF SameUpTo
    <3> QED BY <1>4, <1>5, <3>1, FoldsAgree, SMT
  <2> QED BY <2>2
<1> QED BY <1>2, <1>3, <1>6, <1>7 DEF longer

\* What a step keeps, the fold keeps, however long the sequence.
THEOREM FoldLeftInduction ==
  ASSUME NEW base, NEW S, Inv(base, base, << >>),
         \A a, s, e : (s \in Seq(S) /\ e \in S /\ Inv(base, a, s))
                        => Inv(base, op(a, e), Append(s, e))
  PROVE  \A seq \in Seq(S) : Inv(base, Folded(base, seq), seq)
<1> DEFINE T == {n \in Nat : \A seq \in Seq(S) : Len(seq) = n =>
                      Inv(base, Folded(base, seq), seq)}
<1>1. 0 \in T
  <2>1. \A seq \in Seq(S) : Len(seq) = 0 => seq = << >>
    OBVIOUS
  <2> QED BY <2>1, FoldLeftOfEmpty
<1>2. ASSUME NEW n \in Nat, n \in T PROVE n + 1 \in T
  <2> SUFFICES ASSUME NEW seq \in Seq(S), Len(seq) = n + 1
               PROVE  Inv(base, Folded(base, seq), seq)
    OBVIOUS
  <2> DEFINE s == SubSeq(seq, 1, n)
             e == seq[n + 1]
  <2>1. s \in Seq(S) /\ Len(s) = n /\ e \in S /\ seq = Append(s, e)
    OBVIOUS
  <2> HIDE DEF s, e
  <2>2. Inv(base, Folded(base, s), s)
    BY <1>2, <2>1
  <2>3. Folded(base, seq) = op(Folded(base, s), e)
    BY <2>1, FoldLeftOfAppend
  <2> QED BY <2>1, <2>2, <2>3
<1> HIDE DEF T
<1>3. \A n \in Nat : n \in T
  BY <1>1, <1>2, InductionOnNat
<1> QED BY <1>3 DEF T
===============================================================================

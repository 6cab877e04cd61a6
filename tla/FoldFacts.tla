------------------------------ MODULE FoldFacts ------------------------------
(***************************************************************************)
(* What a loop preserves.  op(a, b, c, s, x) is one turn: from the state s *)
(* and the element x, with the parameters a, b and c of the loop, to the   *)
(* next state.  P(ctx, s) is what is known of the state, relative to a     *)
(* state or a set ctx.  A proof about a FoldLeft instantiates this module  *)
(* with its own step and property, since a lemma with an operator for a    *)
(* parameter cannot be applied.                                            *)
(***************************************************************************)
EXTENDS Integers, WellFoundedInduction

CONSTANTS op(_, _, _, _, _), P(_, _)

\* The largest of a set of numbers.
Largest(S) == CHOOSE m \in S : \A x \in S : m >= x

\* The loop: FoldLeft of op, as SequencesExt and Folds define it.
Run(a, b, c, base, seq) ==
    LET iter[s \in SUBSET (DOMAIN seq)] ==
            IF s = {} THEN base
            ELSE LET x == Largest(s) IN op(a, b, c, iter[s \ {x}], seq[x])
    IN iter[DOMAIN seq]

\* The states that it passes: Iter[1..k] is the one after k elements.
Iter(a, b, c, base, seq) ==
    LET iter[s \in SUBSET (DOMAIN seq)] ==
            IF s = {} THEN base
            ELSE LET x == Largest(s) IN op(a, b, c, iter[s \ {x}], seq[x])
    IN iter

\* Induction over the numbers up to n, with the property as a set.
LEMMA UpTo ==
    ASSUME NEW n \in Nat, NEW G, 0 \in G, \A k \in 0..(n - 1) : k \in G => k + 1 \in G
    PROVE  n \in G
  <1> DEFINE B == {k \in 0..n : k \notin G}
  <1>1. SUFFICES ASSUME n \notin G PROVE FALSE
    OBVIOUS
  <1>2. B \in SUBSET Nat /\ n \in B
    BY <1>1
  <1>3. PICK k \in B : \A y \in B : k <= y
    <2> DEFINE R == OpToRel(<, Nat)
    <2>1. \A x, y \in Nat : y < x => <<y, x>> \in R
      BY DEF OpToRel
    <2>2. IsWellFoundedOn(R, Nat)
      BY NatLessThanWellFounded
    <2> HIDE DEF R, B
    <2>3. PICK k \in B : \A y \in B : ~(<<y, k>> \in R)
      BY <1>2, <2>2, WFMin
    <2>4. \A y \in B : k <= y
      <3>1. ASSUME NEW y \in B, ~(k <= y) PROVE FALSE
        <4>1. y \in Nat /\ k \in Nat /\ y < k
          BY <1>2, <3>1
        <4> QED BY <2>1, <2>3, <4>1
      <3> QED BY <3>1
    <2> QED BY <2>4
  <1>4. k # 0 /\ k \in 1..n /\ k - 1 \in 0..(n - 1)
    BY <1>3
  <1>5. k - 1 \notin B
    BY <1>3, <1>4
  <1>6. k - 1 \in G
    BY <1>4, <1>5
  <1>7. (k - 1) + 1 \in G
    BY <1>4, <1>6
  <1> QED BY <1>3, <1>4, <1>7

\* A member of a set of numbers that is at least as large as all is the largest.
LEMMA MaxOf ==
    ASSUME NEW S, NEW m \in S, S \subseteq Int, \A x \in S : x <= m
    PROVE  Largest(S) = m
  <1>1. Largest(S) \in S /\ \A x \in S : Largest(S) >= x
    BY DEF Largest
  <1>2. Largest(S) \in Int /\ m \in Int /\ Largest(S) >= m /\ Largest(S) <= m
    BY <1>1
  <1> QED BY <1>2

\* A nonempty set of numbers up to n has a largest member.
LEMMA HasMax ==
    ASSUME NEW n \in Nat, NEW S \in SUBSET (1..n), S # {}
    PROVE  Largest(S) \in S /\ \A x \in S : x <= Largest(S)
  <1> DEFINE G == {k \in 0..n : \A T \in SUBSET (1..k) : T # {} => \E m \in T : \A x \in T : x <= m}
  <1>1. 0 \in G
    <2>1. \A T \in SUBSET (1..0) : T = {}
      OBVIOUS
    <2>2. 0 \in 0..n
      OBVIOUS
    <2>3. \A T \in SUBSET (1..0) : T # {} => \E m \in T : \A x \in T : x <= m
      BY <2>1
    <2> QED BY <2>2, <2>3
  <1>2. ASSUME NEW k \in 0..(n - 1), k \in G PROVE k + 1 \in G
    <2>1. SUFFICES ASSUME NEW T \in SUBSET (1..(k + 1)), T # {} PROVE \E m \in T : \A x \in T : x <= m
      OBVIOUS
    <2>2. CASE k + 1 \in T
      BY <2>2
    <2>3. CASE k + 1 \notin T
      <3>1. T \in SUBSET (1..k)
        BY <2>3
      <3> QED BY <1>2, <2>1, <3>1
    <2> QED BY <2>2, <2>3
  <1> HIDE DEF G
  <1>3. n \in G
    BY <1>1, <1>2, UpTo
  <1>4. PICK m \in S : \A x \in S : x <= m
    BY <1>3 DEF G
  <1>5. Largest(S) = m
    <2>1. S \subseteq Int
      OBVIOUS
    <2> QED BY <1>4, <2>1, MaxOf
  <1> QED BY <1>4, <1>5

\* The loop passes through the states Iter[1..0] to Iter[1..n].  The
\* function that FoldLeft is defined by exists since it does for the first k
\* elements, whatever k.
LEMMA FoldRuns ==
    ASSUME NEW a, NEW b, NEW c, NEW base, NEW seq, NEW n \in Nat, DOMAIN seq = 1..n
    PROVE  LET iter == Iter(a, b, c, base, seq)
           IN  /\ iter[{}] = base
               /\ \A k \in 0..(n - 1) : iter[1..(k + 1)] = op(a, b, c, iter[1..k], seq[k + 1])
               /\ Run(a, b, c, base, seq) = iter[1..n]
  <1> DEFINE Step(f, s) == IF s = {} THEN base ELSE op(a, b, c, f[s \ {Largest(s)}], seq[Largest(s)])
             IsFold(f, k) == f = [s \in SUBSET (1..k) |-> Step(f, s)]
             G == {k \in 0..n : \E f : IsFold(f, k)}
             iter == CHOOSE f : f = [s \in SUBSET (1..n) |-> Step(f, s)]
  <1>1. 0 \in G
    <2> DEFINE f == [s \in {{}} |-> base]
    <2>1. SUBSET (1..0) = {{}}
      OBVIOUS
    <2>2. IsFold(f, 0)
      BY <2>1
    <2> HIDE DEF f
    <2>3. \E h : IsFold(h, 0)
      BY <2>2
    <2> HIDE DEF IsFold
    <2> QED BY <2>3
  <1>2. ASSUME NEW k \in 0..(n - 1), k \in G PROVE k + 1 \in G
    <2>1. PICK f : IsFold(f, k)
      BY <1>2
    <2> DEFINE g == [s \in SUBSET (1..(k + 1)) |->
                       IF k + 1 \in s THEN op(a, b, c, f[s \ {k + 1}], seq[k + 1]) ELSE f[s]]
    <2>2. ASSUME NEW s \in SUBSET (1..(k + 1)) PROVE g[s] = Step(g, s)
      <3>1. CASE k + 1 \in s
        <4>1. Largest(s) = k + 1
          <5>1. s \subseteq Int /\ \A x \in s : x <= k + 1
            OBVIOUS
          <5> QED BY <3>1, <5>1, MaxOf
        <4>2. s \ {k + 1} \in SUBSET (1..k) /\ k + 1 \notin s \ {k + 1}
          OBVIOUS
        <4>3. g[s \ {k + 1}] = f[s \ {k + 1}]
          BY <4>2
        <4>4. g[s] = op(a, b, c, f[s \ {k + 1}], seq[k + 1])
          BY <3>1
        <4> HIDE DEF g
        <4> QED BY <3>1, <4>1, <4>3, <4>4
      <3>2. CASE k + 1 \notin s
        <4>1. s \in SUBSET (1..k)
          BY <3>2
        <4>2. g[s] = f[s] /\ f[s] = Step(f, s)
          BY <2>1, <3>2, <4>1
        <4>3. CASE s = {}
          BY <4>2, <4>3
        <4>4. CASE s # {}
          <5>1. Largest(s) \in s
            <6>1. k \in Nat
              OBVIOUS
            <6> HIDE DEF g
            <6> QED BY <4>1, <4>4, <6>1, HasMax
          <5>2. s \ {Largest(s)} \in SUBSET (1..(k + 1)) /\ k + 1 \notin s \ {Largest(s)}
            BY <3>2
          <5>3. g[s \ {Largest(s)}] = f[s \ {Largest(s)}]
            BY <5>2
          <5> HIDE DEF g
          <5> QED BY <4>2, <4>4, <5>3
        <4> QED BY <4>3, <4>4
      <3> QED BY <3>1, <3>2
    <2>3. IsFold(g, k + 1)
      BY <2>2
    <2> HIDE DEF g
    <2>4. \E h : IsFold(h, k + 1)
      BY <2>3
    <2> HIDE DEF IsFold
    <2> QED BY <2>4
  <1>3. n \in G
    <2> HIDE DEF G
    <2> QED BY <1>1, <1>2, UpTo
  <1>4. iter = [s \in SUBSET (1..n) |-> Step(iter, s)]
    BY <1>3
  <1>5. /\ Run(a, b, c, base, seq) = iter[1..n]
        /\ Iter(a, b, c, base, seq) = iter
    BY DEF Run, Iter
  <1> HIDE DEF iter
  <1>6. iter[{}] = base
    BY <1>4
  <1>7. ASSUME NEW k \in 0..(n - 1) PROVE iter[1..(k + 1)] = op(a, b, c, iter[1..k], seq[k + 1])
    <2>1. Largest(1..(k + 1)) = k + 1
      <3>1. 1..(k + 1) \subseteq Int /\ k + 1 \in 1..(k + 1) /\ \A x \in 1..(k + 1) : x <= k + 1
        OBVIOUS
      <3> QED BY <3>1, MaxOf
    <2>2. (1..(k + 1)) \ {k + 1} = 1..k /\ 1..(k + 1) # {} /\ 1..(k + 1) \in SUBSET (1..n)
      OBVIOUS
    <2> QED BY <1>4, <2>1, <2>2
  <1> QED BY <1>5, <1>6, <1>7

\* What holds at first and is kept by every turn holds at the end.
LEMMA FoldKeeps ==
    ASSUME NEW a, NEW b, NEW c, NEW ctx, NEW base, NEW seq, NEW n \in Nat, DOMAIN seq = 1..n, P(ctx, base),
           \A s : \A i \in 1..n : P(ctx, s) => P(ctx, op(a, b, c, s, seq[i]))
    PROVE  P(ctx, Run(a, b, c, base, seq))
  <1> DEFINE iter == Iter(a, b, c, base, seq)
             K == {k \in 0..n : P(ctx, iter[1..k])}
  <1>1. /\ iter[{}] = base
        /\ \A k \in 0..(n - 1) : iter[1..(k + 1)] = op(a, b, c, iter[1..k], seq[k + 1])
        /\ Run(a, b, c, base, seq) = iter[1..n]
    BY FoldRuns
  <1> HIDE DEF iter
  <1>2. 0 \in K
    <2>1. 1..0 = {}
      OBVIOUS
    <2> QED BY <1>1, <2>1
  <1>3. ASSUME NEW k \in 0..(n - 1), k \in K PROVE k + 1 \in K
    <2>1. k + 1 \in 1..n
      OBVIOUS
    <2> QED BY <1>1, <1>3, <2>1
  <1>4. n \in K
    <2> HIDE DEF K
    <2> QED BY <1>2, <1>3, UpTo
  <1> QED BY <1>1, <1>4
=============================================================================

-------------------------- MODULE IntervalTheorems --------------------------
(***************************************************************************)
(* The elements that Min and Max of FiniteSetsExt choose exist: a bounded  *)
(* set of numbers has a least and a greatest element.  Event sequences and *)
(* ordinals are allocated and compared through these two operators.  From  *)
(* them follow induction over the numbers up to n, stated of a set, and    *)
(* that the functions exist which the models define by such a recursion.   *)
(***************************************************************************)
EXTENDS FiniteSetsExt, WellFoundedInduction, TLAPS

\* OpToRel turns the order of numbers into a set of pairs.
LEMMA LessThanPairs ==
  \A x, y \in Nat : <<y, x>> \in OpToRel(<, Nat) <=> y < x
<1> TAKE x, y \in Nat
<1>1. <<y, x>>[1] = y /\ <<y, x>>[2] = x /\ <<y, x>> \in Nat \X Nat
  OBVIOUS
<1>2. <<y, x>> \in {ss \in Nat \X Nat : ss[1] < ss[2]} <=> y < x
  BY <1>1, Zenon
<1> QED
  BY <1>2 DEF OpToRel

\* Min of a non-empty set of naturals is its least element.
LEMMA LeastExists ==
  ASSUME NEW S, S \subseteq Nat, S # {}
  PROVE  Min(S) \in S /\ \A x \in S : Min(S) <= x
<1>1. PICK x \in S : \A y \in S : ~ (<<y, x>> \in OpToRel(<, Nat))
  BY NatLessThanWellFounded, WFMin
<1>2. \A y \in S : ~ (y < x)
  BY <1>1, LessThanPairs
<1>3. \A y \in S : x =< y
  BY <1>2
<1> QED
  BY <1>3 DEF Min

\* Max of a non-empty set of naturals with an upper bound is its greatest.
LEMMA GreatestExists ==
  ASSUME NEW n \in Nat, NEW S, S \subseteq 0..n, S # {}
  PROVE  Max(S) \in S /\ \A x \in S : x <= Max(S)
<1> DEFINE T == {n - x : x \in S}
<1>1. T \subseteq Nat /\ T # {}
  <2>1. \A x \in S : n - x \in Nat
    OBVIOUS
  <2>2. PICK x \in S : TRUE
    OBVIOUS
  <2>3. n - x \in T
    OBVIOUS
  <2> QED
    BY <2>1, <2>3
<1> HIDE DEF T
<1>2. Min(T) \in T /\ \A y \in T : Min(T) <= y
  BY <1>1, LeastExists
<1>3. PICK m \in S : Min(T) = n - m
  BY <1>2 DEF T
<1>4. \A x \in S : m >= x
  <2> TAKE x \in S
  <2>1. n - m <= n - x
    BY <1>2, <1>3 DEF T
  <2> QED
    BY <2>1
<1> QED
  BY <1>4 DEF Max

\* Induction up to n, for the numbers that have a property.
LEMMA InductionUpTo ==
  ASSUME NEW n \in Nat, NEW S, 0 \in S, \A m \in 0..n : m < n /\ m \in S => m + 1 \in S
  PROVE  0..n \subseteq S
<1> DEFINE Missing == {m \in 0..n : m \notin S}
<1>1. SUFFICES ASSUME Missing # {} PROVE FALSE
  OBVIOUS
<1>2. Min(Missing) \in Missing /\ \A x \in Missing : Min(Missing) <= x
  BY <1>1, LeastExists
<1>3. PICK k \in 0..n : k \notin S /\ \A x \in Missing : k <= x
  BY <1>2
<1>4. k # 0 /\ k - 1 \in 0..n /\ k - 1 < n /\ (k - 1) + 1 = k
  BY <1>3
<1>5. k - 1 \in S
  BY <1>3, <1>4
<1> QED  BY <1>3, <1>4, <1>5

\* Each value of f is made from the one before.
Iterates(f, n, start, step) == f[0] = start /\ \A m \in 1..n : f[m] = step[m][f[m - 1]]

\* There is a function whose values are made so.
LEMMA RecursionUpTo ==
  ASSUME NEW n \in Nat, NEW S, NEW start \in S, NEW step \in [1..n -> [S -> S]]
  PROVE  \E f \in [0..n -> S] : Iterates(f, n, start, step)
<1> USE DEF Iterates
<1> DEFINE Defined == {k \in 0..n : \E f \in [0..k -> S] : Iterates(f, k, start, step)}
<1>1. 0 \in Defined
  <2> DEFINE f == [m \in 0..0 |-> start]
  <2>1. f \in [0..0 -> S] /\ Iterates(f, 0, start, step)
    OBVIOUS
  <2> HIDE DEF f
  <2>2. \E g \in [0..0 -> S] : Iterates(g, 0, start, step)
    BY <2>1
  <2>3. 0 \in 0..n
    OBVIOUS
  <2> QED  BY <2>2, <2>3
<1>2. ASSUME NEW k \in 0..n, k < n, k \in Defined PROVE k + 1 \in Defined
  <2>1. PICK f \in [0..k -> S] : Iterates(f, k, start, step)
    BY <1>2
  <2> DEFINE g == [m \in 0..(k + 1) |-> IF m = k + 1 THEN step[k + 1][f[k]] ELSE f[m]]
  <2>2. k + 1 \in 1..n /\ f[k] \in S /\ step[k + 1] \in [S -> S]
    BY <1>2
  <2>3. step[k + 1][f[k]] \in S
    BY <2>2
  <2>4. g \in [0..(k + 1) -> S]
    BY <1>2, <2>3
  <2>5. g[k + 1] = step[k + 1][f[k]] /\ \A m \in 0..k : g[m] = f[m]
    BY <1>2
  <2> HIDE DEF g
  <2>6. \A m \in 1..(k + 1) : g[m] = step[m][g[m - 1]]
    <3> TAKE m \in 1..(k + 1)
    <3>1. CASE m = k + 1
      BY <2>5, <3>1
    <3>2. CASE m # k + 1
      BY <2>1, <2>5, <3>2
    <3> QED  BY <3>1, <3>2
  <2>7. Iterates(g, k + 1, start, step)
    BY <2>1, <2>5, <2>6
  <2> QED  BY <2>2, <2>4, <2>7
<1> HIDE DEF Defined
<1>3. 0..n \subseteq Defined
  BY <1>1, <1>2, InductionUpTo
<1> QED  BY <1>3 DEF Defined

=============================================================================

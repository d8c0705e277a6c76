------------------------- MODULE ContinuationProofs -------------------------
(***************************************************************************)
(* TLAPS proofs about the recovery planner and the executor that walks its *)
(* plans, for every graph of processes, every declaration and every        *)
(* history of waves: what a continuation selects is the affected subgraph, *)
(* and when it has gone through nothing is stale.  The order, the          *)
(* selection and the actions are recursive functions; what they compute is *)
(* shown by induction over the positions of the order (IntervalTheorems).  *)
(*                                                                         *)
(* The second part is about the compute graph, for every number of nodes,  *)
(* inputs and threads: an execution works with values of its own inputs    *)
(* and lacks none.  The ancestors, the layers and the values of the nodes  *)
(* are recursive functions over the parents, which come before a node.     *)
(***************************************************************************)
EXTENDS Continuation, ComputeGraph, IntervalTheorems, FiniteSetTheorems

-----------------------------------------------------------------------------
(* The topological order.                                                   *)

\* A process is ordered once, and after all it depends on.
Ordering(graph, s) ==
  /\ s \in Seq(Process)
  /\ \A i, j \in 1..Len(s) : s[i] = s[j] => i = j
  /\ \A i \in 1..Len(s) : \A d \in graph[s[i]] : \E j \in 1..(i - 1) : s[j] = d

\* So are all processes.
IsOrder(graph, s) == Ordering(graph, s) /\ \A p \in Process : \E i \in 1..Len(s) : s[i] = p

\* One more process, if one is ready.
LEMMA ExtendedOrders ==
  ASSUME NEW graph, NEW s, Ordering(graph, s)
  PROVE  Ordering(graph, Extended(graph, s))
<1> DEFINE ready == Ready(graph, Elements(s))
           p == CHOOSE p \in ready : \A q \in ready : p <= q
<1>1. CASE ready = {}
  <2>1. Extended(graph, s) = s
    BY <1>1 DEF Extended
  <2> QED  BY <2>1
<1>2. CASE ready # {}
  <2>1. ready \subseteq Nat
    BY ProcessAssumption DEF Ready
  <2>2. \E q \in ready : \A r \in ready : q <= r
    BY <1>2, <2>1, LeastExists
  <2>3. p \in ready
    BY <2>2
  <2>4. Extended(graph, s) = Append(s, p)
    BY <1>2, Zenon DEF Extended
  <2> HIDE DEF p
  <2>5. /\ p \in Process /\ graph[p] \subseteq Elements(s) /\ p \notin Elements(s)
    BY <2>3 DEF Ready
  <2> DEFINE t == Append(s, p)
  <2>6. /\ s \in Seq(Process) /\ Len(s) \in Nat /\ t \in Seq(Process) /\ Len(t) = Len(s) + 1
        /\ t[Len(s) + 1] = p /\ \A i \in 1..Len(s) : t[i] = s[i]
    BY <2>5 DEF Ordering
  <2>7. \A i \in 1..Len(s) : s[i] # p
    BY <2>5, <2>6 DEF Elements
  <2> HIDE DEF t
  <2>8. ASSUME NEW i \in 1..Len(t), NEW j \in 1..Len(t), t[i] = t[j] PROVE i = j
    <3>1. /\ i \in 1..Len(s) \/ i = Len(s) + 1
          /\ j \in 1..Len(s) \/ j = Len(s) + 1
      BY <2>6
    <3> QED  BY <2>6, <2>7, <2>8, <3>1 DEF Ordering
  <2>9. ASSUME NEW i \in 1..Len(t), NEW d \in graph[t[i]] PROVE \E j \in 1..(i - 1) : t[j] = d
    <3>1. CASE i \in 1..Len(s)
      <4>1. PICK j \in 1..(i - 1) : s[j] = d
        BY <2>6, <2>9, <3>1 DEF Ordering
      <4>2. j \in 1..Len(s)
        BY <2>6, <3>1
      <4> QED  BY <2>6, <4>1, <4>2
    <3>2. CASE i = Len(s) + 1
      <4>1. d \in Elements(s)
        BY <2>5, <2>6, <2>9, <3>2
      <4>2. PICK j \in 1..Len(s) : s[j] = d
        BY <2>6, <4>1 DEF Elements
      <4> QED  BY <2>6, <3>2, <4>2
    <3> QED  BY <2>6, <3>1, <3>2
  <2>10. Ordering(graph, t)
    BY <2>6, <2>8, <2>9 DEF Ordering
  <2> QED  BY <2>4, <2>10 DEF t
<1> QED  BY <1>1, <1>2

\* The order as it is after every round.
LEMMA TopologicalOrderOrders ==
  ASSUME NEW graph
  PROVE  Ordering(graph, TopologicalOrder(graph))
<1> DEFINE N == Cardinality(Process)
           S == {s \in Seq(Process) : Ordering(graph, s)}
           step == [n \in 1..N |-> [s \in S |-> Extended(graph, s)]]
           Equation(f) == f = [n \in 0..N |-> IF n = 0 THEN <<>> ELSE Extended(graph, f[n - 1])]
           prefix == CHOOSE f : Equation(f)
<1>1. N \in Nat
  BY ProcessAssumption, FS_CardinalityType
<1>2. TopologicalOrder(graph) = prefix[N]
  BY Zenon DEF TopologicalOrder
<1> HIDE DEF N
<1>3. <<>> \in S /\ \A s \in S : Extended(graph, s) \in S
  <2>1. Ordering(graph, <<>>)
    BY DEF Ordering
  <2>2. ASSUME NEW s, Ordering(graph, s) PROVE Ordering(graph, Extended(graph, s))
    BY <2>2, ExtendedOrders
  <2> QED  BY <2>1, <2>2 DEF Ordering
<1>4. \A s : s \in S => Ordering(graph, s)
  OBVIOUS
<1> HIDE DEF S
<1>5. step \in [1..N -> [S -> S]] /\ \A n \in 1..N, s \in S : step[n][s] = Extended(graph, s)
  BY <1>3
<1> HIDE DEF step
<1>6. PICK f \in [0..N -> S] : Iterates(f, N, <<>>, step)
  BY <1>1, <1>3, <1>5, RecursionUpTo
<1>7. f[0] = <<>> /\ \A n \in 1..N : f[n] = Extended(graph, f[n - 1])
  <2>1. ASSUME NEW n \in 1..N PROVE n - 1 \in 0..N
    BY <1>1
  <2> QED  BY <1>5, <1>6, <2>1 DEF Iterates
<1>8. Equation(f)
  <2> DEFINE g == [n \in 0..N |-> IF n = 0 THEN <<>> ELSE Extended(graph, f[n - 1])]
  <2>1. \A n \in 0..N : f[n] = g[n]
    BY <1>1, <1>7
  <2>2. DOMAIN f = 0..N /\ DOMAIN g = 0..N /\ f = [n \in 0..N |-> f[n]]
    BY <1>6
  <2>3. f = g
    BY <2>1, <2>2
  <2> QED  BY <2>3
<1>9. Equation(prefix)
  BY <1>8, Zenon
<1> HIDE DEF prefix
<1>10. prefix[0] = <<>> /\ \A n \in 1..N : prefix[n] = Extended(graph, prefix[n - 1])
  BY <1>1, <1>9
<1> DEFINE Fit == {n \in 0..N : prefix[n] \in S}
<1>11. 0 \in Fit
  BY <1>1, <1>3, <1>10
<1>12. ASSUME NEW n \in 0..N, n < N, n \in Fit PROVE n + 1 \in Fit
  <2>1. n + 1 \in 1..N /\ (n + 1) - 1 = n /\ n + 1 \in 0..N
    BY <1>1, <1>12
  <2>2. prefix[n + 1] = Extended(graph, prefix[n])
    BY <1>10, <2>1
  <2> QED  BY <1>3, <1>12, <2>1, <2>2
<1> HIDE DEF Fit
<1>13. 0..N \subseteq Fit
  BY <1>1, <1>11, <1>12, InductionUpTo
<1>14. prefix[N] \in S
  BY <1>1, <1>13 DEF Fit
<1> QED  BY <1>2, <1>4, <1>14

\* In a graph that is not refused the order gets to every process.
LEMMA ValidGraphIsOrdered ==
  ASSUME NEW graph, ValidGraph(graph)
  PROVE  IsOrder(graph, TopologicalOrder(graph))
<1> DEFINE s == TopologicalOrder(graph)
           N == Len(s)
           E == Elements(s)
<1>1. Ordering(graph, s) /\ N = Cardinality(Process)
  BY TopologicalOrderOrders DEF ValidGraph
<1> HIDE DEF s
<1>2. /\ s \in Seq(Process) /\ N \in Nat /\ DOMAIN s = 1..N
      /\ \A i, j \in 1..N : s[i] = s[j] => i = j
  BY <1>1 DEF Ordering
<1>3. E = {s[i] : i \in 1..N} /\ E \subseteq Process
  BY <1>2 DEF Elements
<1> DEFINE f == [i \in 1..N |-> s[i]]
<1>4. f \in [1..N -> E]
  BY <1>3
<1>5. f \in Injection(1..N, E)
  BY <1>2, <1>4 DEF Injection, IsInjective
<1>6. f \in Surjection(1..N, E)
  BY <1>3, <1>4 DEF Surjection
<1>7. ExistsBijection(1..N, E)
  BY <1>5, <1>6 DEF ExistsBijection, Bijection
<1> HIDE DEF E, f, N
<1>8. Cardinality(1..N) = N /\ IsFiniteSet(1..N)
  BY <1>2, FS_Interval
<1>9. Cardinality(E) = Cardinality(1..N)
  BY <1>7, <1>8, FS_Bijection
<1>10. Cardinality(Process) = Cardinality(E)
  BY <1>1, <1>8, <1>9 DEF N
<1>11. Process = E
  BY <1>3, <1>10, ProcessAssumption, FS_Subset
<1>12. \A p \in Process : \E i \in 1..N : s[i] = p
  BY <1>3, <1>11
<1> QED  BY <1>1, <1>12 DEF IsOrder, s, N

-----------------------------------------------------------------------------
(* What is affected.                                                        *)

\* A set that holds what depends on one of its members, unless the package
\* vouches for it.
ClosedFor(graph, assessment, s) ==
  \A p \in Process : graph[p] \cap s # {} /\ ~assessment[p].preserve => p \in s

\* What the pass has found after each process of the order.
Finds(graph, s, assessment, found) ==
  \A n \in 1..Len(s) : found[n] = Reached(graph, assessment, s[n], found[n - 1])

LEMMA PassFinds ==
  ASSUME NEW graph, NEW s \in Seq(Process), NEW source, NEW assessment
  PROVE  \E found : /\ Finds(graph, s, assessment, found)
                    /\ found[0] = Seeds(source, assessment)
                    /\ found[Len(s)] = Affected(graph, s, source, assessment)
<1> DEFINE L == Len(s)
           seeds == Seeds(source, assessment)
           Sets == SUBSET (Process \cup seeds)
           step == [n \in 1..L |-> [x \in Sets |-> Reached(graph, assessment, s[n], x)]]
           Equation(f) == f = [n \in 0..L |-> IF n = 0 THEN seeds
                                               ELSE Reached(graph, assessment, s[n], f[n - 1])]
           found == CHOOSE f : Equation(f)
<1>1. L \in Nat /\ \A n \in 1..L : s[n] \in Process
  OBVIOUS
<1>2. Affected(graph, s, source, assessment) = found[L]
  BY Zenon DEF Affected
<1> HIDE DEF L, seeds
<1>3. seeds \in Sets /\ \A n \in 1..L, x \in Sets : Reached(graph, assessment, s[n], x) \in Sets
  BY <1>1 DEF Reached
<1> HIDE DEF Sets
<1>4. step \in [1..L -> [Sets -> Sets]]
      /\ \A n \in 1..L, x \in Sets : step[n][x] = Reached(graph, assessment, s[n], x)
  BY <1>3
<1> HIDE DEF step
<1>5. PICK f \in [0..L -> Sets] : Iterates(f, L, seeds, step)
  BY <1>1, <1>3, <1>4, RecursionUpTo
<1>6. f[0] = seeds /\ \A n \in 1..L : f[n] = Reached(graph, assessment, s[n], f[n - 1])
  <2>1. ASSUME NEW n \in 1..L PROVE n - 1 \in 0..L
    BY <1>1
  <2> QED  BY <1>4, <1>5, <2>1 DEF Iterates
<1>7. Equation(f)
  <2> DEFINE g == [n \in 0..L |-> IF n = 0 THEN seeds ELSE Reached(graph, assessment, s[n], f[n - 1])]
  <2>1. \A n \in 0..L : f[n] = g[n]
    BY <1>1, <1>6
  <2>2. DOMAIN f = 0..L /\ DOMAIN g = 0..L /\ f = [n \in 0..L |-> f[n]]
    BY <1>5
  <2>3. f = g
    BY <2>1, <2>2
  <2> QED  BY <2>3
<1>8. Equation(found)
  BY <1>7, Zenon
<1> HIDE DEF found
<1>9. found[0] = seeds /\ \A n \in 1..L : found[n] = Reached(graph, assessment, s[n], found[n - 1])
  BY <1>1, <1>8
<1> QED  BY <1>2, <1>9 DEF L, seeds, Finds

\* Between two points the pass adds only what is ordered between them.
AddsBetween(s, found, n, m) ==
  /\ found[n] \subseteq found[m]
  /\ \A x \in found[m] : x \in found[n] \/ \E i \in (n + 1)..m : s[i] = x

LEMMA PassAdds ==
  ASSUME NEW graph, NEW assessment, NEW s \in Seq(Process), NEW found,
         Finds(graph, s, assessment, found), NEW n \in 0..Len(s)
  PROVE  \A m \in n..Len(s) : AddsBetween(s, found, n, m)
<1> DEFINE L == Len(s)
           Adds(m) == AddsBetween(s, found, n, m)
           S == {m \in 0..L : m >= n => Adds(m)}
<1>1. L \in Nat /\ n \in 0..L
  OBVIOUS
<1> HIDE DEF L
<1>2. Adds(n)
  BY DEF AddsBetween
<1>3. 0 \in S
  <2>1. 0 >= n => n = 0
    BY <1>1
  <2>2. 0 \in 0..L
    BY <1>1
  <2> HIDE DEF Adds
  <2> QED  BY <1>2, <2>1, <2>2
<1>4. ASSUME NEW m \in 0..L, m < L, m \in S PROVE m + 1 \in S
  <2>1. m + 1 \in 1..L /\ (m + 1) - 1 = m /\ m + 1 \in 0..L
    BY <1>1, <1>4
  <2>2. found[m + 1] = Reached(graph, assessment, s[m + 1], found[m])
    BY <2>1 DEF L, Finds
  <2>3. found[m] \subseteq found[m + 1] /\ \A x \in found[m + 1] : x \in found[m] \/ x = s[m + 1]
    BY <2>2 DEF Reached
  <2>4. CASE m >= n
    <3>1. Adds(m)
      BY <1>4, <2>4
    <3>2. ASSUME NEW x \in found[m + 1] PROVE x \in found[n] \/ \E i \in (n + 1)..(m + 1) : s[i] = x
      <4>1. CASE x = s[m + 1]
        BY <1>1, <2>1, <2>4, <4>1
      <4>2. CASE x \in found[m]
        <5>1. x \in found[n] \/ \E i \in (n + 1)..m : s[i] = x
          BY <3>1, <4>2 DEF AddsBetween
        <5>2. \A i \in (n + 1)..m : i \in (n + 1)..(m + 1)
          BY <1>1, <2>1
        <5> QED  BY <5>1, <5>2
      <4> QED  BY <2>3, <4>1, <4>2
    <3>3. Adds(m + 1)
      BY <2>3, <3>1, <3>2 DEF AddsBetween
    <3> HIDE DEF Adds
    <3> QED  BY <2>1, <3>3
  <2>5. CASE ~(m >= n)
    <3>1. m + 1 >= n => m + 1 = n
      BY <1>1, <2>5
    <3> HIDE DEF Adds
    <3> QED  BY <1>2, <2>1, <3>1
  <2> QED  BY <2>4, <2>5
<1> HIDE DEF S, Adds
<1>5. 0..L \subseteq S
  BY <1>1, <1>3, <1>4, InductionUpTo
<1>6. \A m \in n..L : Adds(m)
  BY <1>1, <1>5 DEF S
<1> QED  BY <1>6 DEF L, Adds

\* The single pass finds the least closed set that holds the seeds.
LEMMA AffectedIsLeast ==
  ASSUME NEW graph, NEW s, IsOrder(graph, s), NEW source, NEW assessment
  PROVE  LET seeds == Seeds(source, assessment)
             affected == Affected(graph, s, source, assessment)
         IN  /\ seeds \subseteq affected
             /\ ClosedFor(graph, assessment, affected)
             /\ \A x : seeds \subseteq x /\ ClosedFor(graph, assessment, x) => affected \subseteq x
<1> DEFINE L == Len(s)
           seeds == Seeds(source, assessment)
           affected == Affected(graph, s, source, assessment)
<1>1. s \in Seq(Process) /\ L \in Nat
  BY DEF IsOrder, Ordering
<1>2. PICK found : /\ Finds(graph, s, assessment, found)
                   /\ found[0] = seeds /\ found[L] = affected
  BY <1>1, PassFinds
<1>3. \A n \in 0..L : \A m \in n..L :
        /\ found[n] \subseteq found[m]
        /\ \A x \in found[m] : x \in found[n] \/ \E i \in (n + 1)..m : s[i] = x
  <2>1. ASSUME NEW n \in 0..L PROVE \A m \in n..L : AddsBetween(s, found, n, m)
    BY <1>1, <1>2, PassAdds
  <2> QED  BY <2>1 DEF AddsBetween
<1> HIDE DEF L, seeds, affected
<1>4. seeds \subseteq affected
  BY <1>1, <1>2, <1>3
<1>5. ASSUME NEW p \in Process, graph[p] \cap affected # {}, ~assessment[p].preserve
      PROVE  p \in affected
  <2>1. PICK d \in graph[p] : d \in affected
    BY <1>5
  <2>2. PICK i \in 1..L : s[i] = p
    BY DEF IsOrder, L
  <2>3. PICK j \in 1..(i - 1) : s[j] = d
    BY <2>1, <2>2 DEF IsOrder, Ordering, L
  <2>4. i - 1 \in 0..L /\ i \in 0..L /\ L \in (i - 1)..L /\ L \in i..L /\ j \in 1..L
    BY <1>1, <2>2, <2>3
  <2>5. d \in found[i - 1]
    <3>1. ASSUME NEW k \in ((i - 1) + 1)..L, s[k] = d PROVE FALSE
      <4>1. k \in 1..L /\ k # j
        BY <1>1, <2>2, <2>3, <3>1
      <4> QED  BY <2>3, <2>4, <3>1, <4>1 DEF IsOrder, Ordering, L
    <3> QED  BY <1>2, <1>3, <2>1, <2>4, <3>1
  <2>6. p \in found[i]
    <3>1. found[i] = Reached(graph, assessment, s[i], found[i - 1])
      BY <1>2, <2>2 DEF Finds, L
    <3> QED  BY <1>5, <2>1, <2>2, <2>5, <3>1 DEF Reached
  <2> QED  BY <1>2, <1>3, <2>4, <2>6
<1>6. ASSUME NEW x, seeds \subseteq x, ClosedFor(graph, assessment, x) PROVE affected \subseteq x
  <2> DEFINE S == {n \in 0..L : found[n] \subseteq x}
  <2>1. 0 \in S
    BY <1>1, <1>2, <1>6
  <2>2. ASSUME NEW n \in 0..L, n < L, n \in S PROVE n + 1 \in S
    <3>1. n + 1 \in 1..L /\ (n + 1) - 1 = n /\ n + 1 \in 0..L
      BY <1>1, <2>2
    <3>2. found[n + 1] = Reached(graph, assessment, s[n + 1], found[n]) /\ s[n + 1] \in Process
      BY <1>1, <1>2, <3>1 DEF L, Finds
    <3>3. found[n + 1] \subseteq x
      BY <1>6, <2>2, <3>2 DEF Reached, ClosedFor
    <3> QED  BY <3>1, <3>3
  <2> HIDE DEF S
  <2>3. 0..L \subseteq S
    BY <1>1, <2>1, <2>2, InductionUpTo
  <2> QED  BY <1>1, <1>2, <2>3 DEF S
<1>7. ClosedFor(graph, assessment, affected)
  BY <1>5 DEF ClosedFor
<1> QED  BY <1>4, <1>6, <1>7 DEF seeds, affected

-----------------------------------------------------------------------------
(* What the steps do.                                                       *)

\* The action of p, if those of its dependencies are as given.
ActionOf(graph, specs, source, decision, action, p) ==
  IF \/ ~Eligible(specs[p], source[p], decision[p])
     \/ \E d \in graph[p] : action[d] = "block"
     \/ /\ decision[p].action = "skip" /\ ~decision[p].preserve
        /\ \E d \in graph[p] : action[d] \in Reexecuting
  THEN "block" ELSE decision[p].action

\* Every action follows from those of the dependencies.
FitTogether(graph, specs, source, decision, action) ==
  action = [p \in Process |-> ActionOf(graph, specs, source, decision, action, p)]

\* In a graph that can be ordered there are such actions: they are found one
\* by one along the order, and none changes what those before it rest on.
LEMMA StepActionsFit ==
  ASSUME NEW graph, NEW s, IsOrder(graph, s), NEW specs, NEW source, NEW decision
  PROVE  FitTogether(graph, specs, source, decision, StepActions(graph, specs, source, decision))
<1> DEFINE L == Len(s)
           Of(x, p) == ActionOf(graph, specs, source, decision, x, p)
           Fit(x) == FitTogether(graph, specs, source, decision, x)
           Values == {"block"} \cup {decision[p].action : p \in Process}
           Maps == [Process -> Values]
           Next1(n, x) == [x EXCEPT ![s[n]] = Of(x, s[n])]
           step == [n \in 1..L |-> [x \in Maps |-> Next1(n, x)]]
           start == [p \in Process |-> "block"]
<1>1. /\ s \in Seq(Process) /\ L \in Nat
      /\ \A n \in 1..L : s[n] \in Process
      /\ \A i, j \in 1..L : s[i] = s[j] => i = j
      /\ \A i \in 1..L : \A d \in graph[s[i]] : \E j \in 1..(i - 1) : s[j] = d
      /\ \A p \in Process : \E i \in 1..L : s[i] = p
  BY DEF IsOrder, Ordering
<1>2. \A x : \A p \in Process : Of(x, p) \in Values
  BY DEF ActionOf
<1>3. ASSUME NEW x, NEW y, NEW p, \A d \in graph[p] : x[d] = y[d] PROVE Of(x, p) = Of(y, p)
  BY <1>3 DEF ActionOf
<1>4. StepActions(graph, specs, source, decision) = CHOOSE x : Fit(x)
  BY Zenon DEF StepActions, FitTogether, ActionOf
<1>5. \A x : Fit(x) <=> x = [p \in Process |-> Of(x, p)]
  BY DEF FitTogether
<1> HIDE DEF L, Of, Fit, Values
<1>6. start \in Maps /\ \A n \in 1..L, x \in Maps : Next1(n, x) \in Maps
  <2>1. "block" \in Values
    BY DEF Values
  <2> QED  BY <1>1, <1>2, <2>1
<1>7. ASSUME NEW n \in 1..L, NEW x \in Maps
      PROVE  /\ Next1(n, x)[s[n]] = Of(x, s[n])
             /\ \A p \in Process : p # s[n] => Next1(n, x)[p] = x[p]
  BY <1>1
<1> HIDE DEF Maps, Next1, start
<1>8. step \in [1..L -> [Maps -> Maps]] /\ \A n \in 1..L, x \in Maps : step[n][x] = Next1(n, x)
  BY <1>6
<1> HIDE DEF step
<1>9. PICK f \in [0..L -> Maps] : Iterates(f, L, start, step)
  BY <1>1, <1>6, <1>8, RecursionUpTo
<1>10. ASSUME NEW n \in 1..L
       PROVE  /\ n - 1 \in 0..L /\ f[n - 1] \in Maps /\ f[n] \in Maps
              /\ f[n][s[n]] = Of(f[n - 1], s[n])
              /\ \A p \in Process : p # s[n] => f[n][p] = f[n - 1][p]
  <2>1. n - 1 \in 0..L /\ n \in 0..L
    BY <1>1
  <2>2. f[n] = Next1(n, f[n - 1])
    BY <1>8, <1>9, <2>1 DEF Iterates
  <2>3. f[n - 1] \in Maps /\ f[n] \in Maps
    BY <1>9, <2>1
  <2> QED  BY <1>7, <2>1, <2>2, <2>3
<1>11. ASSUME NEW j \in 1..L PROVE \A m \in j..L : f[m][s[j]] = f[j][s[j]]
  <2> DEFINE S == {m \in 0..L : m >= j => f[m][s[j]] = f[j][s[j]]}
  <2>1. 0 \in S
    BY <1>1
  <2>2. ASSUME NEW m \in 0..L, m < L, m \in S PROVE m + 1 \in S
    <3>1. m + 1 \in 1..L /\ (m + 1) - 1 = m /\ m + 1 \in 0..L
      BY <1>1, <2>2
    <3>2. CASE m >= j
      <4>1. s[m + 1] # s[j] /\ s[j] \in Process
        BY <1>1, <3>1, <3>2
      <4>2. f[m + 1][s[j]] = f[m][s[j]]
        BY <1>10, <3>1, <4>1
      <4> QED  BY <2>2, <3>1, <3>2, <4>2
    <3>3. CASE ~(m >= j)
      <4>1. m + 1 >= j => m + 1 = j
        BY <1>1, <3>3
      <4> QED  BY <3>1, <4>1
    <3> QED  BY <3>2, <3>3
  <2>3. \A m \in j..L : m \in 0..L /\ m >= j
    BY <1>1
  <2>4. \A m \in S : m >= j => f[m][s[j]] = f[j][s[j]]
    OBVIOUS
  <2> HIDE DEF S
  <2>5. 0..L \subseteq S
    BY <1>1, <2>1, <2>2, InductionUpTo
  <2> QED  BY <2>3, <2>4, <2>5
<1> DEFINE g == f[L]
<1>12. \A p \in Process : g[p] = Of(g, p)
  <2> TAKE p \in Process
  <2>1. PICK i \in 1..L : s[i] = p
    BY <1>1
  <2>2. g[p] = f[i][p] /\ f[i][p] = Of(f[i - 1], p)
    <3>1. L \in i..L
      BY <1>1
    <3> QED  BY <1>10, <1>11, <2>1, <3>1
  <2>3. ASSUME NEW d \in graph[p] PROVE f[i - 1][d] = g[d]
    <3>1. PICK j \in 1..(i - 1) : s[j] = d
      BY <1>1, <2>1, <2>3
    <3>2. j \in 1..L /\ i - 1 \in j..L /\ L \in j..L
      BY <1>1, <3>1
    <3> QED  BY <1>11, <3>1, <3>2
  <2>4. Of(f[i - 1], p) = Of(g, p)
    BY <1>3, <2>3
  <2> QED  BY <2>2, <2>4
<1>13. g = [p \in Process |-> Of(g, p)]
  <2>1. g \in Maps
    BY <1>1, <1>9
  <2>2. g = [p \in Process |-> g[p]]
    BY <2>1 DEF Maps
  <2> QED  BY <1>12, <2>2
<1> HIDE DEF g
<1>14. Fit(g)
  BY <1>5, <1>13
<1>15. Fit(CHOOSE x : Fit(x))
  BY <1>14, Zenon
<1> QED  BY <1>4, <1>15 DEF Fit

-----------------------------------------------------------------------------
(* The inductive invariant.                                                 *)

Waves ==
  [at: {"none", "running", "refused", "completed", "failed", "dead"},
   kind: {"initial", "continue"}, action: [Process -> Actions], todo: Seq(Process),
   now: {None, "current", "outdated", "incompatible"},
   seeds: SUBSET Process, affected: SUBSET Process]

ContinuationType ==
  /\ class \in [Process -> {None, "active", "success", "failure"}]
  /\ attempts \in [Process -> Nat]
  /\ active \in SUBSET Process
  /\ checkpoint \in [Process -> {None, "current", "outdated", "incompatible"}]
  /\ output \in [Process -> {"none", "fresh", "stale", "mixed"}]
  /\ wave \in Waves

\* How far a continuation has come: what it has to do is the rest of the order.
Position == Len(order) + 1 - Len(wave.todo)

RestOfOrder ==
  /\ Len(wave.todo) <= Len(order)
  /\ \A i \in 1..Len(wave.todo) : wave.todo[i] = order[Position - 1 + i]

\* What is behind it is done and will not become stale again.
IsDone(p) == class[p] = "success" /\ output[p] \in {"fresh", "mixed"}

DoneBehind == \A i \in 1..Len(order) : i < Position => IsDone(order[i])

\* What it is going to skip is done and made from present outputs.
FreshAhead ==
  \A i \in 1..Len(order) :
    i >= Position /\ wave.action[order[i]] = "skip"
      => class[order[i]] = "success" /\ output[order[i]] = "fresh"

\* And nothing that is executed comes before it, unless it is vouched for.
SkipsRestOnSkips ==
  \A p \in Process :
    wave.action[p] = "skip" /\ ~spec[p].vouched => \A d \in depends[p] : wave.action[d] = "skip"

\* An attempt is one of the process at the head, and that is not skipped.
AttemptAtHead ==
  active # {} \/ wave.now # None =>
    wave.todo # <<>> /\ active \subseteq {Head(wave.todo)} /\ wave.action[Head(wave.todo)] # "skip"

Continuing ==
  RestOfOrder /\ DoneBehind /\ FreshAhead /\ SkipsRestOnSkips /\ AttemptAtHead

StepsInv ==
  /\ Running /\ wave.kind = "continue" => Continuing
  /\ wave.at = "completed" /\ wave.kind = "continue" =>
       active = {} /\ \A p \in Process : IsDone(p)

ContinuationInv ==
  IsOrder(depends, order) /\ ContinuationType /\ AffectedSubgraphOnly /\ StepsInv

-----------------------------------------------------------------------------
(* Making a plan.                                                           *)

\* The package's wishes are of one of two kinds, and it does not ask for
\* skipping what is invalid.
Reasonable(w) ==
  /\ w.preferred \in {None, "restart", "skip"}
  /\ w.preferred = "skip" => \A p \in w.of : output[p] = "fresh"

\* What a continuation decides is an action, and a skip only for what is fresh.
LEMMA DecisionsAreActions ==
  ASSUME NEW w, NEW cleaned, Reasonable(w), NEW affected,
         Seeds(Source, Assessment(w, cleaned)) \subseteq affected,
         NEW p \in Process
  PROVE  LET d == Decisions(affected, spec, Source, Assessment(w, cleaned))[p].action
         IN  d \in Actions \ {"block"} /\ (d = "skip" => output[p] = "fresh")
<1> DEFINE a == Assessment(w, cleaned)
           preferred == Preferred(spec[p], Source[p], a[p])
<1>1. /\ a[p].preferred = IF p \in w.of THEN w.preferred ELSE None
      /\ a[p].valid <=> output[p] = "fresh"
  BY DEF Assessment
<1>2. p \notin affected => output[p] = "fresh"
  <2>1. p \notin affected => a[p].valid
    BY Zenon DEF Seeds
  <2> QED  BY <1>1, <2>1
<1> HIDE DEF a
<1>3. preferred \in {a[p].preferred, "resume", "retry", "restart"}
      /\ (a[p].preferred # None => preferred = a[p].preferred)
      /\ preferred # None
  <2>1. None \notin {"resume", "retry", "restart"}
    BY DEF None
  <2> QED  BY <2>1 DEF Preferred
<1>4. preferred \in Actions \ {"block"} /\ (preferred = "skip" => output[p] = "fresh")
  BY <1>1, <1>3 DEF Actions, None, Reasonable
<1> HIDE DEF preferred
<1>5. Decisions(affected, spec, Source, a)[p].action = IF p \in affected THEN preferred ELSE "skip"
  BY DEF Decisions, preferred
<1>6. Decisions(affected, spec, Source, a)[p].action \in Actions \ {"block"}
      /\ (Decisions(affected, spec, Source, a)[p].action = "skip" => output[p] = "fresh")
  BY <1>2, <1>4, <1>5 DEF Actions
<1> QED  BY <1>6 DEF a

\* In a plan without a blocked step every decision stands, and rests on skips.
LEMMA NothingBlocked ==
  ASSUME NEW graph, NEW specs, NEW source, NEW decision, NEW action,
         FitTogether(graph, specs, source, decision, action),
         \A p \in Process : graph[p] \subseteq Process,
         \A p \in Process : decision[p].action \in Actions,
         \A p \in Process : action[p] # "block"
  PROVE  \A p \in Process :
           /\ action[p] = decision[p].action
           /\ action[p] = "skip" => source[p].class = "success"
           /\ action[p] = "skip" /\ ~decision[p].preserve => \A d \in graph[p] : action[d] = "skip"
<1>1. ASSUME NEW p \in Process
      PROVE  action[p] = ActionOf(graph, specs, source, decision, action, p)
  BY Zenon DEF FitTogether
<1>2. \A p \in Process : action[p] = decision[p].action /\ action[p] \in Actions
  BY <1>1 DEF ActionOf
<1> TAKE p \in Process
<1>3. Eligible(specs[p], source[p], decision[p])
  BY <1>1 DEF ActionOf
<1>4. action[p] = "skip" => source[p].class = "success"
  BY <1>2, <1>3 DEF Eligible
<1>5. ASSUME action[p] = "skip", ~decision[p].preserve, NEW d \in graph[p] PROVE action[d] = "skip"
  <2>1. action[d] \notin Reexecuting
    BY <1>1, <1>2, <1>5 DEF ActionOf
  <2> QED  BY <1>2, <2>1 DEF Actions, Reexecuting
<1> QED  BY <1>2, <1>4, <1>5

\* What an order says of a graph.
LEMMA OrderFacts ==
  ASSUME NEW graph, NEW s, IsOrder(graph, s)
  PROVE  /\ s \in Seq(Process) /\ Len(s) \in Nat
         /\ \A i \in 1..Len(s) : s[i] \in Process
         /\ \A p \in Process : graph[p] \subseteq Process
         /\ \A i, j \in 1..Len(s) : s[i] = s[j] => i = j
         /\ \A i, j \in 1..Len(s) : s[j] \in graph[s[i]] => j < i
         /\ \A p \in Process : \E i \in 1..Len(s) : s[i] = p
<1> DEFINE L == Len(s)
<1>1. /\ s \in Seq(Process) /\ L \in Nat
      /\ \A i \in 1..L : s[i] \in Process
      /\ \A i, j \in 1..L : s[i] = s[j] => i = j
      /\ \A p \in Process : \E i \in 1..L : s[i] = p
      /\ \A i \in 1..L : \A d \in graph[s[i]] : \E j \in 1..(i - 1) : s[j] = d
  <2>1. s \in Seq(Process) /\ L \in Nat /\ \A i \in 1..L : s[i] \in Process
    BY DEF IsOrder, Ordering
  <2>2. /\ \A i, j \in 1..L : s[i] = s[j] => i = j
        /\ \A p \in Process : \E i \in 1..L : s[i] = p
        /\ \A i \in 1..L : \A d \in graph[s[i]] : \E j \in 1..(i - 1) : s[j] = d
    BY Zenon DEF IsOrder, Ordering
  <2> QED  BY <2>1, <2>2
<1> HIDE DEF L
<1>2. ASSUME NEW p \in Process, NEW d \in graph[p] PROVE d \in Process
  <2>1. PICK i \in 1..L : s[i] = p
    BY <1>1
  <2>2. PICK j \in 1..(i - 1) : s[j] = d
    BY <1>1, <1>2, <2>1
  <2>3. j \in 1..L
    BY <1>1, <2>1
  <2> QED  BY <1>1, <2>2, <2>3
<1>3. ASSUME NEW i \in 1..L, NEW j \in 1..L, s[j] \in graph[s[i]] PROVE j < i
  <2>1. PICK k \in 1..(i - 1) : s[k] = s[j]
    BY <1>1, <1>3
  <2>2. k \in 1..L
    BY <1>1, <2>1
  <2> QED  BY <1>1, <2>1, <2>2
<1> QED  BY <1>1, <1>2, <1>3 DEF L

\* A continuation starts with a plan that holds.
LEMMA ContinueStarts ==
  ASSUME ContinuationInv, NEW w, NEW cleaned, Reasonable(w), Continue(w, cleaned)
  PROVE  ContinuationInv'
<1> DEFINE a == Assessment(w, cleaned)
           seeds == Seeds(Source, a)
           affected == Affected(depends, order, Source, a)
           decision == Decisions(affected, spec, Source, a)
           action == StepActions(depends, spec, Source, decision)
           blocked == \E p \in Process : action[p] = "block"
           at == IF blocked THEN "refused" ELSE "running"
           todo == IF blocked THEN <<>> ELSE order
<1>1. /\ IsOrder(depends, order) /\ ContinuationType /\ active = {}
      /\ UNCHANGED <<depends, order, spec, class, attempts, active, checkpoint, output>>
      /\ WellFormed(affected, spec, Source, a)
      /\ wave' = Wave(at, "continue", action, todo, seeds, affected)
  BY DEF ContinuationInv, Continue, declared
<1>2. /\ seeds \subseteq affected
      /\ ClosedFor(depends, a, affected)
      /\ \A x : seeds \subseteq x /\ ClosedFor(depends, a, x) => affected \subseteq x
  BY <1>1, AffectedIsLeast
<1>3. \A p \in Process : decision[p].action \in Actions \ {"block"}
                        /\ (decision[p].action = "skip" => output[p] = "fresh")
                        /\ (decision[p].preserve <=> spec[p].vouched)
  <2>1. \A p \in Process : decision[p].preserve = a[p].preserve /\ a[p].preserve = spec[p].vouched
    BY DEF Decisions, Assessment
  <2> QED  BY <1>2, <2>1, DecisionsAreActions
<1>4. FitTogether(depends, spec, Source, decision, action)
  BY <1>1, StepActionsFit
<1>5. \A p \in Process : a[p].preserve = spec[p].vouched /\ Source[p].class = class[p]
  BY DEF Assessment, Source
<1>6. seeds \subseteq Process
  BY <1>1 DEF WellFormed, Seeds
<1> HIDE DEF seeds, affected, a, decision, action
<1>7. \A x : ClosedFor(depends, a, x) <=> Closed(x)
  BY <1>5 DEF ClosedFor, Closed
<1>8. affected \subseteq Process
  <2>1. Closed(Process)
    BY DEF Closed
  <2> QED  BY <1>2, <1>6, <1>7, <2>1
<1>9. action \in [Process -> Actions]
  <2>1. \A p \in Process : ActionOf(depends, spec, Source, decision, action, p) \in Actions
    BY <1>3 DEF ActionOf, Actions
  <2>2. action = [p \in Process |-> ActionOf(depends, spec, Source, decision, action, p)]
    BY <1>4 DEF FitTogether
  <2> HIDE DEF action
  <2> QED  BY <2>1, <2>2
<1>10. /\ order \in Seq(Process) /\ Len(order) \in Nat /\ \A i \in 1..Len(order) : order[i] \in Process
       /\ \A p \in Process : depends[p] \subseteq Process
  BY <1>1, OrderFacts
<1>11. /\ wave'.at = at /\ wave'.kind = "continue" /\ wave'.action = action /\ wave'.todo = todo
       /\ wave'.now = None /\ wave'.seeds = seeds /\ wave'.affected = affected
       /\ wave' \in Waves
  <2>1. at \in {"refused", "running"} /\ todo \in Seq(Process)
    BY <1>10
  <2> HIDE DEF at, todo
  <2>2. wave' = [at |-> at, kind |-> "continue", action |-> action, todo |-> todo, now |-> None,
                 seeds |-> seeds, affected |-> affected]
    BY <1>1 DEF Wave
  <2> QED  BY <1>6, <1>8, <1>9, <2>1, <2>2 DEF Waves
<1>12. ContinuationType'
  BY <1>1, <1>11 DEF ContinuationType
<1>13. AffectedSubgraphOnly'
  <2>1. \A x : Closed(x)' <=> Closed(x)
    BY <1>1 DEF Closed
  <2>2. seeds \subseteq affected /\ Closed(affected)
    BY <1>2, <1>7
  <2>3. \A x \in SUBSET affected : seeds \subseteq x /\ Closed(x) => x = affected
    BY <1>2, <1>7
  <2> QED  BY <1>11, <2>1, <2>2, <2>3 DEF AffectedSubgraphOnly
<1>14. StepsInv'
  <2>1. CASE blocked
    <3>1. wave'.at = "refused"
      BY <1>11, <2>1
    <3> QED  BY <3>1 DEF StepsInv, Running
  <2>2. CASE ~blocked
    <3>1. wave'.at = "running" /\ wave'.todo = order
      BY <1>11, <2>2
    <3>2. \A p \in Process : action[p] # "block"
      BY <2>2
    <3>3. \A p \in Process :
             /\ action[p] = decision[p].action
             /\ action[p] = "skip" => class[p] = "success"
             /\ action[p] = "skip" /\ ~decision[p].preserve
                  => \A d \in depends[p] : action[d] = "skip"
      BY <1>3, <1>4, <1>5, <1>10, <3>2, NothingBlocked
    <3>4. Position' = 1 /\ RestOfOrder'
      <4>1. order' = order /\ Len(wave'.todo) = Len(order) /\ Len(order) + 1 - Len(order) = 1
        BY <1>1, <1>10, <3>1
      <4>2. Position' = 1
        BY <4>1 DEF Position
      <4>3. \A i \in 1..Len(order) : wave'.todo[i] = order[1 - 1 + i]
        BY <3>1
      <4> QED  BY <1>10, <4>1, <4>2, <4>3 DEF RestOfOrder
    <3>5. DoneBehind'
      BY <1>1, <1>10, <3>4 DEF DoneBehind
    <3>6. FreshAhead'
      BY <1>1, <1>3, <1>10, <1>11, <3>3 DEF FreshAhead
    <3>7. SkipsRestOnSkips'
      BY <1>1, <1>3, <1>11, <3>3 DEF SkipsRestOnSkips
    <3>8. AttemptAtHead'
      BY <1>1, <1>11 DEF AttemptAtHead
    <3> QED  BY <3>1, <3>4, <3>5, <3>6, <3>7, <3>8 DEF StepsInv, Continuing
  <2> QED  BY <2>1, <2>2
<1> QED  BY <1>1, <1>12, <1>13, <1>14 DEF ContinuationInv

-----------------------------------------------------------------------------
(* Walking the steps.                                                       *)

\* Nothing is planned for a wave that is not a continuation, or has ended.
LEMMA UnplannedWaves ==
  ASSUME NEW at \in {"none", "running", "refused", "completed", "failed", "dead"},
         NEW kind \in {"initial", "continue"}, NEW todo \in Seq(Process),
         wave' = Unplanned(at, kind, todo)
  PROVE  /\ wave' \in Waves /\ wave'.at = at /\ wave'.kind = kind /\ wave'.now = None
         /\ AffectedSubgraphOnly'
<1> DEFINE plan == [p \in Process |-> "restart"]
<1>1. plan \in [Process -> Actions]
  BY DEF Actions
<1> HIDE DEF plan
<1>2. wave' = [at |-> at, kind |-> kind, action |-> plan, todo |-> todo, now |-> None,
               seeds |-> {}, affected |-> {}]
  BY DEF Unplanned, Wave, NoPlan, plan
<1>3. wave'.seeds = {} /\ wave'.affected = {}
  BY <1>2
<1>4. AffectedSubgraphOnly'
  <2>1. \A p \in Process : (depends[p] \cap {})' = {}
    OBVIOUS
  <2>2. Closed({})'
    BY Zenon DEF Closed
  <2>3. \A s \in SUBSET {} : s = {}
    OBVIOUS
  <2> QED  BY <1>3, <2>2, <2>3 DEF AffectedSubgraphOnly
<1> QED  BY <1>1, <1>2, <1>4 DEF Waves

\* The order is the order of the graph the runtime was created with.
LEMMA OrderStands ==
  ASSUME IsOrder(depends, order), UNCHANGED <<depends, order>>
  PROVE  IsOrder(depends, order)'
BY DEF IsOrder, Ordering

\* A selection is judged by the graph and the declarations alone.
LEMMA SelectionStands ==
  ASSUME AffectedSubgraphOnly, wave'.seeds = wave.seeds, wave'.affected = wave.affected,
         UNCHANGED <<depends, spec>>
  PROVE  AffectedSubgraphOnly'
<1>1. \A x : Closed(x)' <=> Closed(x)
  BY DEF Closed
<1> QED  BY <1>1 DEF AffectedSubgraphOnly

\* The head of what is to do is the process at the position.
LEMMA HeadAtPosition ==
  ASSUME ContinuationInv, Running, wave.kind = "continue", NEW p \in Process, At(p)
  PROVE  /\ Position \in 1..Len(order) /\ order[Position] = p
         /\ \A i \in 1..Len(order) : i # Position => order[i] # p
         /\ \A i \in 1..Len(order) : i < Position => p \notin depends[order[i]]
<1>1. /\ IsOrder(depends, order) /\ RestOfOrder /\ wave.todo \in Seq(Process)
  BY DEF ContinuationInv, StepsInv, Continuing, ContinuationType, Waves
<1>2. /\ Len(order) \in Nat
      /\ \A i, j \in 1..Len(order) : order[i] = order[j] => i = j
      /\ \A i, j \in 1..Len(order) : order[j] \in depends[order[i]] => j < i
  BY <1>1, OrderFacts
<1>3. wave.todo # <<>> /\ wave.todo[1] = p /\ Len(wave.todo) \in Nat \ {0}
  BY <1>1 DEF At
<1>4. Position \in 1..Len(order) /\ order[Position] = p
  <2>1. wave.todo[1] = order[Position - 1 + 1]
    BY <1>3, <1>1 DEF RestOfOrder
  <2> QED  BY <1>1, <1>2, <1>3, <2>1 DEF Position, RestOfOrder
<1> QED  BY <1>2, <1>4

\* One more process is done, those before it still are, and what is to be
\* skipped is still fresh.
LEMMA AdvanceKeeps ==
  ASSUME ContinuationInv, NEW p \in Process, At(p), wave' = Advanced,
         UNCHANGED <<depends, order, spec, attempts>>,
         class' \in [Process -> {None, "active", "success", "failure"}],
         active' \in SUBSET Process,
         checkpoint' \in [Process -> {None, "current", "outdated", "incompatible"}],
         output' \in [Process -> {"none", "fresh", "stale", "mixed"}],
         wave.kind = "continue" =>
           /\ active' = {} /\ IsDone(p)'
           /\ \A i \in 1..Len(order) : i < Position => IsDone(order[i])'
           /\ \A i \in 1..Len(order) :
                i > Position /\ wave.action[order[i]] = "skip"
                  => class'[order[i]] = "success" /\ output'[order[i]] = "fresh"
  PROVE  ContinuationInv'
<1>1. /\ IsOrder(depends, order) /\ wave \in Waves /\ Running /\ wave.todo # <<>>
      /\ wave.todo \in Seq(Process) /\ attempts \in [Process -> Nat]
      /\ AffectedSubgraphOnly /\ (wave.kind = "continue" => Continuing)
  BY DEF ContinuationInv, At, ContinuationType, StepsInv, Waves
<1>2. IsOrder(depends, order)'
  BY <1>1, OrderStands
<1>3. Len(wave.todo) \in Nat \ {0}
  BY <1>1
<1>4. /\ order \in Seq(Process) /\ Len(order) \in Nat
      /\ \A q \in Process : \E i \in 1..Len(order) : order[i] = q
  <2>1. order \in Seq(Process) /\ Len(order) \in Nat
    BY <1>1, OrderFacts
  <2>2. \A q \in Process : \E i \in 1..Len(order) : order[i] = q
    BY <1>1, Zenon DEF IsOrder
  <2> QED  BY <2>1, <2>2
<1>5. wave.kind = "continue" => Position \in 1..Len(order) /\ order[Position] = p
  BY <1>1, HeadAtPosition
<1>6. CASE Len(wave.todo) = 1
  <2>1. wave' = Unplanned("completed", wave.kind, <<>>)
    BY <1>6 DEF Advanced
  <2>2. wave.kind \in {"initial", "continue"} /\ <<>> \in Seq(Process)
    BY <1>1 DEF Waves
  <2>3. /\ wave' \in Waves /\ wave'.at = "completed" /\ wave'.kind = wave.kind
        /\ AffectedSubgraphOnly'
    BY <2>1, <2>2, UnplannedWaves
  <2>4. ASSUME wave.kind = "continue" PROVE active' = {} /\ \A q \in Process : IsDone(q)'
    <3>1. Position = Len(order)
      BY <1>4, <1>6 DEF Position
    <3>2. ASSUME NEW q \in Process PROVE IsDone(q)'
      <4>1. PICK i \in 1..Len(order) : order[i] = q
        BY <1>4
      <4>2. i < Position \/ q = p
        BY <1>4, <1>5, <2>4, <3>1, <4>1
      <4> QED  BY <2>4, <4>1, <4>2 DEF IsDone
    <3> QED  BY <2>4, <3>2
  <2>5. ContinuationType'
    BY <1>1, <2>3 DEF ContinuationType
  <2>6. StepsInv'
    BY <2>3, <2>4 DEF StepsInv, Running
  <2> QED  BY <1>2, <2>3, <2>5, <2>6 DEF ContinuationInv
<1>7. CASE Len(wave.todo) # 1
  <2> DEFINE tail == Tail(wave.todo)
  <2>1. /\ tail \in Seq(Process) /\ Len(tail) = Len(wave.todo) - 1
        /\ \A i \in 1..Len(tail) : tail[i] = wave.todo[i + 1]
    BY <1>1, <1>3
  <2>2. wave' = [wave EXCEPT !.todo = tail, !.now = None]
    BY <1>7 DEF Advanced
  <2> HIDE DEF tail
  <2>3. /\ wave' \in Waves /\ wave'.at = wave.at /\ wave'.kind = wave.kind
        /\ wave'.action = wave.action /\ wave'.todo = tail /\ wave'.now = None
        /\ wave'.seeds = wave.seeds /\ wave'.affected = wave.affected
    <3> DEFINE w == [at |-> wave.at, kind |-> wave.kind, action |-> wave.action, todo |-> tail,
                     now |-> None, seeds |-> wave.seeds, affected |-> wave.affected]
    <3>1. wave = [at |-> wave.at, kind |-> wave.kind, action |-> wave.action, todo |-> wave.todo,
                  now |-> wave.now, seeds |-> wave.seeds, affected |-> wave.affected]
      BY <1>1 DEF Waves
    <3>2. wave' = w
      BY <2>2, <3>1
    <3> QED  BY <1>1, <2>1, <3>2 DEF Waves
  <2>4. AffectedSubgraphOnly'
    BY <1>1, <2>3, SelectionStands
  <2>5. ContinuationType'
    BY <1>1, <2>3 DEF ContinuationType
  <2>6. ASSUME wave.kind = "continue" PROVE Continuing'
    <3>1. Continuing /\ Position \in 1..Len(order) /\ order[Position] = p
      BY <1>1, <1>5, <2>6
    <3>2. Position' = Position + 1
      <4>1. order' = order /\ wave'.todo = tail /\ Len(tail) = Len(wave.todo) - 1
        BY <2>1, <2>3
      <4>2. Position' = Len(order) + 1 - (Len(wave.todo) - 1)
        BY <4>1 DEF Position
      <4>3. Len(order) + 1 - (Len(wave.todo) - 1) = Len(order) + 1 - Len(wave.todo) + 1
        BY <1>3, <1>4
      <4> QED  BY <4>2, <4>3 DEF Position
    <3>3. RestOfOrder'
      <4>1. Len(tail) <= Len(order)
        <5>1. Len(wave.todo) <= Len(order) /\ Len(tail) = Len(wave.todo) - 1
          BY <2>1, <3>1 DEF Continuing, RestOfOrder
        <5> HIDE DEF Position
        <5> QED  BY <1>3, <1>4, <5>1
      <4>2. ASSUME NEW i \in 1..Len(tail) PROVE tail[i] = order[Position + i]
        <5>1. i + 1 \in 1..Len(wave.todo)
          BY <1>3, <2>1
        <5>2. wave.todo[i + 1] = order[Position - 1 + (i + 1)]
          BY <3>1, <5>1 DEF Continuing, RestOfOrder
        <5>3. Position - 1 + (i + 1) = Position + i
          BY <3>1, <4>2, <2>1, <1>3
        <5> QED  BY <2>1, <5>2, <5>3
      <4>3. \A i \in 1..Len(tail) : Position' - 1 + i = Position + i
        BY <3>1, <3>2, <2>1, <1>3
      <4> QED  BY <2>3, <4>1, <4>2, <4>3 DEF RestOfOrder
    <3>4. DoneBehind'
      <4>1. ASSUME NEW i \in 1..Len(order), i < Position + 1 PROVE IsDone(order[i])'
        <5>1. i < Position \/ i = Position
          BY <1>4, <3>1, <4>1
        <5>2. CASE i < Position
          BY <2>6, <5>2
        <5>3. CASE i = Position
          BY <2>6, <3>1, <5>3 DEF IsDone
        <5> QED  BY <5>1, <5>2, <5>3
      <4> QED  BY <3>2, <4>1 DEF DoneBehind
    <3>5. FreshAhead'
      <4>1. \A i \in 1..Len(order) : i >= Position + 1 => i > Position
        BY <1>4, <3>1
      <4> QED  BY <2>3, <2>6, <3>2, <4>1 DEF FreshAhead
    <3>6. SkipsRestOnSkips'
      BY <2>3, <3>1 DEF Continuing, SkipsRestOnSkips
    <3>7. AttemptAtHead'
      BY <2>3, <2>6 DEF AttemptAtHead
    <3> QED  BY <3>3, <3>4, <3>5, <3>6, <3>7 DEF Continuing
  <2>7. StepsInv'
    BY <1>1, <2>3, <2>6 DEF StepsInv, Running
  <2> QED  BY <1>2, <2>4, <2>5, <2>7 DEF ContinuationInv
<1> QED  BY <1>6, <1>7

\* _emit_skip.
LEMMA SkipKeeps ==
  ASSUME ContinuationInv, NEW p \in Process, Skip(p)
  PROVE  ContinuationInv'
<1>1. /\ At(p) /\ wave.action[p] = "skip" /\ wave' = Advanced
      /\ class' = [class EXCEPT ![p] = "success"]
      /\ UNCHANGED <<depends, order, spec, attempts, active, checkpoint, output>>
  BY DEF Skip, declared
<1>2. /\ ContinuationType /\ Running /\ wave.todo # <<>> /\ Head(wave.todo) = p
      /\ (wave.kind = "continue" => Continuing)
  BY <1>1 DEF ContinuationInv, At, StepsInv
<1>3. /\ class' \in [Process -> {None, "active", "success", "failure"}]
      /\ class'[p] = "success" /\ \A q \in Process : q # p => class'[q] = class[q]
  BY <1>1, <1>2 DEF ContinuationType
<1>4. ASSUME wave.kind = "continue"
      PROVE  /\ active' = {} /\ IsDone(p)'
             /\ \A i \in 1..Len(order) : i < Position => IsDone(order[i])'
             /\ \A i \in 1..Len(order) :
                  i > Position /\ wave.action[order[i]] = "skip"
                    => class'[order[i]] = "success" /\ output'[order[i]] = "fresh"
  <2>1. /\ Position \in 1..Len(order) /\ order[Position] = p
        /\ \A i \in 1..Len(order) : i # Position => order[i] # p
    BY <1>1, <1>2, <1>4, HeadAtPosition
  <2>2. Continuing /\ Len(order) \in Nat /\ \A i \in 1..Len(order) : order[i] \in Process
    BY <1>2, <1>4, OrderFacts DEF ContinuationInv
  <2>3. active' = {}
    BY <1>1, <1>2, <2>2 DEF Continuing, AttemptAtHead
  <2> HIDE DEF Position
  <2>4. output[p] = "fresh"
    BY <1>1, <2>1, <2>2 DEF Continuing, FreshAhead
  <2>5. IsDone(p)'
    BY <1>1, <1>3, <2>4 DEF IsDone
  <2>6. ASSUME NEW i \in 1..Len(order), i < Position PROVE IsDone(order[i])'
    <3>1. IsDone(order[i]) /\ order[i] # p /\ order[i] \in Process
      BY <2>1, <2>2, <2>6 DEF Continuing, DoneBehind
    <3> QED  BY <1>1, <1>3, <3>1 DEF IsDone
  <2>7. ASSUME NEW i \in 1..Len(order), i > Position, wave.action[order[i]] = "skip"
        PROVE  class'[order[i]] = "success" /\ output'[order[i]] = "fresh"
    <3>1. /\ order[i] # p /\ order[i] \in Process
          /\ class[order[i]] = "success" /\ output[order[i]] = "fresh"
      BY <2>1, <2>2, <2>7 DEF Continuing, FreshAhead
    <3> QED  BY <1>1, <1>3, <3>1
  <2> QED  BY <2>3, <2>5, <2>6, <2>7
<1> HIDE DEF Position, IsDone
<1>5. active' \in SUBSET Process /\ output' \in [Process -> {"none", "fresh", "stale", "mixed"}]
      /\ checkpoint' \in [Process -> {None, "current", "outdated", "incompatible"}]
  BY <1>1, <1>2 DEF ContinuationType
<1> QED  BY <1>1, <1>3, <1>4, <1>5, AdvanceKeeps

\* reporter.complete.  What is executed makes stale only what comes after it
\* and is not skipped, or not vouched for.
LEMMA FinishAttemptKeeps ==
  ASSUME ContinuationInv, NEW p \in Process, FinishAttempt(p)
  PROVE  ContinuationInv'
<1>1. /\ At(p) /\ wave.now # None /\ wave' = Advanced
      /\ class' = [class EXCEPT ![p] = "success"] /\ active' = active \ {p}
      /\ output' = OutputsAfter(p) /\ checkpoint' = CheckpointsAfter(p)
      /\ UNCHANGED <<depends, order, spec, attempts>>
  BY DEF FinishAttempt, InAttempt, declared
<1>2. /\ ContinuationType /\ Running /\ wave.todo # <<>> /\ Head(wave.todo) = p
      /\ (wave.kind = "continue" => Continuing)
  BY <1>1 DEF ContinuationInv, At, StepsInv
<1>3. /\ class' \in [Process -> {None, "active", "success", "failure"}]
      /\ class'[p] = "success" /\ \A q \in Process : q # p => class'[q] = class[q]
  BY <1>1, <1>2 DEF ContinuationType
<1>4. /\ output' \in [Process -> {"none", "fresh", "stale", "mixed"}]
      /\ output'[p] \in {"fresh", "mixed"}
      /\ \A q \in Process : q # p /\ (p \notin depends[q] \/ spec[q].vouched)
                              => output'[q] = output[q]
  BY <1>1, <1>2 DEF ContinuationType, OutputsAfter
<1>5. /\ active' \in SUBSET Process
      /\ checkpoint' \in [Process -> {None, "current", "outdated", "incompatible"}]
  BY <1>1, <1>2 DEF ContinuationType, CheckpointsAfter
<1>6. ASSUME wave.kind = "continue"
      PROVE  /\ active' = {} /\ IsDone(p)'
             /\ \A i \in 1..Len(order) : i < Position => IsDone(order[i])'
             /\ \A i \in 1..Len(order) :
                  i > Position /\ wave.action[order[i]] = "skip"
                    => class'[order[i]] = "success" /\ output'[order[i]] = "fresh"
  <2>1. /\ Position \in 1..Len(order) /\ order[Position] = p
        /\ \A i \in 1..Len(order) : i # Position => order[i] # p
        /\ \A i \in 1..Len(order) : i < Position => p \notin depends[order[i]]
    BY <1>1, <1>2, <1>6, HeadAtPosition
  <2>2. Continuing /\ Len(order) \in Nat /\ \A i \in 1..Len(order) : order[i] \in Process
    BY <1>2, <1>6, OrderFacts DEF ContinuationInv
  <2>3. active' = {} /\ wave.action[p] # "skip"
    BY <1>1, <1>2, <2>2 DEF Continuing, AttemptAtHead
  <2> HIDE DEF Position
  <2>4. IsDone(p)'
    BY <1>3, <1>4 DEF IsDone
  <2>5. ASSUME NEW i \in 1..Len(order), i < Position PROVE IsDone(order[i])'
    <3>1. IsDone(order[i]) /\ order[i] # p /\ order[i] \in Process /\ p \notin depends[order[i]]
      BY <2>1, <2>2, <2>5 DEF Continuing, DoneBehind
    <3> QED  BY <1>1, <1>3, <1>4, <3>1 DEF IsDone
  <2>6. ASSUME NEW i \in 1..Len(order), i > Position, wave.action[order[i]] = "skip"
        PROVE  class'[order[i]] = "success" /\ output'[order[i]] = "fresh"
    <3>1. /\ order[i] # p /\ order[i] \in Process
          /\ class[order[i]] = "success" /\ output[order[i]] = "fresh"
      BY <2>1, <2>2, <2>6 DEF Continuing, FreshAhead
    <3>2. p \notin depends[order[i]] \/ spec[order[i]].vouched
      BY <2>2, <2>3, <2>6, <3>1 DEF Continuing, SkipsRestOnSkips
    <3> QED  BY <1>3, <1>4, <3>1, <3>2
  <2> QED  BY <2>3, <2>4, <2>5, <2>6
<1> HIDE DEF Position, IsDone
<1> QED  BY <1>1, <1>3, <1>4, <1>5, <1>6, AdvanceKeeps

\* reporter.start.
LEMMA BeginAttemptKeeps ==
  ASSUME ContinuationInv, NEW p \in Process, BeginAttempt(p)
  PROVE  ContinuationInv'
<1> DEFINE now == IF wave.action[p] = "resume" THEN checkpoint[p] ELSE "current"
<1>1. /\ At(p) /\ wave.action[p] # "skip"
      /\ attempts' = [attempts EXCEPT ![p] = @ + 1]
      /\ class' = [class EXCEPT ![p] = "active"] /\ active' = active \cup {p}
      /\ wave' = [wave EXCEPT !.now = now]
      /\ UNCHANGED <<depends, order, spec, checkpoint, output>>
  BY DEF BeginAttempt, declared
<1>2. /\ ContinuationType /\ Running /\ wave.todo # <<>> /\ Head(wave.todo) = p
      /\ IsOrder(depends, order) /\ AffectedSubgraphOnly
      /\ (wave.kind = "continue" => Continuing)
  BY <1>1 DEF ContinuationInv, At, StepsInv
<1>3. now \in {None, "current", "outdated", "incompatible"}
  BY <1>2 DEF ContinuationType
<1> HIDE DEF now
<1>4. /\ wave' \in Waves /\ wave'.at = wave.at /\ wave'.kind = wave.kind
      /\ wave'.action = wave.action /\ wave'.todo = wave.todo
      /\ wave'.seeds = wave.seeds /\ wave'.affected = wave.affected
  BY <1>1, <1>2, <1>3 DEF ContinuationType, Waves
<1>5. /\ class' \in [Process -> {None, "active", "success", "failure"}]
      /\ attempts' \in [Process -> Nat]
      /\ \A q \in Process : q # p => class'[q] = class[q]
  BY <1>1, <1>2 DEF ContinuationType
<1>6. ContinuationType'
  BY <1>1, <1>2, <1>4, <1>5 DEF ContinuationType
<1>7. AffectedSubgraphOnly'
  BY <1>1, <1>2, <1>4, SelectionStands
<1>8. ASSUME wave.kind = "continue" PROVE Continuing'
  <2>1. /\ Position \in 1..Len(order) /\ order[Position] = p
        /\ \A i \in 1..Len(order) : i # Position => order[i] # p
    BY <1>1, <1>2, <1>8, HeadAtPosition
  <2>2. Continuing /\ Len(order) \in Nat /\ \A i \in 1..Len(order) : order[i] \in Process
    BY <1>2, <1>8, OrderFacts
  <2>3. Position' = Position /\ RestOfOrder'
    BY <1>1, <1>4, <2>2 DEF Continuing, RestOfOrder, Position
  <2> HIDE DEF Position
  <2>4. DoneBehind'
    <3>1. ASSUME NEW i \in 1..Len(order), i < Position PROVE IsDone(order[i])'
      <4>1. IsDone(order[i]) /\ order[i] # p /\ order[i] \in Process
        BY <2>1, <2>2, <3>1 DEF Continuing, DoneBehind
      <4>2. class'[order[i]] = class[order[i]] /\ order' = order /\ output' = output
        BY <1>1, <1>5, <4>1
      <4> QED  BY <4>1, <4>2 DEF IsDone
    <3> QED  BY <1>1, <2>3, <3>1 DEF DoneBehind
  <2>5. FreshAhead'
    <3>1. ASSUME NEW i \in 1..Len(order), i >= Position, wave.action[order[i]] = "skip"
          PROVE  class'[order[i]] = "success" /\ output[order[i]] = "fresh"
      <4>1. order[i] # p /\ order[i] \in Process
        BY <1>1, <2>2, <3>1
      <4> QED  BY <1>5, <2>2, <3>1, <4>1 DEF Continuing, FreshAhead
    <3> QED  BY <1>1, <1>4, <2>3, <3>1 DEF FreshAhead
  <2>6. SkipsRestOnSkips'
    BY <1>1, <1>4, <2>2 DEF Continuing, SkipsRestOnSkips
  <2>7. active \subseteq {p}
    BY <1>2, <2>2 DEF Continuing, AttemptAtHead
  <2>8. AttemptAtHead'
    BY <1>1, <1>2, <1>4, <2>7 DEF AttemptAtHead
  <2> QED  BY <2>3, <2>4, <2>5, <2>6, <2>8 DEF Continuing
<1>9. StepsInv'
  BY <1>2, <1>4, <1>8 DEF StepsInv, Running
<1>10. IsOrder(depends, order)'
  BY <1>1, <1>2, OrderStands
<1> QED  BY <1>6, <1>7, <1>9, <1>10 DEF ContinuationInv

\* commit_checkpoint, invalidate_checkpoint and steps of others: neither the
\* outputs nor the wave are touched.
LEMMA WaveUntouched ==
  ASSUME ContinuationInv,
         checkpoint' \in [Process -> {None, "current", "outdated", "incompatible"}],
         UNCHANGED <<depends, order, spec, class, attempts, active, output, wave>>
  PROVE  ContinuationInv'
<1>1. IsOrder(depends, order)' /\ ContinuationType' /\ AffectedSubgraphOnly'
  <2>1. IsOrder(depends, order)'
    BY OrderStands DEF ContinuationInv
  <2>2. ContinuationType'
    BY DEF ContinuationInv, ContinuationType
  <2>3. AffectedSubgraphOnly'
    BY SelectionStands DEF ContinuationInv
  <2> QED  BY <2>1, <2>2, <2>3
<1>2. StepsInv'
  BY DEF ContinuationInv, StepsInv, Running, Continuing, RestOfOrder, DoneBehind, FreshAhead,
         SkipsRestOnSkips, AttemptAtHead, IsDone, Position
<1> QED  BY <1>1, <1>2 DEF ContinuationInv

\* A wave that begins and is no continuation, or that has not come to its end.
LEMMA UnplannedKeeps ==
  ASSUME ContinuationInv, NEW at \in {"running", "failed", "dead"},
         NEW kind \in {"initial", "continue"}, NEW todo \in Seq(Process),
         at = "running" => kind = "initial",
         wave' = Unplanned(at, kind, todo),
         class' \in [Process -> {None, "active", "success", "failure"}],
         active' \in SUBSET Process,
         UNCHANGED <<depends, order, spec, attempts, checkpoint, output>>
  PROVE  ContinuationInv'
<1>1. wave' \in Waves /\ wave'.at = at /\ wave'.kind = kind /\ AffectedSubgraphOnly'
  <2>1. at \in {"none", "running", "refused", "completed", "failed", "dead"}
    OBVIOUS
  <2> QED  BY <2>1, UnplannedWaves
<1>2. IsOrder(depends, order)'
  BY OrderStands DEF ContinuationInv
<1>3. ContinuationType'
  BY <1>1 DEF ContinuationInv, ContinuationType
<1>4. StepsInv'
  BY <1>1 DEF StepsInv, Running
<1> QED  BY <1>1, <1>2, <1>3, <1>4 DEF ContinuationInv

\* reconcile_interrupted_work.
LEMMA ReconcileKeeps ==
  ASSUME ContinuationInv, Reconcile
  PROVE  ContinuationInv'
<1>1. /\ ~Running /\ active # {} /\ active' = {}
      /\ class' = [p \in Process |-> IF p \in active THEN "failure" ELSE class[p]]
      /\ UNCHANGED <<depends, order, spec, attempts, checkpoint, output, wave>>
  BY DEF Reconcile, declared
<1>2. IsOrder(depends, order)'
  BY <1>1, OrderStands DEF ContinuationInv
<1>3. ContinuationType'
  <2>1. class' \in [Process -> {None, "active", "success", "failure"}]
    BY <1>1 DEF ContinuationInv, ContinuationType
  <2> QED  BY <1>1, <2>1 DEF ContinuationInv, ContinuationType
<1>4. AffectedSubgraphOnly'
  BY <1>1, SelectionStands DEF ContinuationInv
<1>5. StepsInv'
  BY <1>1 DEF ContinuationInv, StepsInv, Running
<1> QED  BY <1>2, <1>3, <1>4, <1>5 DEF ContinuationInv

\* ContinueAsWished and ContinuePlainly.
LEMMA ContinuationsKeep ==
  ASSUME ContinuationInv, ContinuePlainly \/ ContinueAsWished
  PROVE  ContinuationInv'
<1>1. CASE ContinuePlainly
  <2>1. Reasonable(NoWish)
    BY DEF Reasonable, NoWish, None
  <2> QED  BY <1>1, <2>1, ContinueStarts DEF ContinuePlainly
<1>2. CASE ContinueAsWished
  <2>1. PICK w \in Wishes, cleaned \in BOOLEAN :
          /\ w.preferred = "skip" => \A p \in w.of : output[p] = "fresh"
          /\ Continue(w, cleaned)
    BY <1>2 DEF ContinueAsWished
  <2>2. Reasonable(w)
    BY <2>1 DEF Reasonable, Wishes
  <2> QED  BY <2>1, <2>2, ContinueStarts
<1> QED  BY <1>1, <1>2

LEMMA ContinuationInit ==
  ASSUME Init
  PROVE  ContinuationInv
<1>1. ValidGraph(depends) /\ order = TopologicalOrder(depends)
  BY DEF Init
<1>2. IsOrder(depends, order)
  BY <1>1, ValidGraphIsOrdered, Zenon
<1> DEFINE plan == [p \in Process |-> "restart"]
<1>3. plan \in [Process -> Actions]
  BY DEF Actions
<1> HIDE DEF plan
<1>4. wave = [at |-> "none", kind |-> "initial", action |-> plan, todo |-> <<>>, now |-> None,
              seeds |-> {}, affected |-> {}]
  BY DEF Init, Unplanned, Wave, NoPlan, plan
<1>5. /\ wave \in Waves /\ wave.at = "none"
      /\ wave.seeds = {} /\ wave.affected = {}
  BY <1>3, <1>4 DEF Waves
<1>6. ContinuationType
  BY <1>5 DEF Init, ContinuationType
<1>7. AffectedSubgraphOnly
  <2>1. Closed({})
    BY DEF Closed
  <2>2. \A s \in SUBSET {} : s = {}
    OBVIOUS
  <2> QED  BY <1>5, <2>1, <2>2 DEF AffectedSubgraphOnly
<1>8. StepsInv
  BY <1>5 DEF StepsInv, Running
<1> QED  BY <1>2, <1>6, <1>7, <1>8 DEF ContinuationInv

LEMMA ContinuationStep ==
  ASSUME ContinuationInv, [Next]_vars
  PROVE  ContinuationInv'
<1>1. /\ wave \in Waves /\ class \in [Process -> {None, "active", "success", "failure"}]
      /\ active \in SUBSET Process
      /\ checkpoint \in [Process -> {None, "current", "outdated", "incompatible"}]
  BY DEF ContinuationInv, ContinuationType
<1>2. wave.kind \in {"initial", "continue"} /\ <<>> \in Seq(Process)
  BY <1>1 DEF Waves
<1>3. CASE RunAll
  <2>1. PICK registered \in Registrations :
          wave' = Unplanned("running", "initial", registered)
    BY <1>3 DEF RunAll
  <2>2. registered \in Seq(Process)
    BY RegistrationsAssumption
  <2>3. UNCHANGED <<depends, order, spec, class, attempts, active, checkpoint, output>>
    BY <1>3 DEF RunAll, declared
  <2> QED  BY <1>1, <2>1, <2>2, <2>3, UnplannedKeeps
<1>4. CASE Die
  <2>1. /\ wave' = Unplanned("dead", wave.kind, <<>>)
        /\ UNCHANGED <<depends, order, spec, class, attempts, active, checkpoint, output>>
    BY <1>4 DEF Die, declared
  <2> QED  BY <1>1, <1>2, <2>1, UnplannedKeeps
<1>5. ASSUME NEW p \in Process, RunProcess(p) PROVE ContinuationInv'
  <2>1. /\ wave' = Unplanned("running", "initial", <<p>>) /\ <<p>> \in Seq(Process)
        /\ UNCHANGED <<depends, order, spec, class, attempts, active, checkpoint, output>>
    BY <1>5 DEF RunProcess, declared
  <2> QED  BY <1>1, <2>1, UnplannedKeeps
<1>6. ASSUME NEW p \in Process, FailAttempt(p) PROVE ContinuationInv'
  <2>1. /\ wave' = Unplanned("failed", wave.kind, <<>>)
        /\ class' = [class EXCEPT ![p] = "failure"] /\ active' = active \ {p}
        /\ UNCHANGED <<depends, order, spec, attempts, checkpoint, output>>
    BY <1>6 DEF FailAttempt, declared
  <2>2. class' \in [Process -> {None, "active", "success", "failure"}] /\ active' \in SUBSET Process
    BY <1>1, <2>1
  <2> QED  BY <1>2, <2>1, <2>2, UnplannedKeeps
<1>7. ASSUME NEW p \in Process, CommitCheckpoint(p) \/ InvalidateCheckpoint(p)
      PROVE  ContinuationInv'
  <2>1. UNCHANGED <<depends, order, spec, class, attempts, active, output, wave>>
    BY <1>7 DEF CommitCheckpoint, InvalidateCheckpoint, declared
  <2>2. wave.now \in {None, "current", "outdated", "incompatible"}
    BY <1>1 DEF Waves
  <2>3. PICK c \in {wave.now, "incompatible", None} : checkpoint' = [checkpoint EXCEPT ![p] = c]
    BY <1>7 DEF CommitCheckpoint, InvalidateCheckpoint
  <2>4. checkpoint' \in [Process -> {None, "current", "outdated", "incompatible"}]
    BY <1>1, <2>2, <2>3
  <2> QED  BY <2>1, <2>4, WaveUntouched
<1>8. CASE UNCHANGED vars
  <2>1. UNCHANGED <<depends, order, spec, class, attempts, active, checkpoint, output, wave>>
    BY <1>8 DEF vars
  <2> QED  BY <1>1, <2>1, WaveUntouched
<1> QED
  BY <1>3, <1>4, <1>5, <1>6, <1>7, <1>8, ContinuationsKeep, ReconcileKeeps, SkipKeeps,
     BeginAttemptKeeps, FinishAttemptKeeps DEF Next, Step

-----------------------------------------------------------------------------
(* The theorems.                                                            *)

\* "Build the affected DAG subgraph": whatever the graph, what a continuation
\* selects is exactly what is unfinished, invalid or asked for and what rests
\* on it, although the selector passes the processes once.
THEOREM SelectsTheAffected == Spec => []AffectedSubgraphOnly
<1>1. ContinuationInv => AffectedSubgraphOnly
  BY DEF ContinuationInv
<1> QED  BY <1>1, ContinuationInit, ContinuationStep, PTL DEF Spec

\* A continuation that went through leaves nothing stale: whatever failed, died
\* or was repeated before, a skipped process was fresh when the plan was made
\* and nothing it rests on is executed after that.
THEOREM CompletedIsFresh == Spec => []CompletedPlanIsFresh
<1>1. ContinuationInv => CompletedPlanIsFresh
  BY DEF ContinuationInv, StepsInv, CompletedPlanIsFresh, IsDone
<1> QED  BY <1>1, ContinuationInit, ContinuationStep, PTL DEF Spec

-----------------------------------------------------------------------------
(* The compute graph.                                                       *)

\* What of a graph the model computes by recursion over the parents, of any
\* graph ns: what is made of the nodes later changes nothing of a node.
AncestorsOf(ns, n) ==
  LET all[k \in DOMAIN ns] == {k} \cup UNION {all[p] : p \in ns[k].parents} IN all[n]

PlacedOf(ns, n) ==
  LET placed[k \in 0..MaxNodes] ==
        IF k = 0 THEN {}
        ELSE placed[k - 1] \cup {m \in AncestorsOf(ns, n) : ns[m].parents \subseteq placed[k - 1]}
  IN  placed

AppliedIn(ns, n, given, values) ==
  <<ns[n].func,
    [s \in Slots |->
       LET b == ns[n].bound[s]
       IN  IF b \in {Nil, Constant} THEN b
           ELSE IF b[1] = "var" THEN given[Name[b[2]]] ELSE values[b[2]]]>>

ValueOf(ns, n, given) ==
  LET value[k \in DOMAIN ns] == AppliedIn(ns, k, given, [p \in ns[k].parents |-> value[p]])
  IN  value[n]

LEMMA OfTheseNodes ==
  /\ \A n : Ancestors(n) = AncestorsOf(nodes, n)
  /\ \A n : Placed(n) = PlacedOf(nodes, n)
  /\ \A n, given, values : Applied(n, given, values) = AppliedIn(nodes, n, given, values)
  /\ \A n, given : Value(n, given) = ValueOf(nodes, n, given)
<1>1. ASSUME NEW n PROVE Ancestors(n) = AncestorsOf(nodes, n)
  BY Zenon DEF Ancestors, AncestorsOf, Node
<1>2. ASSUME NEW n PROVE Placed(n) = PlacedOf(nodes, n)
  <2>1. Ancestors(n) = AncestorsOf(nodes, n)
    BY <1>1
  <2> QED  BY <2>1, Zenon DEF Placed, PlacedOf
<1>3. ASSUME NEW n, NEW given, NEW values
      PROVE  Applied(n, given, values) = AppliedIn(nodes, n, given, values)
  BY Zenon DEF Applied, AppliedIn
<1>4. ASSUME NEW n, NEW given PROVE Value(n, given) = ValueOf(nodes, n, given)
  BY Zenon DEF Value, ValueOf, Applied, AppliedIn, Node
<1> QED  BY <1>1, <1>2, <1>3, <1>4

LEMMA OfTheNextNodes ==
  /\ \A n : Ancestors(n)' = AncestorsOf(nodes', n)
  /\ \A n : Placed(n)' = PlacedOf(nodes', n)
  /\ \A n, given, values : Applied(n, given, values)' = AppliedIn(nodes', n, given, values)
  /\ \A n, given : Value(n, given)' = ValueOf(nodes', n, given)
<1>1. ASSUME NEW n PROVE Ancestors(n)' = AncestorsOf(nodes', n)
  BY Zenon DEF Ancestors, AncestorsOf, Node
<1>2. ASSUME NEW n PROVE Placed(n)' = PlacedOf(nodes', n)
  <2>1. Ancestors(n)' = AncestorsOf(nodes', n)
    BY <1>1
  <2> QED  BY <2>1, Zenon DEF Placed, PlacedOf
<1>3. ASSUME NEW n, NEW given, NEW values
      PROVE  Applied(n, given, values)' = AppliedIn(nodes', n, given, values)
  BY Zenon DEF Applied, AppliedIn
<1>4. ASSUME NEW n, NEW given PROVE Value(n, given)' = ValueOf(nodes', n, given)
  BY Zenon DEF Value, ValueOf, Applied, AppliedIn, Node
<1> QED  BY <1>1, <1>2, <1>3, <1>4

Input == {Nil, Constant} \cup {OfVar(v) : v \in Vars} \cup {OfNode(n) : n \in 1..MaxNodes}

TaskNode == [func : Nat, lazy : BOOLEAN, bound : [Slots -> Input], parents : SUBSET Nat,
             missing : [Names -> Vars \cup {Nil}], anew : BOOLEAN]

\* A node is made after its parents, has those its inputs name among them, and
\* is missing the inputs bound to it and whatever its parents are missing.
MadeOf(ns, k) ==
  /\ ns[k].parents \subseteq 1..(k - 1)
  /\ \A s \in Slots, m \in 1..MaxNodes : ns[k].bound[s] = OfNode(m) => m \in ns[k].parents
  /\ \A s \in Slots, v \in Vars : ns[k].bound[s] = OfVar(v) => ns[k].missing[Name[v]] = v
  /\ \A p \in ns[k].parents, i \in Names : ns[p].missing[i] # Nil => ns[k].missing[i] # Nil

WellBuilt(ns) ==
  /\ ns \in Seq(TaskNode) /\ Len(ns) <= MaxNodes
  /\ \A k \in 1..Len(ns) : MadeOf(ns, k)

\* One equation defines the ancestors of all nodes.
AncestorsEquation(ns, f) ==
  f = [k \in DOMAIN ns |-> {k} \cup UNION {f[p] : p \in ns[k].parents}]

LEMMA AncestorsSolved ==
  ASSUME NEW ns, WellBuilt(ns)
  PROVE  \E f : AncestorsEquation(ns, f)
<1> DEFINE L == Len(ns)
           Solves(f, k) == \A j \in 1..k : f[j] = {j} \cup UNION {f[p] : p \in ns[j].parents}
           Solved == {k \in 0..L : \E f : DOMAIN f = 1..k /\ f = [j \in 1..k |-> f[j]] /\ Solves(f, k)}
<1>1. L \in Nat /\ DOMAIN ns = 1..L /\ \A k \in 1..L : ns[k].parents \subseteq 1..(k - 1)
  BY DEF WellBuilt, MadeOf
<1> HIDE DEF L
<1>2. 0 \in Solved
  <2> DEFINE f == [j \in 1..0 |-> {}]
  <2>1. DOMAIN f = 1..0 /\ f = [j \in 1..0 |-> f[j]] /\ Solves(f, 0)
    OBVIOUS
  <2> HIDE DEF f
  <2>2. 0 \in 0..L
    BY <1>1
  <2> QED  BY <2>1, <2>2
<1>3. ASSUME NEW k \in 0..L, k < L, k \in Solved PROVE k + 1 \in Solved
  <2>1. PICK f : DOMAIN f = 1..k /\ f = [j \in 1..k |-> f[j]] /\ Solves(f, k)
    BY <1>3
  <2> DEFINE last == {k + 1} \cup UNION {f[p] : p \in ns[k + 1].parents}
             g == [j \in 1..(k + 1) |-> IF j = k + 1 THEN last ELSE f[j]]
  <2>2. k \in Nat /\ k + 1 \in 1..L
    BY <1>1, <1>3
  <2>3. /\ g[k + 1] = last /\ \A j \in 1..k : g[j] = f[j]
        /\ DOMAIN g = 1..(k + 1) /\ g = [j \in 1..(k + 1) |-> g[j]]
    BY <2>2
  <2>4. last = {k + 1} \cup UNION {f[p] : p \in ns[k + 1].parents}
    OBVIOUS
  <2> HIDE DEF g, last
  <2>5. ASSUME NEW j \in 1..(k + 1) PROVE g[j] = {j} \cup UNION {g[p] : p \in ns[j].parents}
    <3>1. j \in 1..L /\ ns[j].parents \subseteq 1..(j - 1)
      BY <1>1, <2>2
    <3>2. \A p \in ns[j].parents : p \in 1..k
      BY <2>2, <3>1
    <3>3. \A p \in ns[j].parents : g[p] = f[p]
      BY <2>3, <3>2
    <3>4. {g[p] : p \in ns[j].parents} = {f[p] : p \in ns[j].parents}
      BY <3>3
    <3>5. g[j] = {j} \cup UNION {f[p] : p \in ns[j].parents}
      <4>1. CASE j = k + 1
        BY <2>3, <2>4, <4>1
      <4>2. CASE j # k + 1
        <5>1. j \in 1..k
          BY <2>2, <4>2
        <5> QED  BY <2>1, <2>3, <5>1
      <4> QED  BY <4>1, <4>2
    <3> QED  BY <3>4, <3>5
  <2>6. Solves(g, k + 1)
    BY <2>5
  <2>7. k + 1 \in 0..L
    BY <2>2
  <2> QED  BY <2>3, <2>6, <2>7
<1> HIDE DEF Solved
<1>4. 0..L \subseteq Solved
  BY <1>1, <1>2, <1>3, InductionUpTo
<1>5. L \in Solved
  BY <1>1, <1>4
<1>6. PICK f : DOMAIN f = 1..L /\ f = [j \in 1..L |-> f[j]] /\ Solves(f, L)
  BY <1>5 DEF Solved
<1>7. f = [j \in 1..L |-> {j} \cup UNION {f[p] : p \in ns[j].parents}]
  BY <1>6
<1> QED  BY <1>1, <1>7 DEF AncestorsEquation

LEMMA AncestorsUnfold ==
  ASSUME NEW ns, WellBuilt(ns), NEW n \in 1..Len(ns)
  PROVE  AncestorsOf(ns, n) = {n} \cup UNION {AncestorsOf(ns, p) : p \in ns[n].parents}
<1> DEFINE f == CHOOSE f : AncestorsEquation(ns, f)
<1>1. AncestorsEquation(ns, f)
  BY AncestorsSolved
<1>2. \A m : AncestorsOf(ns, m) = f[m]
  BY Zenon DEF AncestorsOf, AncestorsEquation
<1> HIDE DEF f
<1>3. n \in DOMAIN ns
  BY DEF WellBuilt
<1>4. f[n] = {n} \cup UNION {f[p] : p \in ns[n].parents}
  BY <1>1, <1>3 DEF AncestorsEquation
<1>5. {AncestorsOf(ns, p) : p \in ns[n].parents} = {f[p] : p \in ns[n].parents}
  BY <1>2
<1> QED  BY <1>2, <1>4, <1>5

\* All that can be said of a node once it holds of those before it.
LEMMA InductionOverNodes ==
  ASSUME NEW L \in Nat, NEW S,
         \A k \in 1..L : (\A p \in 1..(k - 1) : p \in S) => k \in S
  PROVE  1..L \subseteq S
<1> DEFINE T == {k \in 0..L : \A p \in 1..k : p \in S}
<1>1. 0 \in T
  OBVIOUS
<1>2. ASSUME NEW k \in 0..L, k < L, k \in T PROVE k + 1 \in T
  <2>1. k \in Nat /\ k + 1 \in 1..L /\ (k + 1) - 1 = k
    BY <1>2
  <2>2. k + 1 \in S
    BY <1>2, <2>1
  <2>3. \A p \in 1..(k + 1) : p = k + 1 \/ p \in 1..k
    BY <2>1
  <2> QED  BY <1>2, <2>1, <2>2, <2>3
<1> HIDE DEF T
<1>3. L \in T
  BY <1>1, <1>2, InductionUpTo
<1> QED  BY <1>3 DEF T

LEMMA AncestorsAreBefore ==
  ASSUME NEW ns, WellBuilt(ns), NEW n \in 1..Len(ns)
  PROVE  AncestorsOf(ns, n) \subseteq 1..n /\ n \in AncestorsOf(ns, n)
<1> DEFINE L == Len(ns)
           S == {k \in 1..L : AncestorsOf(ns, k) \subseteq 1..k}
<1>1. L \in Nat /\ \A k \in 1..L : ns[k].parents \subseteq 1..(k - 1)
  BY DEF WellBuilt, MadeOf
<1>2. \A k \in 1..L : AncestorsOf(ns, k) = {k} \cup UNION {AncestorsOf(ns, p) : p \in ns[k].parents}
  BY AncestorsUnfold
<1>3. n \in 1..L
  OBVIOUS
<1> HIDE DEF L
<1>4. ASSUME NEW k \in 1..L, \A p \in 1..(k - 1) : p \in S PROVE k \in S
  <2>1. \A p \in ns[k].parents : p \in 1..(k - 1) /\ AncestorsOf(ns, p) \subseteq 1..p
    BY <1>1, <1>4
  <2>2. \A p \in ns[k].parents : AncestorsOf(ns, p) \subseteq 1..k
    BY <1>1, <2>1
  <2>3. AncestorsOf(ns, k) \subseteq 1..k
    BY <1>1, <1>2, <2>2
  <2> QED  BY <2>3
<1> HIDE DEF S
<1>5. 1..L \subseteq S
  BY <1>1, <1>4, InductionOverNodes
<1> QED  BY <1>2, <1>3, <1>5 DEF S

\* With a node come its parents.
LEMMA AncestorsOfAncestors ==
  ASSUME NEW ns, WellBuilt(ns), NEW n \in 1..Len(ns), NEW m \in AncestorsOf(ns, n)
  PROVE  /\ m \in 1..Len(ns) /\ ns[m].parents \subseteq AncestorsOf(ns, n)
         /\ AncestorsOf(ns, m) \subseteq AncestorsOf(ns, n)
<1> DEFINE L == Len(ns)
           S == {k \in 1..L : \A j \in AncestorsOf(ns, k) : AncestorsOf(ns, j) \subseteq AncestorsOf(ns, k)}
<1>1. L \in Nat /\ \A k \in 1..L : ns[k].parents \subseteq 1..(k - 1)
  BY DEF WellBuilt, MadeOf
<1>2. /\ \A k \in 1..L : AncestorsOf(ns, k) = {k} \cup UNION {AncestorsOf(ns, p) : p \in ns[k].parents}
      /\ \A k \in 1..L : k \in AncestorsOf(ns, k) /\ AncestorsOf(ns, k) \subseteq 1..k
  BY AncestorsUnfold, AncestorsAreBefore
<1>3. n \in 1..L
  OBVIOUS
<1> HIDE DEF L
<1>4. ASSUME NEW k \in 1..L, \A p \in 1..(k - 1) : p \in S PROVE k \in S
  <2>1. \A p \in ns[k].parents : p \in S
    BY <1>1, <1>4
  <2>2. ASSUME NEW j \in AncestorsOf(ns, k) PROVE AncestorsOf(ns, j) \subseteq AncestorsOf(ns, k)
    <3>1. CASE j = k
      BY <3>1
    <3>2. CASE j # k
      <4>1. PICK p \in ns[k].parents : j \in AncestorsOf(ns, p)
        BY <1>2, <2>2, <3>2
      <4>2. AncestorsOf(ns, j) \subseteq AncestorsOf(ns, p)
        BY <2>1, <4>1
      <4>3. AncestorsOf(ns, p) \subseteq AncestorsOf(ns, k)
        BY <1>2, <4>1
      <4> QED  BY <4>2, <4>3
    <3> QED  BY <3>1, <3>2
  <2> QED  BY <2>2
<1> HIDE DEF S
<1>5. 1..L \subseteq S
  BY <1>1, <1>4, InductionOverNodes
<1>6. AncestorsOf(ns, m) \subseteq AncestorsOf(ns, n)
  BY <1>3, <1>5 DEF S
<1>7. m \in 1..L
  BY <1>1, <1>2, <1>3
<1>8. \A p \in ns[m].parents : p \in AncestorsOf(ns, m)
  <2> TAKE p \in ns[m].parents
  <2>1. p \in 1..L
    BY <1>1, <1>7
  <2>2. p \in AncestorsOf(ns, p)
    BY <1>2, <2>1
  <2> QED  BY <1>2, <1>7, <2>2
<1> QED  BY <1>6, <1>7, <1>8 DEF L

\* What an ancestor is missing, the node is missing.
LEMMA MissingBubbles ==
  ASSUME NEW ns, WellBuilt(ns), NEW n \in 1..Len(ns), NEW m \in AncestorsOf(ns, n),
         NEW i \in Names, ns[m].missing[i] # Nil
  PROVE  ns[n].missing[i] # Nil
<1> DEFINE L == Len(ns)
           S == {k \in 1..L : \A j \in AncestorsOf(ns, k) :
                                ns[j].missing[i] # Nil => ns[k].missing[i] # Nil}
<1>1. L \in Nat /\ \A k \in 1..L : /\ ns[k].parents \subseteq 1..(k - 1)
                                   /\ \A p \in ns[k].parents :
                                        ns[p].missing[i] # Nil => ns[k].missing[i] # Nil
  BY DEF WellBuilt, MadeOf
<1>2. \A k \in 1..L : AncestorsOf(ns, k) = {k} \cup UNION {AncestorsOf(ns, p) : p \in ns[k].parents}
  BY AncestorsUnfold
<1>3. n \in 1..L
  OBVIOUS
<1> HIDE DEF L
<1>4. ASSUME NEW k \in 1..L, \A p \in 1..(k - 1) : p \in S PROVE k \in S
  <2>1. ASSUME NEW j \in AncestorsOf(ns, k), ns[j].missing[i] # Nil PROVE ns[k].missing[i] # Nil
    <3>1. CASE j = k
      BY <2>1, <3>1
    <3>2. CASE j # k
      <4>1. PICK p \in ns[k].parents : j \in AncestorsOf(ns, p)
        BY <1>2, <2>1, <3>2
      <4>2. p \in S
        BY <1>1, <1>4
      <4> QED  BY <1>1, <2>1, <4>1, <4>2
    <3> QED  BY <3>1, <3>2
  <2> QED  BY <2>1
<1> HIDE DEF S
<1>5. 1..L \subseteq S
  BY <1>1, <1>4, InductionOverNodes
<1> QED  BY <1>3, <1>5 DEF S

-----------------------------------------------------------------------------
(* The value of a node.                                                     *)

LEMMA InputsDiffer ==
  /\ Nil \notin Vars /\ \A v \in Vars : OfVar(v) \notin {Nil, Constant} /\ OfVar(v)[1] = "var" /\ OfVar(v)[2] = v
  /\ \A n \in 1..MaxNodes :
       OfNode(n) \notin {Nil, Constant} /\ OfNode(n)[1] = "node" /\ OfNode(n)[2] = n
<1>1. ASSUME NEW v PROVE OfVar(v) # Constant /\ OfVar(v)[1] = "var" /\ OfVar(v)[2] = v
  <2>1. OfVar(v)[1] = "var" /\ OfVar(v)[2] = v /\ Constant[1] = "constant"
    BY DEF OfVar, Constant
  <2> QED  BY <2>1
<1>2. ASSUME NEW n PROVE OfNode(n) # Constant /\ OfNode(n)[1] = "node" /\ OfNode(n)[2] = n
  <2>1. OfNode(n)[1] = "node" /\ OfNode(n)[2] = n /\ Constant[1] = "constant"
    BY DEF OfNode, Constant
  <2> QED  BY <2>1
<1> QED  BY <1>1, <1>2, GraphAssumption

LEMMA TypeOfNode ==
  ASSUME NEW ns, WellBuilt(ns), NEW n \in 1..Len(ns)
  PROVE  /\ n \in 1..MaxNodes /\ MaxNodes \in Nat /\ Len(ns) \in Nat /\ DOMAIN ns = 1..Len(ns)
         /\ ns[n] \in TaskNode /\ \A s \in Slots : ns[n].bound[s] \in Input
         /\ ns[n].parents \subseteq 1..(n - 1)
<1>1. ns \in Seq(TaskNode) /\ Len(ns) <= MaxNodes /\ MaxNodes \in Nat
  BY GraphAssumption DEF WellBuilt
<1>2. ns[n] \in TaskNode /\ n \in 1..MaxNodes
  BY <1>1
<1> QED  BY <1>1, <1>2 DEF TaskNode, WellBuilt, MadeOf

\* It depends on no more than the inputs it is bound to and the values of the
\* parents it is bound to.
LEMMA AppliedSame ==
  ASSUME NEW ns, WellBuilt(ns), NEW n \in 1..Len(ns), NEW more, more[n] = ns[n],
         NEW g, NEW h, NEW x, NEW y,
         \A s \in Slots, v \in Vars : ns[n].bound[s] = OfVar(v) => g[Name[v]] = h[Name[v]],
         \A s \in Slots, p \in ns[n].parents : ns[n].bound[s] = OfNode(p) => x[p] = y[p]
  PROVE  AppliedIn(ns, n, g, x) = AppliedIn(more, n, h, y)
<1> DEFINE Arg(given, values, s) ==
             LET b == ns[n].bound[s]
             IN  IF b \in {Nil, Constant} THEN b
                 ELSE IF b[1] = "var" THEN given[Name[b[2]]] ELSE values[b[2]]
<1>1. ASSUME NEW s \in Slots PROVE Arg(g, x, s) = Arg(h, y, s)
  <2> DEFINE b == ns[n].bound[s]
  <2>1. b \in Input
    BY TypeOfNode
  <2>2. CASE b \in {Nil, Constant}
    BY <2>2
  <2>3. ASSUME NEW v \in Vars, b = OfVar(v) PROVE Arg(g, x, s) = Arg(h, y, s)
    <3>1. b \notin {Nil, Constant} /\ b[1] = "var" /\ b[2] = v
      BY <2>3, InputsDiffer
    <3>2. g[Name[v]] = h[Name[v]]
      BY <2>3
    <3> QED  BY <3>1, <3>2
  <2>4. ASSUME NEW p \in 1..MaxNodes, b = OfNode(p) PROVE Arg(g, x, s) = Arg(h, y, s)
    <3>1. b \notin {Nil, Constant} /\ b[1] # "var" /\ b[2] = p
      BY <2>4, InputsDiffer
    <3>2. p \in ns[n].parents
      BY <2>4 DEF WellBuilt, MadeOf
    <3>3. x[p] = y[p]
      BY <2>4, <3>2
    <3> QED  BY <3>1, <3>3
  <2> QED  BY <2>1, <2>2, <2>3, <2>4 DEF Input
<1>2. /\ AppliedIn(ns, n, g, x) = <<ns[n].func, [s \in Slots |-> Arg(g, x, s)]>>
      /\ AppliedIn(more, n, h, y) = <<ns[n].func, [s \in Slots |-> Arg(h, y, s)]>>
  BY Zenon DEF AppliedIn
<1> HIDE DEF Arg
<1>3. [s \in Slots |-> Arg(g, x, s)] = [s \in Slots |-> Arg(h, y, s)]
  BY <1>1
<1> QED  BY <1>2, <1>3

\* One equation defines the values of all nodes.
ValueEquation(ns, given, f) ==
  f = [k \in DOMAIN ns |-> AppliedIn(ns, k, given, [p \in ns[k].parents |-> f[p]])]

LEMMA ValueSolved ==
  ASSUME NEW ns, WellBuilt(ns), NEW given
  PROVE  \E f : ValueEquation(ns, given, f)
<1> DEFINE L == Len(ns)
           Is(f, j) == AppliedIn(ns, j, given, [p \in ns[j].parents |-> f[p]])
           Solves(f, k) == \A j \in 1..k : f[j] = Is(f, j)
           Solved == {k \in 0..L : \E f : DOMAIN f = 1..k /\ f = [j \in 1..k |-> f[j]] /\ Solves(f, k)}
<1>1. L \in Nat /\ DOMAIN ns = 1..L /\ \A k \in 1..L : ns[k].parents \subseteq 1..(k - 1)
  BY DEF WellBuilt, MadeOf
<1> HIDE DEF L
<1>2. 0 \in Solved
  <2> DEFINE f == [j \in 1..0 |-> {}]
  <2>1. DOMAIN f = 1..0 /\ f = [j \in 1..0 |-> f[j]] /\ Solves(f, 0)
    OBVIOUS
  <2> HIDE DEF f
  <2>2. 0 \in 0..L
    BY <1>1
  <2> QED  BY <2>1, <2>2
<1>3. ASSUME NEW k \in 0..L, k < L, k \in Solved PROVE k + 1 \in Solved
  <2>1. PICK f : DOMAIN f = 1..k /\ f = [j \in 1..k |-> f[j]] /\ Solves(f, k)
    BY <1>3
  <2> DEFINE last == Is(f, k + 1)
             g == [j \in 1..(k + 1) |-> IF j = k + 1 THEN last ELSE f[j]]
  <2>2. k \in Nat /\ k + 1 \in 1..L
    BY <1>1, <1>3
  <2>3. /\ g[k + 1] = last /\ \A j \in 1..k : g[j] = f[j]
        /\ DOMAIN g = 1..(k + 1) /\ g = [j \in 1..(k + 1) |-> g[j]]
    BY <2>2
  <2>4. last = Is(f, k + 1)
    OBVIOUS
  <2> HIDE DEF g, last
  <2>5. ASSUME NEW j \in 1..(k + 1) PROVE g[j] = Is(g, j)
    <3>1. j \in 1..L /\ ns[j].parents \subseteq 1..(j - 1)
      BY <1>1, <2>2
    <3>2. \A p \in ns[j].parents : p \in 1..k
      BY <2>2, <3>1
    <3>3. \A p \in ns[j].parents : g[p] = f[p]
      BY <2>3, <3>2
    <3>4. [p \in ns[j].parents |-> g[p]] = [p \in ns[j].parents |-> f[p]]
      BY <3>3
    <3>5. g[j] = Is(f, j)
      <4>1. CASE j = k + 1
        BY <2>3, <2>4, <4>1
      <4>2. CASE j # k + 1
        <5>1. j \in 1..k
          BY <2>2, <4>2
        <5> QED  BY <2>1, <2>3, <5>1
      <4> QED  BY <4>1, <4>2
    <3>6. Is(f, j) = Is(g, j)
      BY <3>4
    <3> QED  BY <3>5, <3>6
  <2>6. Solves(g, k + 1)
    BY <2>5
  <2>7. k + 1 \in 0..L
    BY <2>2
  <2> HIDE DEF Solves
  <2> QED  BY <2>3, <2>6, <2>7
<1> HIDE DEF Solved
<1>4. 0..L \subseteq Solved
  BY <1>1, <1>2, <1>3, InductionUpTo
<1>5. L \in Solved
  BY <1>1, <1>4
<1>6. PICK f : DOMAIN f = 1..L /\ f = [j \in 1..L |-> f[j]] /\ Solves(f, L)
  BY <1>5 DEF Solved
<1>7. f = [j \in 1..L |-> Is(f, j)]
  <2>1. \A j \in 1..L : f[j] = Is(f, j)
    BY <1>6
  <2> HIDE DEF Is
  <2> QED  BY <1>6, <2>1
<1> QED  BY <1>1, <1>7, Zenon DEF ValueEquation

LEMMA ValueUnfolds ==
  ASSUME NEW ns, WellBuilt(ns), NEW n \in 1..Len(ns), NEW given
  PROVE  ValueOf(ns, n, given)
           = AppliedIn(ns, n, given, [p \in ns[n].parents |-> ValueOf(ns, p, given)])
<1> DEFINE f == CHOOSE f : ValueEquation(ns, given, f)
<1>1. ValueEquation(ns, given, f)
  BY ValueSolved
<1>2. \A m : ValueOf(ns, m, given) = f[m]
  BY Zenon DEF ValueOf, ValueEquation
<1> HIDE DEF f
<1>3. n \in DOMAIN ns
  BY DEF WellBuilt
<1>4. f[n] = AppliedIn(ns, n, given, [p \in ns[n].parents |-> f[p]])
  BY <1>1, <1>3 DEF ValueEquation
<1>5. [p \in ns[n].parents |-> ValueOf(ns, p, given)] = [p \in ns[n].parents |-> f[p]]
  BY <1>2
<1> QED  BY <1>2, <1>4, <1>5

\* A function that is run on the values of the parents returns the value.
LEMMA ValueFromParents ==
  ASSUME NEW ns, WellBuilt(ns), NEW n \in 1..Len(ns), NEW given, NEW x,
         \A s \in Slots, p \in ns[n].parents :
           ns[n].bound[s] = OfNode(p) => x[p] = ValueOf(ns, p, given)
  PROVE  AppliedIn(ns, n, given, x) = ValueOf(ns, n, given)
<1> DEFINE y == [p \in ns[n].parents |-> ValueOf(ns, p, given)]
<1>1. \A s \in Slots, p \in ns[n].parents : ns[n].bound[s] = OfNode(p) => x[p] = y[p]
  OBVIOUS
<1>2. ValueOf(ns, n, given) = AppliedIn(ns, n, given, y)
  BY ValueUnfolds
<1> HIDE DEF y
<1>3. AppliedIn(ns, n, given, x) = AppliedIn(ns, n, given, y)
  BY <1>1, AppliedSame
<1> QED  BY <1>2, <1>3

\* A node that is missing nothing has one value, whatever is given.
LEMMA ValueNeedsNothing ==
  ASSUME NEW ns, WellBuilt(ns), NEW n \in 1..Len(ns),
         \A i \in Names : ns[n].missing[i] = Nil, NEW g, NEW h
  PROVE  ValueOf(ns, n, g) = ValueOf(ns, n, h)
<1> DEFINE L == Len(ns)
           Complete(k) == \A i \in Names : ns[k].missing[i] = Nil
           S == {k \in 1..L : Complete(k) => ValueOf(ns, k, g) = ValueOf(ns, k, h)}
<1>1. L \in Nat /\ n \in 1..L
  BY DEF WellBuilt
<1>2. ASSUME NEW k \in 1..L, \A p \in 1..(k - 1) : p \in S, Complete(k)
      PROVE  ValueOf(ns, k, g) = ValueOf(ns, k, h)
  <2> DEFINE x == [p \in ns[k].parents |-> ValueOf(ns, p, g)]
             y == [p \in ns[k].parents |-> ValueOf(ns, p, h)]
  <2>1. MadeOf(ns, k)
    BY DEF WellBuilt
  <2>2. \A s \in Slots, v \in Vars : ns[k].bound[s] # OfVar(v)
    BY <1>2, <2>1, InputsDiffer DEF MadeOf, Names
  <2>3. \A p \in ns[k].parents : p \in 1..(k - 1) /\ Complete(p)
    BY <1>2, <2>1 DEF MadeOf
  <2>4. \A p \in ns[k].parents : ValueOf(ns, p, g) = ValueOf(ns, p, h)
    BY <1>2, <2>3
  <2>5. \A p \in ns[k].parents : x[p] = y[p]
    BY <2>4
  <2>6. ValueOf(ns, k, g) = AppliedIn(ns, k, g, x) /\ ValueOf(ns, k, h) = AppliedIn(ns, k, h, y)
    BY ValueUnfolds
  <2> HIDE DEF x, y
  <2>7. AppliedIn(ns, k, g, x) = AppliedIn(ns, k, h, y)
    BY <2>2, <2>5, AppliedSame
  <2> QED  BY <2>6, <2>7
<1>3. ASSUME NEW k \in 1..L, \A p \in 1..(k - 1) : p \in S PROVE k \in S
  BY <1>2, <1>3
<1>4. Complete(n)
  OBVIOUS
<1> HIDE DEF S, L
<1>5. 1..L \subseteq S
  BY <1>1, <1>3, InductionOverNodes
<1> QED  BY <1>1, <1>4, <1>5 DEF S

-----------------------------------------------------------------------------
(* The layers.                                                              *)

PlacedEquation(ns, n, f) ==
  f = [k \in 0..MaxNodes |->
         IF k = 0 THEN {}
         ELSE f[k - 1] \cup {m \in AncestorsOf(ns, n) : ns[m].parents \subseteq f[k - 1]}]

LEMMA PlacedSolved ==
  ASSUME NEW ns, NEW n
  PROVE  \E f : PlacedEquation(ns, n, f)
<1> DEFINE S == SUBSET AncestorsOf(ns, n)
           After1(x) == x \cup {m \in AncestorsOf(ns, n) : ns[m].parents \subseteq x}
           step == [k \in 1..MaxNodes |-> [x \in S |-> After1(x)]]
<1>1. MaxNodes \in Nat
  BY GraphAssumption
<1>2. \A x \in S : After1(x) \in S
  OBVIOUS
<1>3. {} \in S
  OBVIOUS
<1> HIDE DEF S, After1
<1>4. step \in [1..MaxNodes -> [S -> S]] /\ \A k \in 1..MaxNodes : \A x \in S : step[k][x] = After1(x)
  BY <1>2
<1> HIDE DEF step
<1>5. PICK f \in [0..MaxNodes -> S] : Iterates(f, MaxNodes, {}, step)
  BY <1>1, <1>3, <1>4, RecursionUpTo
<1>6. f[0] = {} /\ \A k \in 1..MaxNodes : f[k] = After1(f[k - 1])
  <2>1. f[0] = {} /\ \A k \in 1..MaxNodes : f[k] = step[k][f[k - 1]]
    BY <1>5 DEF Iterates
  <2>2. \A k \in 1..MaxNodes : k - 1 \in 0..MaxNodes
    BY <1>1
  <2> QED  BY <1>4, <1>5, <2>1, <2>2
<1>7. f = [k \in 0..MaxNodes |-> IF k = 0 THEN {} ELSE After1(f[k - 1])]
  <2>1. \A k \in 0..MaxNodes : f[k] = IF k = 0 THEN {} ELSE After1(f[k - 1])
    BY <1>1, <1>6
  <2> QED  BY <1>5, <2>1
<1> QED  BY <1>7, Zenon DEF PlacedEquation, After1

LEMMA PlacedUnfolds ==
  ASSUME NEW ns, NEW n
  PROVE  /\ PlacedOf(ns, n)[0] = {}
         /\ \A k \in 1..MaxNodes :
              PlacedOf(ns, n)[k] = PlacedOf(ns, n)[k - 1]
                \cup {m \in AncestorsOf(ns, n) : ns[m].parents \subseteq PlacedOf(ns, n)[k - 1]}
<1> DEFINE f == CHOOSE f : PlacedEquation(ns, n, f)
<1>1. PlacedEquation(ns, n, f)
  BY PlacedSolved
<1>2. PlacedOf(ns, n) = f
  BY Zenon DEF PlacedOf, PlacedEquation
<1> HIDE DEF f
<1>3. \A k \in 0..MaxNodes :
        f[k] = IF k = 0 THEN {}
               ELSE f[k - 1] \cup {m \in AncestorsOf(ns, n) : ns[m].parents \subseteq f[k - 1]}
  BY <1>1 DEF PlacedEquation
<1>4. MaxNodes \in Nat
  BY GraphAssumption
<1>5. f[0] = {}
  <2>1. \A k \in 0..MaxNodes : k = 0 => f[k] = {}
    BY <1>3
  <2>2. 0 \in 0..MaxNodes
    BY <1>4
  <2> QED  BY <2>1, <2>2
<1>6. ASSUME NEW k \in 1..MaxNodes
      PROVE  f[k] = f[k - 1] \cup {m \in AncestorsOf(ns, n) : ns[m].parents \subseteq f[k - 1]}
  <2>1. k \in 0..MaxNodes /\ k # 0
    BY <1>4
  <2> QED  BY <1>3, <2>1
<1> QED  BY <1>2, <1>5, <1>6

\* Only ancestors are placed, and each by the round of its number.
LEMMA PlacedInTime ==
  ASSUME NEW ns, WellBuilt(ns), NEW n \in 1..Len(ns), NEW k \in 0..MaxNodes
  PROVE  /\ PlacedOf(ns, n)[k] \subseteq AncestorsOf(ns, n)
         /\ \A m \in AncestorsOf(ns, n) : m <= k => m \in PlacedOf(ns, n)[k]
<1> DEFINE placed == PlacedOf(ns, n)
           all == AncestorsOf(ns, n)
           In(j) == placed[j] \subseteq all /\ \A m \in all : m <= j => m \in placed[j]
           S == {j \in 0..MaxNodes : In(j)}
<1>1. /\ placed[0] = {}
      /\ \A j \in 1..MaxNodes :
           placed[j] = placed[j - 1] \cup {m \in all : ns[m].parents \subseteq placed[j - 1]}
  BY PlacedUnfolds
<1>2. MaxNodes \in Nat
  BY GraphAssumption
<1>3. \A m \in all : m \in Nat \ {0} /\ ns[m].parents \subseteq all /\ ns[m].parents \subseteq 1..(m - 1)
  BY AncestorsOfAncestors DEF WellBuilt, MadeOf
<1> HIDE DEF placed, all
<1>4. 0 \in S
  BY <1>1, <1>2, <1>3
<1>5. ASSUME NEW j \in 0..MaxNodes, j < MaxNodes, j \in S PROVE j + 1 \in S
  <2>1. j \in Nat /\ j + 1 \in 1..MaxNodes /\ (j + 1) - 1 = j /\ In(j) /\ j + 1 \in 0..MaxNodes
    BY <1>2, <1>5
  <2>2. placed[j + 1] = placed[j] \cup {m \in all : ns[m].parents \subseteq placed[j]}
    BY <1>1, <2>1
  <2>3. ASSUME NEW m \in all, m <= j + 1 PROVE m \in placed[j + 1]
    <3>1. \A p \in ns[m].parents : p \in all /\ p <= j
      BY <1>3, <2>1, <2>3
    <3>2. ns[m].parents \subseteq placed[j]
      BY <2>1, <3>1
    <3> QED  BY <2>2, <3>2
  <2>4. placed[j + 1] \subseteq all
    BY <2>1, <2>2
  <2> QED  BY <2>1, <2>3, <2>4
<1> HIDE DEF S
<1>6. 0..MaxNodes \subseteq S
  BY <1>2, <1>4, <1>5, InductionUpTo
<1> QED  BY <1>6 DEF S, placed, all

-----------------------------------------------------------------------------
(* A graph that grows.                                                      *)

Grown(ns, more) ==
  /\ WellBuilt(ns) /\ WellBuilt(more) /\ Len(ns) <= Len(more)
  /\ \A k \in 1..Len(ns) : more[k] = ns[k]

LEMMA AncestorsStay ==
  ASSUME NEW ns, NEW more, Grown(ns, more), NEW n \in 1..Len(ns)
  PROVE  AncestorsOf(more, n) = AncestorsOf(ns, n)
<1> DEFINE L == Len(ns)
           S == {k \in 1..L : AncestorsOf(more, k) = AncestorsOf(ns, k)}
<1>1. /\ L \in Nat /\ n \in 1..L
      /\ \A k \in 1..L : k \in 1..Len(more) /\ more[k] = ns[k] /\ ns[k].parents \subseteq 1..(k - 1)
  BY DEF WellBuilt, MadeOf, Grown
<1>2. \A k \in 1..L :
        /\ AncestorsOf(ns, k) = {k} \cup UNION {AncestorsOf(ns, p) : p \in ns[k].parents}
        /\ AncestorsOf(more, k) = {k} \cup UNION {AncestorsOf(more, p) : p \in more[k].parents}
  BY <1>1, AncestorsUnfold DEF Grown
<1> HIDE DEF L
<1>3. ASSUME NEW k \in 1..L, \A p \in 1..(k - 1) : p \in S PROVE k \in S
  <2>1. \A p \in ns[k].parents : AncestorsOf(more, p) = AncestorsOf(ns, p)
    BY <1>1, <1>3
  <2>2. more[k].parents = ns[k].parents
    BY <1>1
  <2>3. {AncestorsOf(more, p) : p \in more[k].parents} = {AncestorsOf(ns, p) : p \in ns[k].parents}
    BY <2>1, <2>2
  <2>4. AncestorsOf(more, k) = AncestorsOf(ns, k)
    BY <1>2, <2>3
  <2> QED  BY <2>4
<1> HIDE DEF S
<1>4. 1..L \subseteq S
  BY <1>1, <1>3, InductionOverNodes
<1> QED  BY <1>1, <1>4 DEF S

LEMMA ValueStays ==
  ASSUME NEW ns, NEW more, Grown(ns, more), NEW n \in 1..Len(ns), NEW given
  PROVE  ValueOf(more, n, given) = ValueOf(ns, n, given)
<1> DEFINE L == Len(ns)
           S == {k \in 1..L : ValueOf(more, k, given) = ValueOf(ns, k, given)}
<1>1. /\ L \in Nat /\ n \in 1..L
      /\ \A k \in 1..L : k \in 1..Len(more) /\ more[k] = ns[k] /\ ns[k].parents \subseteq 1..(k - 1)
  BY DEF WellBuilt, MadeOf, Grown
<1>2. ASSUME NEW k \in 1..L, \A p \in 1..(k - 1) : p \in S PROVE k \in S
  <2> DEFINE x == [p \in ns[k].parents |-> ValueOf(ns, p, given)]
             y == [p \in more[k].parents |-> ValueOf(more, p, given)]
  <2>1. more[k] = ns[k] /\ \A p \in ns[k].parents : ValueOf(more, p, given) = ValueOf(ns, p, given)
    BY <1>1, <1>2
  <2>2. x = y
    BY <2>1
  <2>3. ValueOf(ns, k, given) = AppliedIn(ns, k, given, x)
    BY ValueUnfolds DEF Grown
  <2>4. ValueOf(more, k, given) = AppliedIn(more, k, given, y)
    BY <1>1, ValueUnfolds DEF Grown
  <2> HIDE DEF x, y
  <2>5. AppliedIn(ns, k, given, x) = AppliedIn(more, k, given, y)
    BY <2>1, <2>2, AppliedSame DEF Grown
  <2> QED  BY <2>3, <2>4, <2>5
<1> HIDE DEF S, L
<1>3. 1..L \subseteq S
  BY <1>1, <1>2, InductionOverNodes
<1> QED  BY <1>1, <1>3 DEF S

LEMMA PlacedStays ==
  ASSUME NEW ns, NEW more, Grown(ns, more), NEW n \in 1..Len(ns), NEW k \in 0..MaxNodes
  PROVE  PlacedOf(more, n)[k] = PlacedOf(ns, n)[k]
<1> DEFINE old == PlacedOf(ns, n)
           new == PlacedOf(more, n)
           all == AncestorsOf(ns, n)
           S == {j \in 0..MaxNodes : new[j] = old[j]}
<1>1. /\ old[0] = {} /\ new[0] = {}
      /\ \A j \in 1..MaxNodes :
           /\ old[j] = old[j - 1] \cup {m \in all : ns[m].parents \subseteq old[j - 1]}
           /\ new[j] = new[j - 1] \cup {m \in AncestorsOf(more, n) : more[m].parents \subseteq new[j - 1]}
  BY PlacedUnfolds
<1>2. AncestorsOf(more, n) = all
  BY AncestorsStay
<1>3. \A m \in all : more[m] = ns[m]
  BY AncestorsOfAncestors DEF Grown
<1>4. MaxNodes \in Nat
  BY GraphAssumption
<1> HIDE DEF old, new, all
<1>5. 0 \in S
  <2>1. 0 \in 0..MaxNodes
    BY <1>4
  <2>2. new[0] = old[0]
    BY <1>1
  <2> QED  BY <2>1, <2>2
<1>6. ASSUME NEW j \in 0..MaxNodes, j < MaxNodes, j \in S PROVE j + 1 \in S
  <2>1. j \in Nat /\ j + 1 \in 1..MaxNodes /\ (j + 1) - 1 = j /\ new[j] = old[j] /\ j + 1 \in 0..MaxNodes
    BY <1>4, <1>6
  <2>2. {m \in all : more[m].parents \subseteq old[j]} = {m \in all : ns[m].parents \subseteq old[j]}
    BY <1>3
  <2>3. /\ old[j + 1] = old[j] \cup {m \in all : ns[m].parents \subseteq old[j]}
        /\ new[j + 1] = new[j] \cup {m \in all : more[m].parents \subseteq new[j]}
    BY <1>1, <1>2, <2>1
  <2>4. new[j + 1] = old[j + 1]
    BY <2>1, <2>2, <2>3
  <2> QED  BY <2>1, <2>4
<1> HIDE DEF S
<1>7. 0..MaxNodes \subseteq S
  BY <1>4, <1>5, <1>6, InductionUpTo
<1> QED  BY <1>7 DEF S, old, new

-----------------------------------------------------------------------------
(* The invariant.                                                           *)

Complete(ns, n) == \A i \in Names : ns[n].missing[i] = Nil

BoundBefore(ns, n) == \A m \in AncestorsOf(ns, n) : ~ns[m].anew

\* What a node keeps and others may reuse is its value, whatever is given.
ResultsKept(ns, done, kept) ==
  \A n \in 1..Len(ns) :
    done[n] /\ Complete(ns, n) /\ BoundBefore(ns, n)
      => \A given : kept[n] = ValueOf(ns, n, given)

AllFields(r) ==
  [at |-> r.at, root |-> r.root, given |-> r.given, layer |-> r.layer, cached |-> r.cached,
   todo |-> r.todo, results |-> r.results, lazy |-> r.lazy, end |-> r.end, runs |-> r.runs]

\* Of a layer, what has no result is to be reused or run, and what comes before
\* it has one.
InLayer(ns, r) ==
  LET placed == PlacedOf(ns, r.root)
  IN  /\ r.layer \in 1..MaxNodes
      /\ r.cached \cup r.todo \subseteq placed[r.layer] \ placed[r.layer - 1]
      /\ placed[r.layer - 1] \subseteq DOMAIN r.results
      /\ placed[r.layer] \subseteq DOMAIN r.results \cup r.cached \cup r.todo

OwnResults(ns, r) ==
  \A n \in DOMAIN r.results : BoundBefore(ns, n) => r.results[n] = ValueOf(ns, n, r.given)

ExecutionInv(ns, done, r) ==
  /\ r = AllFields(r)
  /\ r.at # "idle" => /\ r.root \in 1..Len(ns)
                      /\ \A i \in Names : ns[r.root].missing[i] # Nil => i \in DOMAIN r.given
  /\ r.lazy \subseteq DOMAIN r.results /\ DOMAIN r.results \subseteq 1..Len(ns)
  /\ \A n \in r.cached : n \in 1..Len(ns) /\ done[n] /\ Complete(ns, n)
  /\ r.at = "layer" => InLayer(ns, r)
  /\ r.at = "keep" => r.root \in DOMAIN r.results
  /\ r.at = "raised" => r.end \notin {"input", "parent"}
  /\ OwnResults(ns, r)

KeptInv ==
  /\ executed \in [1..Len(nodes) -> BOOLEAN] /\ result = [n \in 1..Len(nodes) |-> result[n]]
  /\ ResultsKept(nodes, executed, result)

RunsInv ==
  /\ run = [t \in Threads |-> run[t]]
  /\ \A t \in Threads : ExecutionInv(nodes, executed, run[t])

GraphInv == WellBuilt(nodes) /\ KeptInv /\ RunsInv

LEMMA AppendTo ==
  ASSUME NEW n \in Nat, NEW s, s = [i \in 1..n |-> s[i]], NEW e
  PROVE  Append(s, e) = [i \in 1..(n + 1) |-> IF i <= n THEN s[i] ELSE e]
<1> DEFINE S == {s[i] : i \in 1..n} \cup {e}
           f == [i \in 1..(n + 1) |-> IF i <= n THEN s[i] ELSE e]
<1>1. s \in [1..n -> S] /\ e \in S
  OBVIOUS
<1> HIDE DEF S
<1>2. s \in Seq(S) /\ Len(s) = n
  BY <1>1
<1>3. /\ Append(s, e) \in Seq(S) /\ Len(Append(s, e)) = n + 1 /\ Append(s, e)[n + 1] = e
      /\ \A i \in 1..n : Append(s, e)[i] = s[i]
  BY <1>1, <1>2
<1>4. DOMAIN Append(s, e) = 1..(n + 1) /\ Append(s, e) = [i \in 1..(n + 1) |-> Append(s, e)[i]]
  BY <1>3
<1>5. \A i \in 1..(n + 1) : Append(s, e)[i] = f[i]
  BY <1>3
<1> QED  BY <1>4, <1>5

\* The graph with one more node.
LEMMA GrownByOne ==
  ASSUME NEW ns, WellBuilt(ns), Len(ns) < MaxNodes, NEW node \in TaskNode,
         NEW more, more = Append(ns, node), MadeOf(more, Len(ns) + 1)
  PROVE  /\ Grown(ns, more) /\ Len(more) = Len(ns) + 1 /\ Len(ns) \in Nat
         /\ more[Len(ns) + 1] = node
<1> DEFINE L == Len(ns)
<1>1. ns \in Seq(TaskNode) /\ L \in Nat /\ L < MaxNodes /\ MaxNodes \in Nat
  BY GraphAssumption DEF WellBuilt
<1>2. /\ more \in Seq(TaskNode) /\ Len(more) = L + 1 /\ more[L + 1] = node
      /\ \A k \in 1..L : more[k] = ns[k]
  BY <1>1
<1>3. MadeOf(more, L + 1) /\ \A k \in 1..L : MadeOf(ns, k)
  BY DEF WellBuilt
<1> HIDE DEF L
<1>4. ASSUME NEW k \in 1..L PROVE MadeOf(more, k)
  <2>1. MadeOf(ns, k) /\ more[k] = ns[k]
    BY <1>2, <1>3
  <2>2. \A p \in ns[k].parents : p \in 1..L /\ more[p] = ns[p]
    BY <1>1, <1>2, <2>1 DEF MadeOf
  <2>3. more[k].parents \subseteq 1..(k - 1)
    BY <2>1 DEF MadeOf
  <2>4. /\ \A s \in Slots, m \in 1..MaxNodes : more[k].bound[s] = OfNode(m) => m \in more[k].parents
        /\ \A s \in Slots, v \in Vars : more[k].bound[s] = OfVar(v) => more[k].missing[Name[v]] = v
    BY <2>1 DEF MadeOf
  <2>5. \A p \in more[k].parents, i \in Names :
          more[p].missing[i] # Nil => more[k].missing[i] # Nil
    <3> TAKE p \in more[k].parents, i \in Names
    <3>1. p \in ns[k].parents /\ more[p] = ns[p]
      BY <2>1, <2>2
    <3>2. ns[p].missing[i] # Nil => ns[k].missing[i] # Nil
      BY <2>1, <3>1 DEF MadeOf
    <3> QED  BY <2>1, <3>1, <3>2
  <2> QED  BY <2>3, <2>4, <2>5, Zenon DEF MadeOf
<1>5. \A k \in 1..(L + 1) : k \in 1..L \/ k = L + 1
  BY <1>1
<1>6. \A k \in 1..Len(more) : MadeOf(more, k)
  BY <1>2, <1>3, <1>4, <1>5
<1>7. Len(more) <= MaxNodes /\ L <= Len(more)
  BY <1>1, <1>2
<1>8. WellBuilt(more)
  BY <1>2, <1>6, <1>7 DEF WellBuilt
<1> QED  BY <1>1, <1>2, <1>7, <1>8 DEF Grown, L

\* It changes nothing of what was there.
LEMMA StaysInGrown ==
  ASSUME NEW ns, NEW more, Grown(ns, more), NEW n \in 1..Len(ns)
  PROVE  /\ n \in 1..Len(more) /\ more[n] = ns[n]
         /\ Complete(more, n) <=> Complete(ns, n)
         /\ BoundBefore(more, n) <=> BoundBefore(ns, n)
<1>1. more[n] = ns[n] /\ n \in 1..Len(more)
  BY DEF Grown, WellBuilt
<1>2. AncestorsOf(more, n) = AncestorsOf(ns, n)
  BY AncestorsStay
<1>3. \A m \in AncestorsOf(ns, n) : more[m] = ns[m]
  BY AncestorsOfAncestors DEF Grown
<1> QED  BY <1>1, <1>2, <1>3 DEF Complete, BoundBefore

LEMMA ExecutionInGrown ==
  ASSUME NEW ns, NEW more, Grown(ns, more), NEW done, NEW finished,
         \A n \in 1..Len(ns) : finished[n] = done[n], NEW r, ExecutionInv(ns, done, r)
  PROVE  ExecutionInv(more, finished, r)
<1>1. /\ r = AllFields(r)
      /\ r.at # "idle" => /\ r.root \in 1..Len(ns)
                          /\ \A i \in Names : ns[r.root].missing[i] # Nil => i \in DOMAIN r.given
      /\ r.lazy \subseteq DOMAIN r.results /\ DOMAIN r.results \subseteq 1..Len(ns)
      /\ \A n \in r.cached : n \in 1..Len(ns) /\ done[n] /\ Complete(ns, n)
      /\ r.at = "layer" => InLayer(ns, r)
      /\ r.at = "keep" => r.root \in DOMAIN r.results
      /\ r.at = "raised" => r.end \notin {"input", "parent"}
      /\ OwnResults(ns, r)
  BY DEF ExecutionInv
<1>2. \A n \in 1..Len(ns) : n \in 1..Len(more) /\ more[n] = ns[n]
  BY StaysInGrown
<1>3. r.at # "idle" => /\ r.root \in 1..Len(more)
                       /\ \A i \in Names : more[r.root].missing[i] # Nil => i \in DOMAIN r.given
  BY <1>1, <1>2
<1>4. DOMAIN r.results \subseteq 1..Len(more)
  BY <1>1, <1>2
<1>5. \A n \in r.cached : n \in 1..Len(more) /\ finished[n] /\ Complete(more, n)
  BY <1>1, StaysInGrown
<1>6. r.at = "layer" => InLayer(more, r)
  <2> SUFFICES ASSUME r.at = "layer" PROVE InLayer(more, r)
    OBVIOUS
  <2>1. InLayer(ns, r) /\ r.root \in 1..Len(ns)
    BY <1>1
  <2>2. MaxNodes \in Nat /\ r.layer \in 1..MaxNodes
    BY <2>1, GraphAssumption DEF InLayer
  <2>3. r.layer \in 0..MaxNodes /\ r.layer - 1 \in 0..MaxNodes
    BY <2>2
  <2>4. /\ PlacedOf(more, r.root)[r.layer] = PlacedOf(ns, r.root)[r.layer]
        /\ PlacedOf(more, r.root)[r.layer - 1] = PlacedOf(ns, r.root)[r.layer - 1]
    BY <2>1, <2>3, PlacedStays
  <2> QED  BY <2>1, <2>4 DEF InLayer
<1>7. OwnResults(more, r)
  <2>1. ASSUME NEW n \in DOMAIN r.results, BoundBefore(more, n)
        PROVE  r.results[n] = ValueOf(more, n, r.given)
    <3>1. n \in 1..Len(ns) /\ BoundBefore(ns, n)
      BY <1>1, <2>1, StaysInGrown
    <3>2. r.results[n] = ValueOf(ns, n, r.given)
      BY <1>1, <3>1 DEF OwnResults
    <3> QED  BY <3>1, <3>2, ValueStays
  <2> QED  BY <2>1 DEF OwnResults
<1> QED  BY <1>1, <1>3, <1>4, <1>5, <1>6, <1>7 DEF ExecutionInv

\* Making a node preserves the invariant, if what it has executed with nothing
\* missing is told by its mark.
LEMMA MadeKeeps ==
  ASSUME GraphInv, NEW node \in TaskNode, NEW done \in BOOLEAN, NEW value,
         Made(node, done, value), MadeOf(Append(nodes, node), Len(nodes) + 1),
         done /\ (\A i \in Names : node.missing[i] = Nil) => node.anew
  PROVE  GraphInv'
<1> DEFINE L == Len(nodes)
<1>1. /\ Len(nodes) < MaxNodes /\ nodes' = Append(nodes, node)
      /\ executed' = Append(executed, done) /\ result' = Append(result, value) /\ run' = run
  BY DEF Made
<1>2. /\ Grown(nodes, nodes') /\ Len(nodes') = L + 1 /\ L \in Nat /\ nodes'[L + 1] = node
  BY <1>1, GrownByOne DEF GraphInv
<1>3. KeptInv /\ RunsInv
  BY DEF GraphInv
<1>4. \A k \in 1..(L + 1) : k \in 1..L \/ k = L + 1
  BY <1>2
<1>5. /\ executed' \in [1..(L + 1) -> BOOLEAN] /\ executed'[L + 1] = done
      /\ \A k \in 1..L : executed'[k] = executed[k]
  <2>1. executed \in [1..L -> BOOLEAN] /\ executed = [i \in 1..L |-> executed[i]]
    BY <1>3 DEF KeptInv
  <2>2. executed' = [i \in 1..(L + 1) |-> IF i <= L THEN executed[i] ELSE done]
    BY <1>1, <1>2, <2>1, AppendTo
  <2> QED  BY <1>2, <2>1, <2>2
<1>6. /\ result' = [i \in 1..(L + 1) |-> result'[i]]
      /\ \A k \in 1..L : result'[k] = result[k]
  <2>1. result = [i \in 1..L |-> result[i]]
    BY <1>3 DEF KeptInv
  <2>2. result' = [i \in 1..(L + 1) |-> IF i <= L THEN result[i] ELSE value]
    BY <1>1, <1>2, <2>1, AppendTo
  <2> QED  BY <1>2, <2>2
<1>7. ResultsKept(nodes', executed', result')
  <2>1. ASSUME NEW n \in 1..(L + 1), executed'[n], Complete(nodes', n), BoundBefore(nodes', n), NEW given
        PROVE  result'[n] = ValueOf(nodes', n, given)
    <3>1. CASE n \in 1..L
      <4>1. executed[n] /\ Complete(nodes, n) /\ BoundBefore(nodes, n)
        BY <1>2, <1>5, <2>1, <3>1, StaysInGrown
      <4>2. result[n] = ValueOf(nodes, n, given)
        BY <1>3, <3>1, <4>1 DEF KeptInv, ResultsKept
      <4>3. ValueOf(nodes', n, given) = ValueOf(nodes, n, given)
        BY <1>2, <3>1, ValueStays
      <4> QED  BY <1>6, <3>1, <4>2, <4>3
    <3>2. CASE n = L + 1
      <4>1. n \in AncestorsOf(nodes', n)
        BY <1>2, <2>1, AncestorsAreBefore DEF Grown
      <4>2. ~nodes'[n].anew
        BY <2>1, <4>1 DEF BoundBefore
      <4>3. done /\ \A i \in Names : node.missing[i] = Nil
        BY <1>2, <1>5, <2>1, <3>2 DEF Complete
      <4>4. node.anew
        BY <4>3
      <4> QED  BY <1>2, <3>2, <4>2, <4>4
    <3> QED  BY <1>4, <2>1, <3>1, <3>2
  <2> QED  BY <1>2, <2>1 DEF ResultsKept
<1>8. RunsInv'
  <2>1. ASSUME NEW t \in Threads PROVE ExecutionInv(nodes', executed', run[t])
    <3>1. ExecutionInv(nodes, executed, run[t])
      BY <1>3 DEF RunsInv
    <3> QED  BY <1>2, <1>5, <3>1, ExecutionInGrown
  <2> QED  BY <1>1, <1>3, <2>1 DEF RunsInv
<1>9. KeptInv'
  BY <1>2, <1>5, <1>6, <1>7 DEF KeptInv
<1> QED  BY <1>2, <1>8, <1>9 DEF GraphInv, Grown

-----------------------------------------------------------------------------
(* Building a graph.                                                        *)

LEMMA MakeNodeKeeps ==
  ASSUME GraphInv, MakeNode
  PROVE  GraphInv'
<1>1. PICK lazy \in BOOLEAN :
        Made([func |-> Len(nodes) + 1, lazy |-> lazy, bound |-> [s \in Slots |-> Nil],
              parents |-> {}, missing |-> [i \in Names |-> Nil], anew |-> FALSE], FALSE, Nil)
  BY DEF MakeNode
<1> DEFINE node == [func |-> Len(nodes) + 1, lazy |-> lazy, bound |-> [s \in Slots |-> Nil],
                    parents |-> {}, missing |-> [i \in Names |-> Nil], anew |-> FALSE]
           more == Append(nodes, node)
           new == Len(nodes) + 1
<1>2. Made(node, FALSE, Nil)
  BY <1>1
<1>3. /\ node \in TaskNode /\ node.parents = {}
      /\ \A s \in Slots : node.bound[s] = Nil
  <2>1. Len(nodes) + 1 \in Nat /\ Nil \in Input
    BY DEF GraphInv, WellBuilt, Input
  <2> QED  BY <2>1 DEF TaskNode
<1> HIDE DEF node
<1>4. more[new] = node
  BY <1>3 DEF GraphInv, WellBuilt
<1> HIDE DEF more, new
<1>5. MadeOf(more, new)
  <2>1. more[new].parents = {} /\ \A s \in Slots : more[new].bound[s] = Nil
    BY <1>3, <1>4
  <2> QED  BY <2>1, GraphAssumption DEF MadeOf
<1> QED  BY <1>2, <1>3, <1>5, MadeKeeps DEF more, new

\* What bind accepts.
Bindable(ns) == {Constant} \cup {OfVar(v) : v \in Vars} \cup {OfNode(m) : m \in 1..Len(ns)}

LEMMA NeedsOf ==
  ASSUME GraphInv, NEW value \in Bindable(nodes)
  PROVE  /\ value \in Input /\ Needs(value) \in [Names -> Vars \cup {Nil}]
         /\ \A v \in Vars : value = OfVar(v) => Needs(value)[Name[v]] = v
         /\ \A m \in 1..MaxNodes : value = OfNode(m) => m \in 1..Len(nodes) /\ Needs(value) = nodes[m].missing
<1>0. Len(nodes) \in Nat /\ Len(nodes) <= MaxNodes /\ MaxNodes \in Nat /\ WellBuilt(nodes)
  BY GraphAssumption DEF GraphInv, WellBuilt
<1>1. CASE value = Constant
  <2>1. Constant # OfVar(1) /\ \A v : Constant # OfVar(v) /\ Constant # OfNode(v)
    <3>1. \A v : OfVar(v)[1] = "var" /\ OfNode(v)[1] = "node" /\ Constant[1] = "constant"
      BY DEF OfVar, OfNode, Constant
    <3> QED  BY <3>1
  <2>2. value[1] = "constant"
    BY <1>1 DEF Constant
  <2>3. Needs(value) = [i \in Names |-> Nil]
    BY <1>1, <2>2 DEF Needs
  <2> QED  BY <1>1, <2>1, <2>3 DEF Input
<1>2. ASSUME NEW v \in Vars, value = OfVar(v)
      PROVE  /\ value \in Input /\ Needs(value) \in [Names -> Vars \cup {Nil}]
             /\ \A w \in Vars : value = OfVar(w) => Needs(value)[Name[w]] = w
             /\ \A m \in 1..MaxNodes : value # OfNode(m)
  <2>1. value # Constant /\ value[1] = "var" /\ value[2] = v
    BY <1>2, InputsDiffer
  <2>2. Needs(value) = [i \in Names |-> IF i = Name[v] THEN v ELSE Nil]
    BY <2>1 DEF Needs
  <2>3. \A w \in Vars : value = OfVar(w) => w = v
    BY <2>1, InputsDiffer
  <2>4. Name[v] \in Names
    BY DEF Names
  <2>5. \A m \in 1..MaxNodes : value # OfNode(m)
    BY <2>1, InputsDiffer
  <2>6. value \in Input
    BY <1>2 DEF Input
  <2> QED  BY <2>2, <2>3, <2>4, <2>5, <2>6
<1>3. ASSUME NEW m \in 1..Len(nodes), value = OfNode(m)
      PROVE  /\ value \in Input /\ Needs(value) \in [Names -> Vars \cup {Nil}]
             /\ \A w \in Vars : value # OfVar(w)
             /\ \A k \in 1..MaxNodes : value = OfNode(k) => k \in 1..Len(nodes) /\ Needs(value) = nodes[k].missing
  <2>0. m \in 1..MaxNodes
    BY <1>0
  <2>1. value # Constant /\ value[1] = "node" /\ value[2] = m
    BY <1>3, <2>0, InputsDiffer
  <2>2. Needs(value) = nodes[m].missing
    BY <2>1 DEF Needs
  <2>3. \A k \in 1..MaxNodes : value = OfNode(k) => k = m
    BY <2>1, InputsDiffer
  <2>4. nodes[m].missing \in [Names -> Vars \cup {Nil}]
    BY <1>0, TypeOfNode DEF TaskNode
  <2>5. \A w \in Vars : value # OfVar(w)
    BY <2>1, InputsDiffer
  <2>6. value \in Input
    BY <1>3, <2>0 DEF Input
  <2> QED  BY <2>2, <2>3, <2>4, <2>5, <2>6
<1> QED  BY <1>1, <1>2, <1>3 DEF Bindable

\* What is missed stays missed, and what the value needs is added.
LEMMA MergedKeeps ==
  ASSUME GraphInv, NEW value \in Bindable(nodes), NEW missing \in [Names -> Vars \cup {Nil}],
         ~Conflict(missing, value)
  PROVE  /\ Merged(missing, value) \in [Names -> Vars \cup {Nil}]
         /\ \A i \in Names : missing[i] # Nil => Merged(missing, value)[i] = missing[i]
         /\ \A i \in Names : Needs(value)[i] # Nil => Merged(missing, value)[i] = Needs(value)[i]
<1>1. Needs(value) \in [Names -> Vars \cup {Nil}]
  BY NeedsOf
<1>2. \A i \in Names : missing[i] # Nil => Needs(value)[i] \in {Nil, missing[i]}
  BY DEF Conflict
<1> QED  BY <1>1, <1>2 DEF Merged

LEMMA BindKeeps ==
  ASSUME GraphInv, NEW n \in Node, NEW s \in Slots, NEW value \in Bindable(nodes),
         Bind(n, s, value)
  PROVE  GraphInv'
<1> DEFINE old == nodes[n]
           missing == Merged(old.missing, value)
           bound == [old.bound EXCEPT ![s] = value]
           parents == old.parents \cup IF value[1] = "node" THEN {value[2]} ELSE {}
           anew == executed[n] /\ \A i \in Names : missing[i] = Nil
           node == [func |-> old.func, lazy |-> old.lazy, bound |-> bound, parents |-> parents,
                    missing |-> missing, anew |-> anew]
           L == Len(nodes)
           more == Append(nodes, node)
<1>1. /\ L \in Nat /\ L <= MaxNodes /\ MaxNodes \in Nat /\ n \in 1..L /\ WellBuilt(nodes)
      /\ old \in TaskNode /\ MadeOf(nodes, n) /\ executed[n] \in BOOLEAN
  BY TypeOfNode, GraphAssumption DEF GraphInv, KeptInv, Node, WellBuilt
<1>2. Made(node, executed[n], result[n]) /\ ~Conflict(old.missing, value)
  BY Zenon DEF Bind
<1>3. /\ value \in Input
      /\ \A v \in Vars : value = OfVar(v) => Needs(value)[Name[v]] = v
      /\ \A m \in 1..MaxNodes : value = OfNode(m) => m \in 1..L /\ Needs(value) = nodes[m].missing
  BY NeedsOf
<1>4. /\ missing \in [Names -> Vars \cup {Nil}]
      /\ \A i \in Names : old.missing[i] # Nil => missing[i] = old.missing[i]
      /\ \A i \in Names : Needs(value)[i] # Nil => missing[i] = Needs(value)[i]
  <2>1. old.missing \in [Names -> Vars \cup {Nil}]
    BY <1>1 DEF TaskNode
  <2> QED  BY <1>2, <2>1, MergedKeeps
<1>5. /\ bound \in [Slots -> Input] /\ bound[s] = value
      /\ \A r \in Slots : r # s => bound[r] = old.bound[r]
  BY <1>1, <1>3 DEF TaskNode
<1>6. /\ old.parents \subseteq parents /\ parents \subseteq 1..L
      /\ \A p \in parents : p \in old.parents \/ value = OfNode(p)
      /\ \A m \in 1..MaxNodes : value = OfNode(m) => m \in parents
  <2>1. old.parents \subseteq 1..L
    BY <1>1 DEF MadeOf
  <2>2. ASSUME NEW m \in 1..L, value = OfNode(m)
        PROVE  parents = old.parents \cup {m}
    BY <1>1, <2>2, InputsDiffer
  <2>3. CASE value = Constant \/ \E v \in Vars : value = OfVar(v)
    <3>1. value[1] # "node"
      BY <2>3, InputsDiffer DEF Constant
    <3>2. \A m \in 1..MaxNodes : value # OfNode(m)
      BY <3>1, InputsDiffer
    <3>3. parents = old.parents
      BY <3>1
    <3> QED  BY <2>1, <3>2, <3>3
  <2>4. ASSUME NEW m \in 1..L, value = OfNode(m)
        PROVE  /\ old.parents \subseteq parents /\ parents \subseteq 1..L
               /\ \A p \in parents : p \in old.parents \/ value = OfNode(p)
               /\ \A k \in 1..MaxNodes : value = OfNode(k) => k \in parents
    <3>1. \A k \in 1..MaxNodes : value = OfNode(k) => k = m
      <4>1. m \in 1..MaxNodes
        BY <1>1
      <4>2. value[2] = m /\ \A k \in 1..MaxNodes : OfNode(k)[2] = k
        BY <2>4, <4>1, InputsDiffer
      <4> QED  BY <4>2
    <3>2. parents = old.parents \cup {m}
      BY <2>2, <2>4
    <3> HIDE DEF parents
    <3> QED  BY <2>1, <2>4, <3>1, <3>2
  <2> QED  BY <2>3, <2>4 DEF Bindable
<1>7. anew \in BOOLEAN
  BY <1>1
<1>10. /\ node \in TaskNode /\ node.bound = bound /\ node.parents = parents
       /\ node.missing = missing /\ node.anew = anew
  <2>1. old.func \in Nat /\ old.lazy \in BOOLEAN /\ parents \in SUBSET Nat
    BY <1>1, <1>6 DEF TaskNode
  <2> HIDE DEF parents, bound, missing, anew
  <2> QED  BY <1>4, <1>5, <1>7, <2>1 DEF TaskNode
<1>11. executed[n] /\ (\A i \in Names : node.missing[i] = Nil) => node.anew
  <2>1. executed[n] /\ (\A i \in Names : missing[i] = Nil) => anew
    OBVIOUS
  <2> HIDE DEF anew, missing, node
  <2> QED  BY <1>10, <2>1
<1> HIDE DEF node, bound, parents, missing, anew
<1>12. more[L + 1] = node /\ \A k \in 1..L : more[k] = nodes[k]
  BY <1>1, <1>10 DEF WellBuilt
<1> HIDE DEF more
<1>13. MadeOf(more, L + 1)
  <2>1. more[L + 1].parents \subseteq 1..((L + 1) - 1)
    <3>1. (L + 1) - 1 = L /\ more[L + 1].parents = parents
      BY <1>1, <1>10, <1>12
    <3> HIDE DEF L
    <3>2. parents \subseteq 1..L
      BY <1>6
    <3> QED  BY <3>1, <3>2
  <2>2. ASSUME NEW r \in Slots, NEW m \in 1..MaxNodes, bound[r] = OfNode(m)
        PROVE  m \in parents
    <3>1. CASE r = s
      BY <1>5, <1>6, <2>2, <3>1
    <3>2. CASE r # s
      <4>1. old.bound[r] = OfNode(m)
        BY <1>5, <2>2, <3>2
      <4> QED  BY <1>1, <1>6, <4>1 DEF MadeOf
    <3> QED  BY <3>1, <3>2
  <2>3. ASSUME NEW r \in Slots, NEW v \in Vars, bound[r] = OfVar(v)
        PROVE  missing[Name[v]] = v
    <3>1. Name[v] \in Names /\ v # Nil
      BY GraphAssumption DEF Names
    <3>2. CASE r = s
      <4>1. Needs(value)[Name[v]] = v
        BY <1>3, <1>5, <2>3, <3>2
      <4> QED  BY <1>4, <3>1, <4>1
    <3>3. CASE r # s
      <4>1. old.missing[Name[v]] = v
        BY <1>1, <1>5, <2>3, <3>3 DEF MadeOf
      <4> QED  BY <1>4, <3>1, <4>1
    <3> QED  BY <3>2, <3>3
  <2>4. ASSUME NEW p \in parents, NEW i \in Names, nodes[p].missing[i] # Nil
        PROVE  missing[i] # Nil
    <3>1. CASE p \in old.parents
      <4>1. old.missing[i] # Nil
        BY <1>1, <2>4, <3>1 DEF MadeOf
      <4> QED  BY <1>4, <4>1
    <3>2. CASE value = OfNode(p)
      <4>1. p \in 1..MaxNodes
        BY <1>1, <1>6
      <4>2. Needs(value)[i] = nodes[p].missing[i]
        BY <1>3, <3>2, <4>1
      <4> QED  BY <1>4, <2>4, <4>2
    <3> QED  BY <1>6, <2>4, <3>1, <3>2
  <2>5. \A p \in parents : more[p] = nodes[p]
    BY <1>6, <1>12
  <2>6. /\ \A r \in Slots, m \in 1..MaxNodes :
             more[L + 1].bound[r] = OfNode(m) => m \in more[L + 1].parents
        /\ \A r \in Slots, v \in Vars :
             more[L + 1].bound[r] = OfVar(v) => more[L + 1].missing[Name[v]] = v
    BY <1>10, <1>12, <2>2, <2>3
  <2>7. \A p \in more[L + 1].parents, i \in Names :
          more[p].missing[i] # Nil => more[L + 1].missing[i] # Nil
    BY <1>10, <1>12, <2>4, <2>5
  <2> QED  BY <2>1, <2>6, <2>7, Zenon DEF MadeOf
<1> QED  BY <1>1, <1>2, <1>10, <1>11, <1>13, MadeKeeps DEF more

LEMMA BuildingKeeps ==
  ASSUME GraphInv, MakeNode \/ BindSome \/ \E n, m \in Node : Pipe(n, m)
  PROVE  GraphInv'
<1>0. Node = 1..Len(nodes)
  BY DEF Node, GraphInv, WellBuilt
<1>1. CASE MakeNode
  BY <1>1, MakeNodeKeeps
<1>2. CASE BindSome
  <2>1. PICK n \in Node, s \in Slots : \/ Bind(n, s, Constant)
                                       \/ \E v \in Vars : Bind(n, s, OfVar(v))
                                       \/ \E m \in Node : Bind(n, s, OfNode(m))
    BY <1>2 DEF BindSome
  <2>2. \E value \in Bindable(nodes) : Bind(n, s, value)
    BY <1>0, <2>1 DEF Bindable
  <2> QED  BY <2>2, BindKeeps
<1>3. CASE \E n, m \in Node : Pipe(n, m)
  <2>1. PICK n \in Node, m \in Node : Pipe(n, m)
    BY <1>3
  <2>2. PICK s \in PipeSlots : Bind(n, s, OfNode(m))
    BY <2>1 DEF Pipe
  <2>3. s \in Slots
    BY <2>2, GraphAssumption DEF PipeSlots
  <2>4. OfNode(m) \in Bindable(nodes)
    BY <1>0 DEF Bindable
  <2> QED  BY <2>2, <2>3, <2>4, BindKeeps
<1> QED  BY <1>1, <1>2, <1>3

-----------------------------------------------------------------------------
(* Executing a node.                                                        *)

\* Others may have executed more.
LEMMA ExecutionWithMore ==
  ASSUME NEW ns, NEW done, NEW finished, \A n \in 1..Len(ns) : done[n] => finished[n],
         NEW r, ExecutionInv(ns, done, r)
  PROVE  ExecutionInv(ns, finished, r)
<1>1. \A n \in r.cached : n \in 1..Len(ns) /\ finished[n] /\ Complete(ns, n)
  BY DEF ExecutionInv
<1> QED  BY <1>1 DEF ExecutionInv

\* A step that changes no result.
LEMMA ExecutionGoesOn ==
  ASSUME NEW ns, NEW done, NEW r, ExecutionInv(ns, done, r), r.at # "idle",
         NEW next, next = AllFields(next),
         next.root = r.root, next.given = r.given, next.results = r.results,
         next.lazy \subseteq r.lazy, next.cached \subseteq r.cached,
         next.at = "layer" => InLayer(ns, next),
         next.at = "keep" => next.root \in DOMAIN next.results,
         next.at = "raised" => next.end \notin {"input", "parent"}
  PROVE  ExecutionInv(ns, done, next)
<1>1. /\ r.root \in 1..Len(ns)
      /\ \A i \in Names : ns[r.root].missing[i] # Nil => i \in DOMAIN r.given
      /\ r.lazy \subseteq DOMAIN r.results /\ DOMAIN r.results \subseteq 1..Len(ns)
      /\ \A n \in r.cached : n \in 1..Len(ns) /\ done[n] /\ Complete(ns, n)
      /\ OwnResults(ns, r)
  BY DEF ExecutionInv
<1>2. OwnResults(ns, next)
  BY <1>1 DEF OwnResults
<1>3. /\ next.root \in 1..Len(ns)
      /\ \A i \in Names : ns[next.root].missing[i] # Nil => i \in DOMAIN next.given
  BY <1>1
<1>4. next.lazy \subseteq DOMAIN next.results /\ DOMAIN next.results \subseteq 1..Len(ns)
  BY <1>1
<1>5. \A n \in next.cached : n \in 1..Len(ns) /\ done[n] /\ Complete(ns, n)
  BY <1>1
<1> QED  BY <1>2, <1>3, <1>4, <1>5 DEF ExecutionInv

LEMMA ProceedKeeps ==
  ASSUME GraphInv, NEW t \in Threads, NEW next, Proceed(t, next),
         UNCHANGED <<nodes, executed, result>>, ExecutionInv(nodes, executed, next)
  PROVE  GraphInv'
<1>1. run = [u \in Threads |-> run[u]] /\ \A u \in Threads : ExecutionInv(nodes, executed, run[u])
  BY DEF GraphInv, RunsInv
<1>2. run' = [u \in Threads |-> run'[u]] /\ \A u \in Threads : run'[u] = IF u = t THEN next ELSE run[u]
  BY <1>1 DEF Proceed
<1>3. \A u \in Threads : ExecutionInv(nodes, executed, run'[u])
  BY <1>1, <1>2
<1>4. nodes' = nodes /\ executed' = executed /\ result' = result
  OBVIOUS
<1>5. RunsInv'
  BY <1>2, <1>3, <1>4 DEF RunsInv
<1> QED  BY <1>4, <1>5 DEF GraphInv, KeptInv

\* A result of an execution, kept in its node.
LEMMA KeepingKeeps ==
  ASSUME GraphInv, NEW t \in Threads, NEW next, Proceed(t, next), nodes' = nodes,
         NEW n \in DOMAIN run[t].results,
         result' = [result EXCEPT ![n] = run[t].results[n]],
         executed' = [executed EXCEPT ![n] = TRUE],
         ExecutionInv(nodes, executed, next)
  PROVE  GraphInv'
<1>1. /\ run = [u \in Threads |-> run[u]] /\ WellBuilt(nodes)
      /\ \A u \in Threads : ExecutionInv(nodes, executed, run[u])
      /\ executed \in [1..Len(nodes) -> BOOLEAN] /\ result = [m \in 1..Len(nodes) |-> result[m]]
      /\ ResultsKept(nodes, executed, result)
  BY DEF GraphInv, RunsInv, KeptInv
<1>2. run' = [u \in Threads |-> run'[u]] /\ \A u \in Threads : run'[u] = IF u = t THEN next ELSE run[u]
  BY <1>1 DEF Proceed
<1>3. n \in 1..Len(nodes) /\ OwnResults(nodes, run[t])
  BY <1>1 DEF ExecutionInv
<1>4. /\ executed' \in [1..Len(nodes) -> BOOLEAN]
      /\ \A m \in 1..Len(nodes) : executed'[m] = IF m = n THEN TRUE ELSE executed[m]
      /\ result' = [m \in 1..Len(nodes) |-> result'[m]]
      /\ \A m \in 1..Len(nodes) : result'[m] = IF m = n THEN run[t].results[n] ELSE result[m]
  BY <1>1
<1>5. \A u \in Threads : ExecutionInv(nodes, executed', run'[u])
  <2> TAKE u \in Threads
  <2>1. ExecutionInv(nodes, executed, run'[u])
    BY <1>1, <1>2
  <2>2. \A m \in 1..Len(nodes) : executed[m] => executed'[m]
    BY <1>4
  <2> QED  BY <2>1, <2>2, ExecutionWithMore
<1>6. ResultsKept(nodes, executed', result')
  <2>1. ASSUME NEW m \in 1..Len(nodes), executed'[m], Complete(nodes, m), BoundBefore(nodes, m), NEW given
        PROVE  result'[m] = ValueOf(nodes, m, given)
    <3>1. CASE m = n
      <4>1. run[t].results[n] = ValueOf(nodes, n, run[t].given)
        BY <1>3, <2>1, <3>1 DEF OwnResults
      <4>2. ValueOf(nodes, n, run[t].given) = ValueOf(nodes, n, given)
        BY <1>1, <1>3, <2>1, <3>1, ValueNeedsNothing DEF Complete
      <4> QED  BY <1>4, <2>1, <3>1, <4>1, <4>2
    <3>2. CASE m # n
      BY <1>1, <1>4, <2>1, <3>2 DEF ResultsKept
    <3> QED  BY <3>1, <3>2
  <2> QED  BY <2>1 DEF ResultsKept
<1>7. RunsInv'
  BY <1>2, <1>5 DEF RunsInv
<1>8. KeptInv'
  BY <1>4, <1>6 DEF KeptInv
<1> QED  BY <1>1, <1>7, <1>8 DEF GraphInv

LEMMA BeginKeeps ==
  ASSUME GraphInv, NEW t \in Threads, NEW n \in Node, NEW given, Begin(t, n, given)
  PROVE  GraphInv'
<1> DEFINE next == [Nobody EXCEPT !.at = "trace", !.root = n, !.given = given,
                                  !.runs = run[t].runs + 1]
<1>1. /\ {i \in Names : nodes[n].missing[i] # Nil} \subseteq DOMAIN given /\ Proceed(t, next)
      /\ UNCHANGED <<nodes, executed, result>>
  BY DEF Begin
<1>2. next = [Nobody EXCEPT !.at = "trace", !.root = n, !.given = given, !.runs = run[t].runs + 1]
  OBVIOUS
<1> HIDE DEF next
<1>7. next = AllFields(next)
  BY <1>2 DEF Nobody, AllFields
<1>8. /\ next.at = "trace" /\ next.root = n /\ next.given = given
      /\ next.results = <<>> /\ next.lazy = {} /\ next.cached = {}
  BY <1>2 DEF Nobody
<1>3. n \in 1..Len(nodes)
  BY DEF Node, GraphInv, WellBuilt
<1>4. DOMAIN next.results = {}
  BY <1>8
<1>5. OwnResults(nodes, next)
  BY <1>4 DEF OwnResults
<1>6. ExecutionInv(nodes, executed, next)
  BY <1>1, <1>3, <1>4, <1>5, <1>7, <1>8 DEF ExecutionInv
<1> QED  BY <1>1, <1>6, ProceedKeeps

\* What the invariant says of the execution of a thread.
LEMMA InExecution ==
  ASSUME GraphInv, NEW t \in Threads
  PROVE  /\ WellBuilt(nodes) /\ ExecutionInv(nodes, executed, run[t]) /\ run[t] = AllFields(run[t])
         /\ run[t].at # "idle" => run[t].root \in 1..Len(nodes)
BY DEF GraphInv, RunsInv, ExecutionInv

\* A thread that goes on to a place where nothing new is said of it, or raises.
LEMMA MovingKeeps ==
  ASSUME GraphInv, NEW t \in Threads, run[t].at # "idle", NEW at,
         at \notin {"layer", "raised"}, at = "keep" => run[t].root \in DOMAIN run[t].results,
         NEW next, \/ next = [run[t] EXCEPT !.at = at]
                   \/ \E end : next = [run[t] EXCEPT !.at = at, !.end = end]
  PROVE  ExecutionInv(nodes, executed, next)
<1> DEFINE r == run[t]
<1>1. ExecutionInv(nodes, executed, r) /\ r = AllFields(r)
  BY InExecution
<1>2. r.at # "idle" /\ at = "keep" => r.root \in DOMAIN r.results
  OBVIOUS
<1>3. /\ next = AllFields(next) /\ next.at = at /\ next.root = r.root /\ next.given = r.given
      /\ next.results = r.results /\ next.lazy = r.lazy /\ next.cached = r.cached
  <2>1. next = [r EXCEPT !.at = at] \/ \E end : next = [r EXCEPT !.at = at, !.end = end]
    OBVIOUS
  <2> HIDE DEF r
  <2>2. next = AllFields(next)
    BY <1>1, <2>1 DEF AllFields
  <2>3. /\ next.at = at /\ next.root = r.root /\ next.given = r.given
        /\ next.results = r.results /\ next.lazy = r.lazy /\ next.cached = r.cached
    BY <1>1, <2>1 DEF AllFields
  <2> QED  BY <2>2, <2>3
<1>4. r.at # "idle"
  OBVIOUS
<1> HIDE DEF r
<1> QED  BY <1>1, <1>2, <1>3, <1>4, ExecutionGoesOn

LEMMA RaiseKeeps ==
  ASSUME GraphInv, NEW t \in Threads, run[t].at # "idle", NEW reason,
         reason \notin {"input", "parent"},
         Proceed(t, [run[t] EXCEPT !.at = "raised", !.end = reason]),
         UNCHANGED <<nodes, executed, result>>
  PROVE  GraphInv'
<1> DEFINE r == run[t]
           next == [r EXCEPT !.at = "raised", !.end = reason]
<1>1. ExecutionInv(nodes, executed, r) /\ r = AllFields(r) /\ r.at # "idle"
  BY InExecution
<1>2. next = [r EXCEPT !.at = "raised", !.end = reason] /\ Proceed(t, next)
  OBVIOUS
<1> HIDE DEF r, next
<1>3. next = AllFields(next)
  BY <1>1, <1>2 DEF AllFields
<1>4. /\ next.at = "raised" /\ next.root = r.root /\ next.given = r.given
      /\ next.results = r.results /\ next.lazy = r.lazy /\ next.cached = r.cached /\ next.end = reason
  BY <1>1, <1>2 DEF AllFields
<1>5. ExecutionInv(nodes, executed, next)
  BY <1>1, <1>3, <1>4, ExecutionGoesOn
<1> QED  BY <1>2, <1>5, ProceedKeeps

\* Trace, CacheNodes, Sort and Return.
LEMMA PassingKeeps ==
  ASSUME GraphInv, NEW t \in Threads, Trace(t) \/ CacheNodes(t) \/ Sort(t) \/ Return(t)
  PROVE  GraphInv'
<1>1. CASE Trace(t)
  <2> DEFINE at == IF sorted[run[t].root] = "none" THEN "traced" ELSE "order"
             next == [run[t] EXCEPT !.at = at]
  <2>1. run[t].at # "idle" /\ Proceed(t, next) /\ UNCHANGED <<nodes, executed, result>>
    BY <1>1 DEF Trace
  <2>2. at \notin {"layer", "raised", "keep"}
    OBVIOUS
  <2> HIDE DEF at
  <2>3. ExecutionInv(nodes, executed, next)
    BY <2>1, <2>2, MovingKeeps
  <2> QED  BY <2>1, <2>3, ProceedKeeps
<1>2. ASSUME CacheNodes(t) \/ Sort(t), NEW at, at \in {"sort", "order"},
             run[t].at # "idle", Proceed(t, [run[t] EXCEPT !.at = at]),
             UNCHANGED <<nodes, executed, result>>
      PROVE  GraphInv'
  <2> DEFINE next == [run[t] EXCEPT !.at = at]
  <2>1. ExecutionInv(nodes, executed, next)
    BY <1>2, MovingKeeps
  <2> QED  BY <1>2, <2>1, ProceedKeeps
<1>3. CASE CacheNodes(t)
  <2>1. /\ run[t].at # "idle" /\ Proceed(t, [run[t] EXCEPT !.at = "sort"])
        /\ UNCHANGED <<nodes, executed, result>>
    BY <1>3 DEF CacheNodes
  <2> QED  BY <1>2, <1>3, <2>1
<1>4. CASE Sort(t)
  <2>1. /\ run[t].at # "idle" /\ Proceed(t, [run[t] EXCEPT !.at = "order"])
        /\ UNCHANGED <<nodes, executed, result>>
    BY <1>4 DEF Sort
  <2> QED  BY <1>2, <1>4, <2>1
<1>5. CASE Return(t)
  <2> DEFINE next == [run[t] EXCEPT !.at = "returned", !.end = result[run[t].root]]
  <2>1. run[t].at # "idle" /\ Proceed(t, next) /\ UNCHANGED <<nodes, executed, result>>
    BY <1>5 DEF Return
  <2>2. ExecutionInv(nodes, executed, next)
    BY <2>1, MovingKeeps
  <2> QED  BY <2>1, <2>2, ProceedKeeps
<1> QED  BY <1>1, <1>3, <1>4, <1>5

\* A layer is entered when all that was placed before has a result.
LEMMA EnterKeeps ==
  ASSUME GraphInv, NEW t \in Threads, run[t].at # "idle", NEW number \in 1..MaxNodes,
         PlacedOf(nodes, run[t].root)[number - 1] \subseteq DOMAIN run[t].results,
         Enter(t, number), UNCHANGED <<nodes, executed, result>>
  PROVE  GraphInv'
<1> DEFINE r == run[t]
           placed == PlacedOf(nodes, r.root)
           layer == Layer(r.root, number)
           cached == {n \in layer : Reusable(n)}
           todo == layer \ cached
           next == [r EXCEPT !.at = "layer", !.layer = number, !.cached = cached, !.todo = todo]
<1>1. /\ WellBuilt(nodes) /\ ExecutionInv(nodes, executed, r) /\ r = AllFields(r) /\ r.at # "idle"
      /\ r.root \in 1..Len(nodes) /\ MaxNodes \in Nat /\ Len(nodes) \in Nat
  BY InExecution, GraphAssumption DEF WellBuilt
<1>2. Proceed(t, next)
  BY Zenon DEF Enter
<1>3. layer = placed[number] \ placed[number - 1]
  <2>1. Placed(r.root) = placed
    BY OfTheseNodes
  <2> QED  BY <2>1 DEF Layer
<1>4. /\ cached \subseteq layer /\ cached \cup todo = layer
      /\ \A n \in cached : executed[n] /\ Complete(nodes, n)
  BY DEF Reusable, Complete
<1>5. placed[number - 1] \subseteq DOMAIN r.results
  OBVIOUS
<1>6. next = [r EXCEPT !.at = "layer", !.layer = number, !.cached = cached, !.todo = todo]
  OBVIOUS
<1> HIDE DEF r, layer, cached, todo, next
<1>7. /\ next = AllFields(next) /\ next.at = "layer" /\ next.root = r.root /\ next.given = r.given
      /\ next.layer = number /\ next.cached = cached /\ next.todo = todo
      /\ next.results = r.results /\ next.lazy = r.lazy
  <2>1. next = AllFields(next)
    BY <1>1, <1>6 DEF AllFields
  <2>2. /\ next.at = "layer" /\ next.root = r.root /\ next.given = r.given
        /\ next.layer = number /\ next.cached = cached /\ next.todo = todo
        /\ next.results = r.results /\ next.lazy = r.lazy
    BY <1>1, <1>6 DEF AllFields
  <2> QED  BY <2>1, <2>2
<1>8. placed[number] \subseteq 1..Len(nodes)
  <2>1. number \in 0..MaxNodes
    BY <1>1
  <2>2. placed[number] \subseteq AncestorsOf(nodes, r.root)
    BY <1>1, <2>1, PlacedInTime
  <2> QED  BY <1>1, <2>2, AncestorsAreBefore
<1> HIDE DEF placed
<1>9. \A n \in next.cached : n \in 1..Len(nodes) /\ executed[n] /\ Complete(nodes, n)
  BY <1>3, <1>4, <1>7, <1>8
<1>10. InLayer(nodes, next)
  <2>1. PlacedOf(nodes, next.root) = placed
    BY <1>7 DEF placed
  <2> QED  BY <1>3, <1>4, <1>5, <1>7, <2>1 DEF InLayer
<1>11. OwnResults(nodes, next)
  BY <1>1, <1>7 DEF OwnResults, ExecutionInv
<1>12. /\ next.root \in 1..Len(nodes)
       /\ \A i \in Names : nodes[next.root].missing[i] # Nil => i \in DOMAIN next.given
       /\ next.lazy \subseteq DOMAIN next.results /\ DOMAIN next.results \subseteq 1..Len(nodes)
  BY <1>1, <1>7 DEF ExecutionInv
<1>13. ExecutionInv(nodes, executed, next)
  BY <1>7, <1>9, <1>10, <1>11, <1>12 DEF ExecutionInv
<1> QED  BY <1>2, <1>13, ProceedKeeps

LEMMA TakeOrderKeeps ==
  ASSUME GraphInv, NEW t \in Threads, TakeOrder(t)
  PROVE  GraphInv'
<1>1. run[t].at # "idle" /\ UNCHANGED <<nodes, executed, result>>
  BY DEF TakeOrder
<1>2. CASE Enter(t, 1)
  <2>1. 1 \in 1..MaxNodes /\ 1 - 1 = 0
    BY <1>1, InExecution, TypeOfNode
  <2>2. PlacedOf(nodes, run[t].root)[0] = {}
    BY PlacedUnfolds
  <2>3. PlacedOf(nodes, run[t].root)[1 - 1] = {}
    BY <2>1, <2>2
  <2>4. PlacedOf(nodes, run[t].root)[1 - 1] \subseteq DOMAIN run[t].results
    BY <2>3
  <2> QED  BY <1>1, <1>2, <2>1, <2>4, EnterKeeps
<1>3. CASE Proceed(t, [run[t] EXCEPT !.at = "raised", !.end = "order"])
  <2> DEFINE reason == "order"
  <2>1. reason \notin {"input", "parent"}
    OBVIOUS
  <2>2. Proceed(t, [run[t] EXCEPT !.at = "raised", !.end = reason])
    BY <1>3
  <2> HIDE DEF reason
  <2> QED  BY <1>1, <2>1, <2>2, RaiseKeeps
<1> QED  BY <1>2, <1>3 DEF TakeOrder

LEMMA NextLayerKeeps ==
  ASSUME GraphInv, NEW t \in Threads, NextLayer(t)
  PROVE  GraphInv'
<1> DEFINE r == run[t]
<1>1. /\ r.at = "layer" /\ r.cached = {} /\ r.todo = {} /\ UNCHANGED <<nodes, executed, result>>
      /\ IF r.root \in DOMAIN r.results THEN Proceed(t, [r EXCEPT !.at = "keep"])
         ELSE Enter(t, r.layer + 1)
  BY DEF NextLayer, Ran
<1>2. CASE r.root \in DOMAIN r.results
  <2> DEFINE next == [r EXCEPT !.at = "keep"]
  <2>1. Proceed(t, next)
    BY <1>1, <1>2
  <2>2. ExecutionInv(nodes, executed, next)
    BY <1>1, <1>2, MovingKeeps
  <2> QED  BY <1>1, <2>1, <2>2, ProceedKeeps
<1>3. CASE r.root \notin DOMAIN r.results
  <2>1. Enter(t, r.layer + 1)
    BY <1>1, <1>3
  <2>2. /\ WellBuilt(nodes) /\ InLayer(nodes, r) /\ r.root \in 1..Len(nodes)
        /\ MaxNodes \in Nat /\ r.root <= MaxNodes
    BY <1>1, InExecution, TypeOfNode DEF ExecutionInv
  <2>3. /\ r.layer \in 1..MaxNodes
        /\ PlacedOf(nodes, r.root)[r.layer] \subseteq DOMAIN r.results
    BY <1>1, <2>2 DEF InLayer
  <2>4. r.layer # MaxNodes
    <3>1. SUFFICES ASSUME r.layer = MaxNodes PROVE FALSE
      OBVIOUS
    <3>2. r.root \in AncestorsOf(nodes, r.root) /\ MaxNodes \in 0..MaxNodes
      BY <2>2, AncestorsAreBefore
    <3>3. r.root \in PlacedOf(nodes, r.root)[MaxNodes]
      BY <2>2, <3>2, PlacedInTime
    <3> QED  BY <1>3, <2>3, <3>1, <3>3
  <2>5. r.layer + 1 \in 1..MaxNodes /\ (r.layer + 1) - 1 = r.layer
    BY <2>2, <2>3, <2>4
  <2>6. PlacedOf(nodes, r.root)[(r.layer + 1) - 1] \subseteq DOMAIN r.results
    BY <2>3, <2>5
  <2> QED  BY <1>1, <2>1, <2>5, <2>6, EnterKeeps
<1> QED  BY <1>2, <1>3

LEMMA ReuseKeeps ==
  ASSUME GraphInv, NEW t \in Threads, NEW n \in Node, Reuse(t, n)
  PROVE  GraphInv'
<1> DEFINE r == run[t]
           cached == r.cached \ {n}
           results == With(r.results, n, result[n])
           next == [r EXCEPT !.cached = cached, !.results = results]
<1>1. /\ r.at = "layer" /\ n \in r.cached /\ Proceed(t, next)
      /\ UNCHANGED <<nodes, executed, result>>
  BY DEF Reuse
<1>2. /\ WellBuilt(nodes) /\ ExecutionInv(nodes, executed, r) /\ r = AllFields(r)
      /\ r.root \in 1..Len(nodes)
  BY <1>1, InExecution
<1>3. /\ n \in 1..Len(nodes) /\ executed[n] /\ Complete(nodes, n)
      /\ InLayer(nodes, r) /\ OwnResults(nodes, r)
  BY <1>1, <1>2 DEF ExecutionInv
<1>4. BoundBefore(nodes, n) => result[n] = ValueOf(nodes, n, r.given)
  BY <1>3 DEF GraphInv, KeptInv, ResultsKept
<1>5. next = [r EXCEPT !.cached = cached, !.results = results]
  OBVIOUS
<1>6. cached = r.cached \ {n} /\ results = With(r.results, n, result[n])
  OBVIOUS
<1> HIDE DEF r, cached, results, next
<1>7. next = AllFields(next)
  BY <1>2, <1>5 DEF AllFields
<1>8. /\ next.at = r.at /\ next.root = r.root /\ next.given = r.given /\ next.layer = r.layer
      /\ next.cached = cached /\ next.todo = r.todo /\ next.results = results /\ next.lazy = r.lazy
  BY <1>2, <1>5 DEF AllFields
<1>9. OwnResults(nodes, next) /\ DOMAIN next.results = DOMAIN r.results \cup {n}
  <2> DEFINE value == result[n]
  <2>1. next.given = r.given /\ next.results = With(r.results, n, value)
    BY <1>6, <1>8
  <2>2. BoundBefore(nodes, n) => value = ValueOf(nodes, n, r.given)
    BY <1>4
  <2> HIDE DEF value
  <2>3. /\ DOMAIN next.results = DOMAIN r.results \cup {n}
        /\ \A m \in DOMAIN next.results : next.results[m] = IF m = n THEN value ELSE r.results[m]
    BY <2>1 DEF With
  <2> QED  BY <1>3, <2>1, <2>2, <2>3 DEF OwnResults
<1>10. InLayer(nodes, next)
  BY <1>3, <1>6, <1>8, <1>9 DEF InLayer
<1>11. /\ next.root \in 1..Len(nodes)
       /\ \A i \in Names : nodes[next.root].missing[i] # Nil => i \in DOMAIN next.given
       /\ next.lazy \subseteq DOMAIN next.results /\ DOMAIN next.results \subseteq 1..Len(nodes)
       /\ \A m \in next.cached : m \in 1..Len(nodes) /\ executed[m] /\ Complete(nodes, m)
  BY <1>1, <1>2, <1>3, <1>6, <1>8, <1>9 DEF ExecutionInv
<1>12. ExecutionInv(nodes, executed, next)
  BY <1>1, <1>7, <1>8, <1>9, <1>10, <1>11 DEF ExecutionInv
<1> QED  BY <1>1, <1>12, ProceedKeeps

\* A node of the layer lacks nothing but an argument nobody has bound.
LEMMA LacksNothing ==
  ASSUME GraphInv, NEW t \in Threads, NEW n \in Node, run[t].at = "layer", n \in run[t].todo
  PROVE  /\ n \in AncestorsOf(nodes, run[t].root) /\ nodes[n].parents \subseteq DOMAIN run[t].results
         /\ \A reason \in Lacks(t, n) : reason \notin {"input", "parent"}
<1> DEFINE r == run[t]
           placed == PlacedOf(nodes, r.root)
<1>1. /\ WellBuilt(nodes) /\ ExecutionInv(nodes, executed, r) /\ r.root \in 1..Len(nodes)
      /\ MaxNodes \in Nat
  BY InExecution, GraphAssumption
<1>2. /\ InLayer(nodes, r) /\ n \in r.todo
      /\ \A i \in Names : nodes[r.root].missing[i] # Nil => i \in DOMAIN r.given
  BY <1>1 DEF ExecutionInv
<1>3. /\ r.layer \in 1..MaxNodes /\ n \in placed[r.layer] /\ n \notin placed[r.layer - 1]
      /\ placed[r.layer - 1] \subseteq DOMAIN r.results
  BY <1>2 DEF InLayer
<1>4. placed[r.layer] = placed[r.layer - 1]
        \cup {m \in AncestorsOf(nodes, r.root) : nodes[m].parents \subseteq placed[r.layer - 1]}
  BY <1>3, PlacedUnfolds
<1>5. n \in AncestorsOf(nodes, r.root) /\ nodes[n].parents \subseteq DOMAIN r.results
  <2> HIDE DEF placed, r
  <2> QED  BY <1>3, <1>4
<1>6. n \in 1..Len(nodes) /\ MadeOf(nodes, n) /\ Len(nodes) <= MaxNodes /\ Len(nodes) \in Nat
  BY <1>1, <1>5, AncestorsOfAncestors DEF WellBuilt
<1>7. ASSUME NEW v \in Vars, NEW s \in Slots, nodes[n].bound[s] = OfVar(v)
      PROVE  Name[v] \in DOMAIN r.given
  <2>1. nodes[n].missing[Name[v]] = v /\ v # Nil /\ Name[v] \in Names
    BY <1>6, <1>7, GraphAssumption DEF MadeOf, Names
  <2>2. nodes[r.root].missing[Name[v]] # Nil
    BY <1>1, <1>5, <2>1, MissingBubbles
  <2> QED  BY <1>2, <2>1, <2>2
<1>8. ASSUME NEW m \in Node, NEW s \in Slots, nodes[n].bound[s] = OfNode(m)
      PROVE  m \in DOMAIN r.results
  <2>1. m \in 1..MaxNodes
    BY <1>1, <1>6 DEF Node, WellBuilt
  <2>2. m \in nodes[n].parents
    BY <1>6, <1>8, <2>1 DEF MadeOf
  <2> QED  BY <1>5, <2>2
<1>9. /\ {w \in Vars : OfVar(w) \in {nodes[n].bound[s] : s \in Slots} /\ Name[w] \notin DOMAIN run[t].given} = {}
      /\ {m \in Node : OfNode(m) \in {nodes[n].bound[s] : s \in Slots} /\ m \notin DOMAIN run[t].results} = {}
  BY <1>7, <1>8
<1>10. \A reason \in Lacks(t, n) : reason = "argument"
  BY <1>9 DEF Lacks
<1> QED  BY <1>5, <1>10

LEMMA RunNodeKeeps ==
  ASSUME GraphInv, NEW t \in Threads, NEW n \in Node, RunNode(t, n)
  PROVE  GraphInv'
<1> DEFINE r == run[t]
           todo == r.todo \ {n}
           results == With(r.results, n, Applied(n, r.given, r.results))
           lazy == r.lazy \cup {m \in {n} : nodes[m].lazy}
           next == [r EXCEPT !.todo = todo, !.results = results, !.lazy = lazy]
<1>1. r.at = "layer" /\ r.cached = {} /\ n \in r.todo
  BY DEF RunNode
<1>2. /\ WellBuilt(nodes) /\ ExecutionInv(nodes, executed, r) /\ r = AllFields(r)
      /\ r.root \in 1..Len(nodes)
  BY <1>1, InExecution
<1>3. /\ n \in AncestorsOf(nodes, r.root) /\ nodes[n].parents \subseteq DOMAIN r.results
      /\ \A reason \in Lacks(t, n) : reason \notin {"input", "parent"}
  BY <1>1, LacksNothing
<1>4. CASE Proceed(t, next) /\ UNCHANGED <<nodes, executed, result>>
  <2>1. n \in 1..Len(nodes) /\ InLayer(nodes, r) /\ OwnResults(nodes, r)
    BY <1>1, <1>2, <1>3, AncestorsOfAncestors DEF ExecutionInv
  <2>2. BoundBefore(nodes, n) => Applied(n, r.given, r.results) = ValueOf(nodes, n, r.given)
    <3> SUFFICES ASSUME BoundBefore(nodes, n)
                 PROVE  AppliedIn(nodes, n, r.given, r.results) = ValueOf(nodes, n, r.given)
      BY OfTheseNodes
    <3>1. ASSUME NEW p \in nodes[n].parents
          PROVE  r.results[p] = ValueOf(nodes, p, r.given)
      <4>1. p \in AncestorsOf(nodes, n)
        BY <1>2, <2>1, <3>1, AncestorsAreBefore, AncestorsOfAncestors
      <4>2. AncestorsOf(nodes, p) \subseteq AncestorsOf(nodes, n)
        BY <1>2, <2>1, <4>1, AncestorsOfAncestors
      <4>3. BoundBefore(nodes, p)
        BY <4>2 DEF BoundBefore
      <4> QED  BY <1>3, <2>1, <3>1, <4>3 DEF OwnResults
    <3> HIDE DEF r
    <3> QED  BY <1>2, <2>1, <3>1, ValueFromParents
  <2>3. next = [r EXCEPT !.todo = todo, !.results = results, !.lazy = lazy]
    OBVIOUS
  <2>4. /\ todo = r.todo \ {n} /\ results = With(r.results, n, Applied(n, r.given, r.results))
        /\ lazy \subseteq r.lazy \cup {n}
    OBVIOUS
  <2> HIDE DEF r, todo, results, lazy, next
  <2>5. next = AllFields(next)
    BY <1>2, <2>3 DEF AllFields
  <2>6. /\ next.at = r.at /\ next.root = r.root /\ next.given = r.given /\ next.layer = r.layer
        /\ next.cached = r.cached /\ next.todo = todo /\ next.results = results /\ next.lazy = lazy
    BY <1>2, <2>3 DEF AllFields
  <2>7. OwnResults(nodes, next) /\ DOMAIN next.results = DOMAIN r.results \cup {n}
    <3> DEFINE value == Applied(n, r.given, r.results)
    <3>1. next.given = r.given /\ next.results = With(r.results, n, value)
      BY <2>4, <2>6
    <3>2. BoundBefore(nodes, n) => value = ValueOf(nodes, n, r.given)
      BY <2>2
    <3> HIDE DEF value
    <3>3. /\ DOMAIN next.results = DOMAIN r.results \cup {n}
          /\ \A m \in DOMAIN next.results : next.results[m] = IF m = n THEN value ELSE r.results[m]
      BY <3>1 DEF With
    <3> QED  BY <2>1, <3>1, <3>2, <3>3 DEF OwnResults
  <2>8. InLayer(nodes, next)
    BY <2>1, <2>4, <2>6, <2>7 DEF InLayer
  <2>9. /\ next.root \in 1..Len(nodes)
        /\ \A i \in Names : nodes[next.root].missing[i] # Nil => i \in DOMAIN next.given
        /\ next.lazy \subseteq DOMAIN next.results /\ DOMAIN next.results \subseteq 1..Len(nodes)
        /\ \A m \in next.cached : m \in 1..Len(nodes) /\ executed[m] /\ Complete(nodes, m)
    BY <1>1, <1>2, <2>1, <2>4, <2>6, <2>7 DEF ExecutionInv
  <2>10. ExecutionInv(nodes, executed, next)
    BY <1>1, <2>5, <2>6, <2>7, <2>8, <2>9 DEF ExecutionInv
  <2> QED  BY <1>4, <2>10, ProceedKeeps
<1>5. ASSUME NEW reason \in Lacks(t, n) \cup {"function"}, Raise(t, reason)
      PROVE  GraphInv'
  <2>1. reason \notin {"input", "parent"} /\ r.at # "idle"
    BY <1>1, <1>3, <1>5
  <2>2. /\ Proceed(t, [run[t] EXCEPT !.at = "raised", !.end = reason])
        /\ UNCHANGED <<nodes, executed, result>>
    BY <1>5 DEF Raise
  <2> QED  BY <2>1, <2>2, RaiseKeeps
<1>6. \/ Proceed(t, next) /\ UNCHANGED <<nodes, executed, result>>
      \/ \E reason \in Lacks(t, n) \cup {"function"} : Raise(t, reason)
  BY DEF RunNode
<1> QED  BY <1>4, <1>5, <1>6

LEMMA SettleKeeps ==
  ASSUME GraphInv, NEW t \in Threads, NEW n \in Node, Settle(t, n)
  PROVE  GraphInv'
<1> DEFINE r == run[t]
           lazy == r.lazy \ {n}
           next == [r EXCEPT !.lazy = lazy]
<1>1. r.at = "layer" /\ n \in r.lazy
  BY DEF Settle, Ran
<1>2. /\ WellBuilt(nodes) /\ ExecutionInv(nodes, executed, r) /\ r = AllFields(r)
      /\ r.root \in 1..Len(nodes) /\ InLayer(nodes, r) /\ n \in DOMAIN r.results
  BY <1>1, InExecution DEF ExecutionInv
<1>3. CASE /\ result' = [result EXCEPT ![n] = run[t].results[n]]
           /\ executed' = [executed EXCEPT ![n] = TRUE]
           /\ Proceed(t, next) /\ nodes' = nodes
  <2>1. next = [r EXCEPT !.lazy = lazy] /\ lazy \subseteq r.lazy
    OBVIOUS
  <2>2. n \in DOMAIN run[t].results
    BY <1>2
  <2> HIDE DEF r, lazy, next
  <2>3. next = AllFields(next)
    BY <1>2, <2>1 DEF AllFields
  <2>4. /\ next.at = r.at /\ next.root = r.root /\ next.given = r.given /\ next.layer = r.layer
        /\ next.cached = r.cached /\ next.todo = r.todo /\ next.results = r.results /\ next.lazy = lazy
    BY <1>2, <2>1 DEF AllFields
  <2>5. InLayer(nodes, next)
    BY <1>2, <2>4 DEF InLayer
  <2>6. ExecutionInv(nodes, executed, next)
    BY <1>1, <1>2, <2>1, <2>3, <2>4, <2>5, ExecutionGoesOn
  <2> QED  BY <1>3, <2>2, <2>6, KeepingKeeps
<1>4. CASE Raise(t, "function")
  <2> DEFINE reason == "function"
  <2>1. reason \notin {"input", "parent"} /\ r.at # "idle"
    BY <1>1
  <2>2. /\ Proceed(t, [run[t] EXCEPT !.at = "raised", !.end = reason])
        /\ UNCHANGED <<nodes, executed, result>>
    BY <1>4 DEF Raise
  <2> HIDE DEF reason
  <2> QED  BY <2>1, <2>2, RaiseKeeps
<1> QED  BY <1>3, <1>4 DEF Settle

LEMMA KeepResultKeeps ==
  ASSUME GraphInv, NEW t \in Threads, KeepResult(t)
  PROVE  GraphInv'
<1> DEFINE n == run[t].root
           next == [run[t] EXCEPT !.at = "return"]
<1>1. /\ run[t].at = "keep" /\ result' = [result EXCEPT ![n] = run[t].results[n]]
      /\ executed' = [executed EXCEPT ![n] = TRUE] /\ Proceed(t, next) /\ nodes' = nodes
  BY DEF KeepResult
<1>2. n \in DOMAIN run[t].results
  BY <1>1, InExecution DEF ExecutionInv
<1>3. ExecutionInv(nodes, executed, next)
  BY <1>1, MovingKeeps
<1> HIDE DEF n, next
<1> QED  BY <1>1, <1>2, <1>3, KeepingKeeps

LEMMA GraphStarts ==
  ASSUME GraphInit
  PROVE  GraphInv
<1>1. nodes = <<>> /\ executed = <<>> /\ result = <<>> /\ run = [t \in Threads |-> Nobody]
  BY DEF GraphInit
<1>2. WellBuilt(nodes)
  BY <1>1, GraphAssumption DEF WellBuilt
<1>3. KeptInv
  BY <1>1 DEF KeptInv, ResultsKept
<1>4. ExecutionInv(nodes, executed, Nobody)
  <2>1. Nobody = AllFields(Nobody)
    BY DEF Nobody, AllFields
  <2>2. /\ Nobody.at = "idle" /\ Nobody.results = <<>> /\ Nobody.lazy = {} /\ Nobody.cached = {}
    BY DEF Nobody
  <2>3. DOMAIN Nobody.results = {}
    BY <2>2
  <2> HIDE DEF Nobody
  <2> QED  BY <2>1, <2>2, <2>3 DEF ExecutionInv, OwnResults
<1>5. RunsInv
  BY <1>1, <1>4 DEF RunsInv
<1> QED  BY <1>2, <1>3, <1>5 DEF GraphInv

LEMMA GraphSteps ==
  ASSUME GraphInv, GraphNext
  PROVE  GraphInv'
<1>1. CASE MakeNode \/ BindSome \/ \E n, m \in Node : Pipe(n, m)
  BY <1>1, BuildingKeeps
<1>2. ASSUME NEW t \in Threads, NEW n \in Node, NEW given, Begin(t, n, given) PROVE GraphInv'
  BY <1>2, BeginKeeps
<1>3. ASSUME NEW t \in Threads, Execution(t) PROVE GraphInv'
  <2>1. CASE Trace(t) \/ CacheNodes(t) \/ Sort(t) \/ Return(t)
    BY <2>1, PassingKeeps
  <2>2. CASE TakeOrder(t)
    BY <2>2, TakeOrderKeeps
  <2>3. CASE NextLayer(t)
    BY <2>3, NextLayerKeeps
  <2>4. CASE KeepResult(t)
    BY <2>4, KeepResultKeeps
  <2>5. ASSUME NEW n \in Node, Reuse(t, n) \/ RunNode(t, n) \/ Settle(t, n) PROVE GraphInv'
    BY <2>5, ReuseKeeps, RunNodeKeeps, SettleKeeps
  <2> QED  BY <1>3, <2>1, <2>2, <2>3, <2>4, <2>5 DEF Execution
<1> QED  BY <1>1, <1>2, <1>3 DEF GraphNext

LEMMA GraphInvariant == GraphSpec => []GraphInv
<1>1. GraphInv /\ UNCHANGED graphVars => GraphInv'
  BY DEF GraphInv, KeptInv, RunsInv, graphVars
<1>2. GraphInv /\ [GraphNext]_graphVars => GraphInv'
  BY <1>1, GraphSteps
<1> QED  BY GraphStarts, <1>2, PTL DEF GraphSpec

\* However many threads execute however many graphs, and keep what they make in
\* the nodes they share, the results an execution works with are the values its
\* own inputs have by the bindings alone: what a node keeps is only reused when
\* it needs nothing of the caller, and then its value is the same for everybody.
THEOREM ValuesAreOwn == GraphSpec => []OwnInputsOnly
<1>1. GraphInv => OwnInputsOnly
  <2> SUFFICES ASSUME GraphInv, NEW t \in Threads, NEW n \in DOMAIN run[t].results, BoundBeforeExecuted(n)
               PROVE  run[t].results[n] = Value(n, run[t].given)
    BY DEF OwnInputsOnly
  <2>1. BoundBefore(nodes, n)
    BY OfTheseNodes DEF BoundBefore, BoundBeforeExecuted
  <2>2. run[t].results[n] = ValueOf(nodes, n, run[t].given)
    BY <2>1, InExecution DEF ExecutionInv, OwnResults
  <2> QED  BY <2>2, OfTheseNodes
<1> QED  BY <1>1, GraphInvariant, PTL

\* An execution that was let begin finds every input it comes to among those it
\* was given, and the results of the parents of every node of every layer: what
\* bind has collected as missing is all that is bound to an ancestor, and the
\* layers put a node after its parents and end with the root.
THEOREM NothingIsMissing == GraphSpec => []NothingMissing
<1>1. GraphInv => NothingMissing
  BY InExecution DEF NothingMissing, ExecutionInv
<1> QED  BY <1>1, GraphInvariant, PTL

\* What is placed was placed in some round.
LEMMA PlacedInARound ==
  ASSUME NEW ns, NEW n, NEW k \in 0..MaxNodes, NEW m \in PlacedOf(ns, n)[k]
  PROVE  \E j \in 1..k : m \in PlacedOf(ns, n)[j] \ PlacedOf(ns, n)[j - 1]
<1> DEFINE placed == PlacedOf(ns, n)
           S == {i \in 0..MaxNodes : m \in placed[i] => \E j \in 1..i : m \in placed[j] \ placed[j - 1]}
<1>1. placed[0] = {} /\ MaxNodes \in Nat /\ m \in placed[k]
  BY PlacedUnfolds, GraphAssumption
<1> HIDE DEF placed
<1>2. 0 \in S
  BY <1>1
<1>3. ASSUME NEW i \in 0..MaxNodes, i < MaxNodes, i \in S PROVE i + 1 \in S
  <2>1. i \in Nat /\ i + 1 \in 0..MaxNodes /\ i + 1 \in 1..(i + 1) /\ (i + 1) - 1 = i
    BY <1>1, <1>3
  <2>2. ASSUME m \in placed[i + 1] PROVE \E j \in 1..(i + 1) : m \in placed[j] \ placed[j - 1]
    <3>1. CASE m \in placed[i]
      <4>1. PICK j \in 1..i : m \in placed[j] \ placed[j - 1]
        BY <1>3, <3>1
      <4>2. j \in 1..(i + 1)
        BY <2>1
      <4> QED  BY <4>1, <4>2
    <3>2. CASE m \notin placed[i]
      BY <2>1, <2>2, <3>2
    <3> QED  BY <3>1, <3>2
  <2> QED  BY <2>1, <2>2
<1> HIDE DEF S
<1>4. 0..MaxNodes \subseteq S
  BY <1>1, <1>2, <1>3, InductionUpTo
<1> QED  BY <1>1, <1>4 DEF S, placed

\* Every ancestor is in a layer, and its parents are in layers before.
LayersFollowParents ==
  \A n \in Node : \A m \in Ancestors(n) :
    \E k \in 1..MaxNodes :
      /\ m \in Layer(n, k)
      /\ \A p \in nodes[m].parents : \E j \in 1..(k - 1) : p \in Layer(n, j)

\* The layers _topological_sort makes are a topological order of all the
\* ancestors of a node, of every graph that can be built: nothing is left out,
\* and nothing is run before or beside what it takes its arguments from.
THEOREM LayersAreAnOrder == GraphSpec => []LayersFollowParents
<1>1. ASSUME GraphInv PROVE LayersFollowParents
  <2> SUFFICES ASSUME NEW n \in Node, NEW m \in Ancestors(n)
               PROVE  \E k \in 1..MaxNodes :
                        /\ m \in Layer(n, k)
                        /\ \A p \in nodes[m].parents : \E j \in 1..(k - 1) : p \in Layer(n, j)
    BY DEF LayersFollowParents
  <2> DEFINE placed == PlacedOf(nodes, n)
  <2>1. /\ WellBuilt(nodes) /\ n \in 1..Len(nodes) /\ MaxNodes \in Nat /\ n <= MaxNodes
        /\ m \in AncestorsOf(nodes, n) /\ m \in 1..n
    <3>1. WellBuilt(nodes) /\ n \in 1..Len(nodes)
      BY <1>1 DEF GraphInv, WellBuilt, Node
    <3>2. m \in AncestorsOf(nodes, n)
      BY OfTheseNodes
    <3> QED  BY <3>1, <3>2, AncestorsAreBefore, TypeOfNode
  <2>2. \A k : Layer(n, k) = placed[k] \ placed[k - 1]
    BY OfTheseNodes DEF Layer
  <2>3. m \in placed[MaxNodes] /\ MaxNodes \in 0..MaxNodes
    <3>1. MaxNodes \in 0..MaxNodes /\ m <= MaxNodes
      BY <2>1
    <3> QED  BY <2>1, <3>1, PlacedInTime
  <2>4. PICK k \in 1..MaxNodes : m \in placed[k] \ placed[k - 1]
    BY <2>3, PlacedInARound
  <2>5. nodes[m].parents \subseteq placed[k - 1]
    <3>1. placed[k] = placed[k - 1]
            \cup {i \in AncestorsOf(nodes, n) : nodes[i].parents \subseteq placed[k - 1]}
      BY PlacedUnfolds
    <3> HIDE DEF placed
    <3> QED  BY <2>4, <3>1
  <2>6. k - 1 \in 0..MaxNodes
    BY <2>1
  <2>7. ASSUME NEW p \in nodes[m].parents
        PROVE  \E j \in 1..(k - 1) : p \in placed[j] \ placed[j - 1]
    BY <2>5, <2>6, <2>7, PlacedInARound
  <2> HIDE DEF placed
  <2> QED  BY <2>2, <2>4, <2>7
<1> QED  BY <1>1, GraphInvariant, PTL

-----------------------------------------------------------------------------
(* One thread alone.                                                        *)

\* What an execution is about to return, or has returned, is its own.
Returns(ns, kept, r) ==
  /\ r.at = "return" /\ BoundBefore(ns, r.root) => kept[r.root] = ValueOf(ns, r.root, r.given)
  /\ r.at = "returned" /\ BoundBefore(ns, r.root) => r.end = ValueOf(ns, r.root, r.given)

AloneInv == GraphInv /\ \A t \in Threads : Returns(nodes, result, run[t])

LEMMA BuildingMakes ==
  ASSUME MakeNode \/ BindSome \/ \E n, m \in Node : Pipe(n, m)
  PROVE  \E node, done, value : Made(node, done, value)
<1>1. ASSUME NEW n, NEW s, NEW value, Bind(n, s, value)
      PROVE  \E node, done, kept : Made(node, done, kept)
  BY <1>1, Zenon DEF Bind
<1>2. CASE MakeNode
  BY <1>2, Zenon DEF MakeNode
<1>3. CASE BindSome
  BY <1>1, <1>3, Zenon DEF BindSome
<1>4. CASE \E n, m \in Node : Pipe(n, m)
  BY <1>1, <1>4, Zenon DEF Pipe
<1> QED  BY <1>2, <1>3, <1>4

LEMMA BuildingLeavesReturns ==
  ASSUME AloneInv, MakeNode \/ BindSome \/ \E n, m \in Node : Pipe(n, m)
  PROVE  AloneInv'
<1> DEFINE L == Len(nodes)
<1>1. GraphInv /\ GraphInv' /\ \A t \in Threads : Returns(nodes, result, run[t])
  BY BuildingKeeps DEF AloneInv
<1>2. PICK node, done, value : Made(node, done, value)
  BY BuildingMakes
<1>3. nodes' = Append(nodes, node) /\ result' = Append(result, value) /\ run' = run
  BY <1>2 DEF Made
<1>4. /\ nodes = [i \in 1..L |-> nodes[i]] /\ result = [i \in 1..L |-> result[i]] /\ L \in Nat
      /\ WellBuilt(nodes) /\ WellBuilt(nodes')
  BY <1>1 DEF GraphInv, KeptInv, WellBuilt
<1> HIDE DEF L
<1>5. /\ nodes' = [i \in 1..(L + 1) |-> IF i <= L THEN nodes[i] ELSE node]
      /\ result' = [i \in 1..(L + 1) |-> IF i <= L THEN result[i] ELSE value]
  BY <1>3, <1>4, AppendTo
<1>6. \A k \in 1..L : nodes'[k] = nodes[k] /\ result'[k] = result[k]
  BY <1>4, <1>5
<1>7. Len(nodes') = L + 1
  <2>1. DOMAIN nodes' = 1..(L + 1)
    BY <1>5
  <2>2. DOMAIN nodes' = 1..Len(nodes') /\ Len(nodes') \in Nat
    BY <1>4 DEF WellBuilt
  <2> QED  BY <1>4, <2>1, <2>2
<1>8. Grown(nodes, nodes')
  BY <1>4, <1>6, <1>7 DEF Grown, L
<1>9. ASSUME NEW t \in Threads PROVE Returns(nodes', result', run'[t])
  <2> DEFINE r == run[t]
  <2>1. Returns(nodes, result, r) /\ (r.at # "idle" => r.root \in 1..L)
    BY <1>1, InExecution DEF L
  <2>2. r.at # "idle" => /\ result'[r.root] = result[r.root]
                         /\ BoundBefore(nodes', r.root) <=> BoundBefore(nodes, r.root)
                         /\ ValueOf(nodes', r.root, r.given) = ValueOf(nodes, r.root, r.given)
    BY <1>6, <1>8, <2>1, StaysInGrown, ValueStays DEF L
  <2> HIDE DEF r
  <2>3. Returns(nodes', result', r)
    BY <2>1, <2>2 DEF Returns
  <2> QED  BY <1>3, <2>3 DEF r
<1> QED  BY <1>1, <1>9 DEF AloneInv

\* Where a thread is after a step.
LEMMA PlaceOf ==
  ASSUME GraphInv, NEW t \in Threads, NEW next, Proceed(t, next)
  PROVE  run'[t] = next
BY DEF Proceed, GraphInv, RunsInv

LEMMA ExecutionReturns ==
  ASSUME AloneInv, NEW t \in Threads, Execution(t)
  PROVE  nodes' = nodes /\ Returns(nodes, result', run'[t])
<1> DEFINE r == run[t]
<1>1. GraphInv /\ Returns(nodes, result, r) /\ r = AllFields(r) /\ ExecutionInv(nodes, executed, r)
  BY InExecution DEF AloneInv
<1>2. ASSUME NEW at, at \notin {"return", "returned"}, Proceed(t, [r EXCEPT !.at = at])
      PROVE  Returns(nodes, result', run'[t])
  <2> DEFINE next == [r EXCEPT !.at = at]
  <2>1. run'[t] = next
    BY <1>1, <1>2, PlaceOf
  <2>2. next.at = at
    BY <1>1 DEF AllFields
  <2> HIDE DEF next
  <2> QED  BY <1>2, <2>1, <2>2 DEF Returns
<1>3. ASSUME NEW at, NEW end, at \notin {"return", "returned"}, Proceed(t, [r EXCEPT !.at = at, !.end = end])
      PROVE  Returns(nodes, result', run'[t])
  <2> DEFINE next == [r EXCEPT !.at = at, !.end = end]
  <2>1. run'[t] = next
    BY <1>1, <1>3, PlaceOf
  <2>2. next.at = at
    BY <1>1 DEF AllFields
  <2> HIDE DEF next
  <2> QED  BY <1>3, <2>1, <2>2 DEF Returns
<1>4. ASSUME NEW number, Enter(t, number)
      PROVE  Returns(nodes, result', run'[t])
  <2> DEFINE layer == Layer(r.root, number)
             cached == {n \in layer : Reusable(n)}
             todo == layer \ cached
             next == [r EXCEPT !.at = "layer", !.layer = number, !.cached = cached, !.todo = todo]
  <2>1. Proceed(t, next)
    BY <1>4, Zenon DEF Enter
  <2>2. run'[t] = next
    BY <1>1, <2>1, PlaceOf
  <2> HIDE DEF cached, todo
  <2>3. next.at = "layer"
    BY <1>1 DEF AllFields
  <2> HIDE DEF next
  <2> QED  BY <2>2, <2>3 DEF Returns
<1>5. ASSUME NEW n \in Node, Reuse(t, n)
      PROVE  Returns(nodes, result', run'[t])
  <2> DEFINE cached == r.cached \ {n}
             results == With(r.results, n, result[n])
             next == [r EXCEPT !.cached = cached, !.results = results]
  <2>1. Proceed(t, next) /\ r.at = "layer"
    BY <1>5 DEF Reuse
  <2>2. run'[t] = next
    BY <1>1, <2>1, PlaceOf
  <2> HIDE DEF cached, results
  <2>3. next.at = r.at
    BY <1>1 DEF AllFields
  <2> HIDE DEF next
  <2> QED  BY <2>1, <2>2, <2>3 DEF Returns
<1>6. ASSUME NEW n \in Node, RunNode(t, n)
      PROVE  Returns(nodes, result', run'[t])
  <2> DEFINE todo == r.todo \ {n}
             results == With(r.results, n, Applied(n, r.given, r.results))
             lazy == r.lazy \cup {m \in {n} : nodes[m].lazy}
             next == [r EXCEPT !.todo = todo, !.results = results, !.lazy = lazy]
  <2>1. r.at = "layer" /\ (Proceed(t, next) \/ \E reason : Raise(t, reason))
    BY <1>6 DEF RunNode
  <2>2. CASE Proceed(t, next)
    <3>1. run'[t] = next
      BY <1>1, <2>2, PlaceOf
    <3> HIDE DEF todo, results, lazy
    <3>2. next.at = r.at
      BY <1>1 DEF AllFields
    <3> HIDE DEF next
    <3> QED  BY <2>1, <3>1, <3>2 DEF Returns
  <2>3. ASSUME NEW reason, Raise(t, reason) PROVE Returns(nodes, result', run'[t])
    <3> DEFINE at == "raised"
    <3>1. Proceed(t, [r EXCEPT !.at = at, !.end = reason]) /\ at \notin {"return", "returned"}
      BY <2>3 DEF Raise
    <3> HIDE DEF at
    <3> QED  BY <1>3, <3>1
  <2> QED  BY <2>1, <2>2, <2>3
<1>7. ASSUME NEW n \in Node, Settle(t, n)
      PROVE  Returns(nodes, result', run'[t])
  <2> DEFINE lazy == r.lazy \ {n}
             next == [r EXCEPT !.lazy = lazy]
  <2>1. r.at = "layer" /\ (Proceed(t, next) \/ Raise(t, "function"))
    BY <1>7 DEF Settle, Ran
  <2>2. CASE Proceed(t, next)
    <3>1. run'[t] = next
      BY <1>1, <2>2, PlaceOf
    <3> HIDE DEF lazy
    <3>2. next.at = r.at
      BY <1>1 DEF AllFields
    <3> HIDE DEF next
    <3> QED  BY <2>1, <3>1, <3>2 DEF Returns
  <2>3. CASE Raise(t, "function")
    <3> DEFINE at == "raised"
               reason == "function"
    <3>1. Proceed(t, [r EXCEPT !.at = at, !.end = reason]) /\ at \notin {"return", "returned"}
      BY <2>3 DEF Raise
    <3> HIDE DEF at, reason
    <3> QED  BY <1>3, <3>1
  <2> QED  BY <2>1, <2>2, <2>3
<1>8. ASSUME Trace(t) \/ CacheNodes(t) \/ Sort(t) \/ TakeOrder(t) \/ NextLayer(t)
      PROVE  Returns(nodes, result', run'[t])
  <2>1. \/ \E at \in {"traced", "order", "sort", "keep"} : Proceed(t, [r EXCEPT !.at = at])
        \/ Proceed(t, [r EXCEPT !.at = "raised", !.end = "order"])
        \/ \E number : Enter(t, number)
    <3>1. CASE Trace(t)
      <4> DEFINE at == IF sorted[run[t].root] = "none" THEN "traced" ELSE "order"
      <4>1. Proceed(t, [r EXCEPT !.at = at]) /\ at \in {"traced", "order", "sort", "keep"}
        BY <3>1 DEF Trace
      <4> HIDE DEF at
      <4> QED  BY <4>1
    <3>2. CASE CacheNodes(t)
      BY <3>2 DEF CacheNodes
    <3>3. CASE Sort(t)
      BY <3>3 DEF Sort
    <3>4. CASE TakeOrder(t)
      BY <3>4, Zenon DEF TakeOrder
    <3>5. CASE NextLayer(t)
      <4>1. Proceed(t, [r EXCEPT !.at = "keep"]) \/ Enter(t, r.layer + 1)
        BY <3>5 DEF NextLayer
      <4> QED  BY <4>1
    <3> QED  BY <1>8, <3>1, <3>2, <3>3, <3>4, <3>5
  <2>2. ASSUME NEW at \in {"traced", "order", "sort", "keep"}, Proceed(t, [r EXCEPT !.at = at])
        PROVE  Returns(nodes, result', run'[t])
    BY <1>2, <2>2
  <2>3. CASE Proceed(t, [r EXCEPT !.at = "raised", !.end = "order"])
    <3> DEFINE at == "raised"
               reason == "order"
    <3>1. Proceed(t, [r EXCEPT !.at = at, !.end = reason]) /\ at \notin {"return", "returned"}
      BY <2>3
    <3> HIDE DEF at, reason
    <3> QED  BY <1>3, <3>1
  <2> QED  BY <1>4, <2>1, <2>2, <2>3
<1>9. ASSUME KeepResult(t)
      PROVE  Returns(nodes, result', run'[t])
  <2> DEFINE next == [r EXCEPT !.at = "return"]
  <2>1. r.at = "keep" /\ result' = [result EXCEPT ![r.root] = r.results[r.root]] /\ Proceed(t, next)
    BY <1>9 DEF KeepResult
  <2>2. run'[t] = next
    BY <1>1, <2>1, PlaceOf
  <2>3. r.root \in DOMAIN r.results /\ OwnResults(nodes, r) /\ r.root \in 1..Len(nodes)
    BY <1>1, <2>1 DEF ExecutionInv
  <2>4. result'[r.root] = r.results[r.root]
    BY <1>1, <2>1, <2>3 DEF GraphInv, KeptInv
  <2>5. next.at = "return" /\ next.root = r.root /\ next.given = r.given
    BY <1>1 DEF AllFields
  <2> HIDE DEF next, r
  <2> QED  BY <2>2, <2>3, <2>4, <2>5 DEF Returns, OwnResults
<1>10. ASSUME Return(t)
      PROVE  Returns(nodes, result', run'[t])
  <2> DEFINE next == [r EXCEPT !.at = "returned", !.end = result[r.root]]
  <2>1. r.at = "return" /\ Proceed(t, next)
    BY <1>10 DEF Return
  <2>2. run'[t] = next
    BY <1>1, <2>1, PlaceOf
  <2>3. /\ next.at = "returned" /\ next.root = r.root /\ next.given = r.given
        /\ next.end = result[r.root]
    BY <1>1 DEF AllFields
  <2> HIDE DEF next, r
  <2> QED  BY <1>1, <2>1, <2>2, <2>3 DEF Returns
<1>11. nodes' = nodes
  BY DEF Execution, Trace, CacheNodes, Sort, TakeOrder, NextLayer, KeepResult, Return, Reuse,
         RunNode, Settle, Raise
<1> HIDE DEF r
<1> QED  BY <1>5, <1>6, <1>7, <1>8, <1>9, <1>10, <1>11 DEF Execution

\* Where one thread executes at a time, execute returns the value of the node for
\* the inputs it was given, whatever was kept before: what map gets wrong is due
\* to the threads alone.
THEOREM OneThreadReturnsItsOwn ==
  (\A t, u \in Threads : t = u) => (GraphSpec => []MapReturnsOwnResults)
<1> SUFFICES ASSUME \A t, u \in Threads : t = u PROVE GraphSpec => []MapReturnsOwnResults
  OBVIOUS
<1>1. GraphInit => AloneInv
  <2> SUFFICES ASSUME GraphInit PROVE AloneInv
    OBVIOUS
  <2>1. \A t \in Threads : run[t].at = "idle"
    BY DEF GraphInit, Nobody
  <2> QED  BY <2>1, GraphStarts DEF AloneInv, Returns
<1>2. ASSUME AloneInv, GraphNext PROVE AloneInv'
  <2>1. GraphInv'
    BY <1>2, GraphSteps DEF AloneInv
  <2>2. ASSUME NEW t \in Threads, nodes' = nodes, Returns(nodes, result', run'[t]) PROVE AloneInv'
    <3>1. \A u \in Threads : Returns(nodes', result', run'[u])
      BY <2>2
    <3> QED  BY <2>1, <3>1 DEF AloneInv
  <2>3. ASSUME NEW t \in Threads, NEW n \in Node, NEW given, Begin(t, n, given) PROVE AloneInv'
    <3> DEFINE next == [Nobody EXCEPT !.at = "trace", !.root = n, !.given = given,
                                      !.runs = run[t].runs + 1]
    <3>1. Proceed(t, next) /\ nodes' = nodes
      BY <2>3 DEF Begin
    <3>2. run'[t] = next
      BY <1>2, <3>1, PlaceOf DEF AloneInv
    <3>3. next.at = "trace"
      BY DEF Nobody
    <3> HIDE DEF next
    <3>4. Returns(nodes, result', run'[t])
      BY <3>2, <3>3 DEF Returns
    <3> QED  BY <2>2, <3>1, <3>4
  <2>4. ASSUME NEW t \in Threads, Execution(t) PROVE AloneInv'
    BY <1>2, <2>2, <2>4, ExecutionReturns
  <2>5. CASE MakeNode \/ BindSome \/ \E n, m \in Node : Pipe(n, m)
    BY <1>2, <2>5, BuildingLeavesReturns
  <2> QED  BY <1>2, <2>3, <2>4, <2>5 DEF GraphNext
<1>3. AloneInv /\ [GraphNext]_graphVars => AloneInv'
  <2>1. AloneInv /\ UNCHANGED graphVars => AloneInv'
    BY DEF AloneInv, GraphInv, KeptInv, RunsInv, graphVars
  <2> QED  BY <1>2, <2>1
<1>4. AloneInv => MapReturnsOwnResults
  <2> SUFFICES ASSUME AloneInv, NEW t \in Threads, run[t].at = "returned",
                      BoundBeforeExecuted(run[t].root)
               PROVE  run[t].end = Value(run[t].root, run[t].given)
    BY DEF MapReturnsOwnResults
  <2>1. BoundBefore(nodes, run[t].root)
    BY OfTheseNodes DEF BoundBefore, BoundBeforeExecuted
  <2>2. run[t].end = ValueOf(nodes, run[t].root, run[t].given)
    BY <2>1 DEF AloneInv, Returns
  <2> QED  BY <2>2, OfTheseNodes
<1> QED  BY <1>1, <1>3, <1>4, PTL DEF GraphSpec
=============================================================================

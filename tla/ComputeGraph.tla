---------------------------- MODULE ComputeGraph ----------------------------
(***************************************************************************)
(* The compute graph: nodes know their parents only, bind copies a node    *)
(* with one more input bound, and execute traces the ancestors of a node   *)
(* and runs them layer by layer.  map lets several threads execute one     *)
(* node, each with inputs of its own; the nodes and what they cache are    *)
(* shared.                                                                 *)
(*                                                                         *)
(* Nodes are numbered in the order they were made.  What a function makes  *)
(* of its arguments is the tuple of them, so that a value tells where it   *)
(* comes from.                                                             *)
(***************************************************************************)
EXTENDS Naturals, Sequences, FiniteSets

CONSTANTS
  Slots,     \* the inputs of a function
  Required,  \* those that have no default
  Vars,      \* InputVar objects
  Name,      \* the name of each
  Given,     \* what a caller may give for a name
  Threads,   \* those that execute nodes
  Nil,       \* None: no value, no input
  MaxNodes,  \* bound: nodes made
  MaxRuns    \* bound: executions of a thread

VARIABLES
  nodes,     \* TaskNode without what changes
  executed, result, \* _executed and _result of each node
  sorted,    \* "none", "traced" while _cached_order is missing, or "sorted"
  run        \* the execution each thread is in, with its local variables

graphVars == <<nodes, executed, result, sorted, run>>

Constant == <<"constant">>
OfVar(v) == <<"var", v>>
OfNode(n) == <<"node", n>>

Names == {Name[v] : v \in Vars}

ASSUME GraphAssumption ==
  /\ Required \subseteq Slots /\ MaxNodes \in Nat
  /\ Nil \notin Vars /\ \A v \in Vars : Nil # OfVar(v)
  /\ \A n \in 1..MaxNodes : Nil # OfNode(n)

Node == DOMAIN nodes

\* A node and all its parents, and theirs.
Ancestors(n) ==
  LET all[k \in Node] == {k} \cup UNION {all[p] : p \in nodes[k].parents} IN all[n]

\* _topological_sort, by rounds: what is placed after each.  As many rounds as
\* there are nodes place them all.
Placed(n) ==
  LET placed[k \in 0..MaxNodes] ==
        IF k = 0 THEN {}
        ELSE placed[k - 1] \cup {m \in Ancestors(n) : nodes[m].parents \subseteq placed[k - 1]}
  IN  placed

Layer(n, number) == Placed(n)[number] \ Placed(n)[number - 1]

Nobody == [at |-> "idle", root |-> Nil, given |-> <<>>, layer |-> 0, cached |-> {},
           todo |-> {}, results |-> <<>>, lazy |-> {}, end |-> Nil, runs |-> 0]

GraphInit ==
  /\ nodes = <<>> /\ executed = <<>> /\ result = <<>> /\ sorted = <<>>
  /\ run = [t \in Threads |-> Nobody]

-----------------------------------------------------------------------------
(* Building a graph.                                                        *)

\* A node with its _executed and _result.
Made(node, done, value) ==
  /\ Len(nodes) < MaxNodes
  /\ nodes' = Append(nodes, node)
  /\ executed' = Append(executed, done)
  /\ result' = Append(result, value)
  /\ sorted' = Append(sorted, "none")
  /\ UNCHANGED run

\* The function of a node may return a future.
MakeNode ==
  \E lazy \in BOOLEAN :
    Made([func |-> Len(nodes) + 1, lazy |-> lazy, bound |-> [s \in Slots |-> Nil],
          parents |-> {}, missing |-> [i \in Names |-> Nil], anew |-> FALSE], FALSE, Nil)

\* What a value needs from the caller.
Needs(value) ==
  CASE value = Constant  -> [i \in Names |-> Nil]
    [] value[1] = "var"  -> [i \in Names |-> IF i = Name[value[2]] THEN value[2] ELSE Nil]
    [] value[1] = "node" -> nodes[value[2]].missing

\* Mutation: only an InputVar bound to the node itself is merged.
MergedOwn(missing, value) ==
  IF value[1] = "node" THEN missing
  ELSE [i \in Names |-> IF Needs(value)[i] = Nil THEN missing[i] ELSE Needs(value)[i]]

Merged(missing, value) ==
  [i \in Names |-> IF Needs(value)[i] = Nil THEN missing[i] ELSE Needs(value)[i]]

\* Two objects of one name are refused.
Conflict(missing, value) ==
  \E i \in Names : missing[i] # Nil /\ Needs(value)[i] \notin {Nil, missing[i]}

\* bind makes a copy, with all a node has but its cached order; a parent that is
\* replaced stays one, and so does what it needed.  A value that has the node
\* among its ancestors is refused.
Bind(n, s, value) ==
  LET node == nodes[n]
      missing == Merged(node.missing, value)
  IN  /\ value[1] = "node" => n \notin Ancestors(value[2])
      /\ ~Conflict(node.missing, value)
      /\ Made([func |-> node.func, lazy |-> node.lazy,
               bound |-> [node.bound EXCEPT ![s] = value],
               parents |-> node.parents \cup IF value[1] = "node" THEN {value[2]} ELSE {},
               missing |-> missing,
               anew |-> executed[n] /\ \A i \in Names : missing[i] = Nil],
              executed[n], result[n])

BindSome ==
  \E n \in Node, s \in Slots :
    \/ Bind(n, s, Constant)
    \/ \E v \in Vars : Bind(n, s, OfVar(v))
    \/ \E m \in Node : Bind(n, s, OfNode(m))

\* m >> n: the input that is bound, if it can be told.
PipeSlots ==
  IF Cardinality(Required) = 1 THEN Required
  ELSE IF Cardinality(Slots) = 1 THEN Slots ELSE {}

Pipe(n, m) == \E s \in PipeSlots : Bind(n, s, OfNode(m))

-----------------------------------------------------------------------------
(* execute                                                                  *)

Proceed(t, next) == run' = [run EXCEPT ![t] = next]

\* All that is missing has to be given, and the node itself complete.
Begin(t, n, given) ==
  /\ run[t].at \in {"idle", "returned", "raised"} /\ run[t].runs < MaxRuns
  /\ \A s \in Required : nodes[n].bound[s] # Nil
  /\ {i \in Names : nodes[n].missing[i] # Nil} \subseteq DOMAIN given
  /\ Proceed(t, [Nobody EXCEPT !.at = "trace", !.root = n, !.given = given,
                               !.runs = run[t].runs + 1])
  /\ UNCHANGED <<nodes, executed, result, sorted>>

\* The nodes are cached, and then their order.
Trace(t) ==
  /\ run[t].at = "trace"
  /\ Proceed(t, [run[t] EXCEPT !.at = IF sorted[run[t].root] = "none" THEN "traced" ELSE "order"])
  /\ UNCHANGED <<nodes, executed, result, sorted>>

CacheNodes(t) ==
  /\ run[t].at = "traced"
  /\ sorted' = [sorted EXCEPT ![run[t].root] = IF @ = "none" THEN "traced" ELSE @]
  /\ Proceed(t, [run[t] EXCEPT !.at = "sort"])
  /\ UNCHANGED <<nodes, executed, result>>

Sort(t) ==
  /\ run[t].at = "sort"
  /\ sorted' = [sorted EXCEPT ![run[t].root] = "sorted"]
  /\ Proceed(t, [run[t] EXCEPT !.at = "order"])
  /\ UNCHANGED <<nodes, executed, result>>

\* Mutation: what has been executed is not executed again.
ReusableAlways(n) == executed[n]

Reusable(n) == executed[n] /\ \A i \in Names : nodes[n].missing[i] = Nil

\* What is reused in a layer is decided before anything of it is run.
Enter(t, number) ==
  LET layer == Layer(run[t].root, number)
      cached == {n \in layer : Reusable(n)}
  IN  Proceed(t, [run[t] EXCEPT !.at = "layer", !.layer = number, !.cached = cached,
                                 !.todo = layer \ cached])

\* A thread that gets here while another one sorts finds no order, and raises.
TakeOrder(t) ==
  /\ run[t].at = "order"
  /\ IF sorted[run[t].root] = "sorted" THEN Enter(t, 1)
     ELSE Proceed(t, [run[t] EXCEPT !.at = "raised", !.end = "order"])
  /\ UNCHANGED <<nodes, executed, result, sorted>>

\* Why a node cannot be run: its function is not given an argument, or the
\* caller not an input, or the result of a parent is not there.
Lacks(t, n) ==
  LET bound == nodes[n].bound
      from == {bound[s] : s \in Slots}
  IN  {"argument" : s \in {r \in Required : bound[r] = Nil}}
      \cup {"input" : v \in {w \in Vars : OfVar(w) \in from /\ Name[w] \notin DOMAIN run[t].given}}
      \cup {"parent" : p \in {m \in Node : OfNode(m) \in from /\ m \notin DOMAIN run[t].results}}

\* The value of a node, from the inputs and the values of its parents.
Applied(n, given, values) ==
  <<nodes[n].func,
    [s \in Slots |->
       LET b == nodes[n].bound[s]
       IN  IF b \in {Nil, Constant} THEN b
           ELSE IF b[1] = "var" THEN given[Name[b[2]]] ELSE values[b[2]]]>>

\* One more result.
With(results, n, value) ==
  [m \in DOMAIN results \cup {n} |-> IF m = n THEN value ELSE results[m]]

Reuse(t, n) ==
  /\ run[t].at = "layer" /\ n \in run[t].cached
  /\ Proceed(t, [run[t] EXCEPT !.cached = @ \ {n}, !.results = With(@, n, result[n])])
  /\ UNCHANGED <<nodes, executed, result, sorted>>

Raise(t, reason) ==
  /\ Proceed(t, [run[t] EXCEPT !.at = "raised", !.end = reason])
  /\ UNCHANGED <<nodes, executed, result, sorted>>

\* A node of the layer, in any order, as nodes of a layer run in parallel.
RunNode(t, n) ==
  /\ run[t].at = "layer" /\ run[t].cached = {} /\ n \in run[t].todo
  /\ \/ /\ Lacks(t, n) = {}
        /\ Proceed(t, [run[t] EXCEPT !.todo = @ \ {n},
                                     !.results = With(@, n, Applied(n, run[t].given, @)),
                                     !.lazy = @ \cup {m \in {n} : nodes[m].lazy}])
        /\ UNCHANGED <<nodes, executed, result, sorted>>
     \/ \E reason \in Lacks(t, n) \cup {"function"} : Raise(t, reason)

Ran(t) == run[t].at = "layer" /\ run[t].cached = {} /\ run[t].todo = {}

\* A future is waited for, and only its value is kept in the node.
Settle(t, n) ==
  /\ Ran(t) /\ n \in run[t].lazy
  /\ \/ /\ result' = [result EXCEPT ![n] = run[t].results[n]]
        /\ executed' = [executed EXCEPT ![n] = TRUE]
        /\ Proceed(t, [run[t] EXCEPT !.lazy = @ \ {n}])
        /\ UNCHANGED <<nodes, sorted>>
     \/ Raise(t, "function")

NextLayer(t) ==
  /\ Ran(t) /\ run[t].lazy = {}
  /\ IF run[t].root \in DOMAIN run[t].results THEN Proceed(t, [run[t] EXCEPT !.at = "keep"])
     ELSE Enter(t, run[t].layer + 1)
  /\ UNCHANGED <<nodes, executed, result, sorted>>

\* The result of the root is kept in the node, and what is there is returned.
KeepResult(t) ==
  LET n == run[t].root
  IN  /\ run[t].at = "keep"
      /\ result' = [result EXCEPT ![n] = run[t].results[n]]
      /\ executed' = [executed EXCEPT ![n] = TRUE]
      /\ Proceed(t, [run[t] EXCEPT !.at = "return"])
      /\ UNCHANGED <<nodes, sorted>>

Return(t) ==
  /\ run[t].at = "return"
  /\ Proceed(t, [run[t] EXCEPT !.at = "returned", !.end = result[run[t].root]])
  /\ UNCHANGED <<nodes, executed, result, sorted>>

Execution(t) ==
  \/ Trace(t) \/ CacheNodes(t) \/ Sort(t) \/ TakeOrder(t) \/ NextLayer(t)
  \/ KeepResult(t) \/ Return(t)
  \/ \E n \in Node : Reuse(t, n) \/ RunNode(t, n) \/ Settle(t, n)

\* The threads of a map are given the inputs of one item each.
GraphNext ==
  \/ MakeNode \/ BindSome \/ \E n, m \in Node : Pipe(n, m)
  \/ \E t \in Threads : \E n \in Node, names \in SUBSET Names :
       \E given \in [names -> Given] : Begin(t, n, given)
  \/ \E t \in Threads : Execution(t)

GraphSpec == GraphInit /\ [][GraphNext]_graphVars

-----------------------------------------------------------------------------
(* Properties                                                               *)

\* The value of a node for given inputs, by the bindings alone.
Value(n, given) ==
  LET value[k \in Node] == Applied(k, given, [p \in nodes[k].parents |-> value[p]])
  IN  value[n]

\* No ancestor was bound after it had been executed with nothing missing: such
\* a copy keeps the result of the node it was copied from.
BoundBeforeExecuted(n) == \A m \in Ancestors(n) : ~nodes[m].anew

\* Whatever other threads run and keep in the nodes they share, an execution
\* works with values made from its own inputs.
OwnInputsOnly ==
  \A t \in Threads : \A n \in DOMAIN run[t].results :
    BoundBeforeExecuted(n) => run[t].results[n] = Value(n, run[t].given)

\* What bind has collected as missing, and the layers, are all that is needed:
\* an execution that has begun lacks no input and no result of a parent.
NothingMissing ==
  \A t \in Threads : run[t].at = "raised" => run[t].end \notin {"input", "parent"}

\* map returns "the result of each group of inputs".  It does not: the last
\* assignment of a result and its return are two steps of each thread.
MapReturnsOwnResults ==
  \A t \in Threads :
    run[t].at = "returned" /\ BoundBeforeExecuted(run[t].root)
      => run[t].end = Value(run[t].root, run[t].given)
=============================================================================

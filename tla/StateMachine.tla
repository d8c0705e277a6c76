---------------------------- MODULE StateMachine ----------------------------
(***************************************************************************)
(* flowlet/fsm/machine.py: the targets an edge applies to the runtime of a *)
(* finite state machine.  A runtime is a record of its state, its status   *)
(* and its history.                                                        *)
(***************************************************************************)
EXTENDS Naturals, Sequences

CONSTANTS
  Transitions,  \* the transitions of the machine, in the order they are tried;
                \* event is None in one that matches every event, guarded and
                \* acts say whether it has a guard and an action, onError is
                \* None or a state
  Initial,      \* its initial state
  Terminals     \* its terminal states

None == "None"

Ended == {"terminal", "failed"}

Runtime(state, status, history) == [state |-> state, status |-> status, history |-> history]

\* Nothing is under the key of the machine yet.
Absent == Runtime(None, "absent", <<>>)

\* The status of a machine that has just got to a state.
StatusIn(state) == IF state \in Terminals THEN "terminal" ELSE "running"

\* fsm_start_target.  A failed machine stays failed, except in a terminal state.
Started(r, reset) ==
  IF reset \/ r = Absent THEN Runtime(Initial, "running", <<>>)
  ELSE IF r.state \in Terminals THEN [r EXCEPT !.status = "terminal"]
  ELSE IF r.status # "failed" THEN [r EXCEPT !.status = "running"] ELSE r

Matching(state, event) ==
  {i \in DOMAIN Transitions :
     /\ state \in Transitions[i].source
     /\ Transitions[i].event \in {None, event}}

\* What a guard and an action may do to a transition.
Outcomes(t) ==
  {"done"} \cup (IF t.guarded THEN {"rejected", "raised"} ELSE {})
           \cup (IF t.acts THEN {"raised"} ELSE {})

\* Where a step that was tried leaves the machine, and the record of it.
Moved(r, to, status) ==
  Runtime(to, status, Append(r.history, [source |-> r.state, target |-> to]))

\* Mutation: a step that failed is recorded as it was meant.
TriedAsMeant(r, t, outcome) ==
  CASE outcome = "done"     -> Moved(r, t.target, StatusIn(t.target))
    [] outcome = "rejected" -> Moved(r, r.state, "failed")
    [] outcome = "raised"   ->
         IF t.onError # None
         THEN [Moved(r, t.target, StatusIn(t.onError)) EXCEPT !.state = t.onError]
         ELSE Moved(r, r.state, "failed")

Tried(r, t, outcome) ==
  CASE outcome = "done"     -> Moved(r, t.target, StatusIn(t.target))
    [] outcome = "rejected" -> Moved(r, r.state, "failed")
    [] outcome = "raised"   ->
         IF t.onError # None THEN Moved(r, t.onError, StatusIn(t.onError))
         ELSE Moved(r, r.state, "failed")

\* The runtimes fsm_step_target may leave.  A runtime that is not there is made,
\* and is running then.
Stepped(r, event) ==
  LET before == IF r = Absent THEN Runtime(Initial, "running", <<>>) ELSE r
      matching == Matching(before.state, event)
      first == CHOOSE i \in matching : \A j \in matching : i <= j
  IN  IF before.status \in Ended THEN {before}
      ELSE IF matching = {} THEN {[before EXCEPT !.status = "failed"]}
      ELSE {Tried(before, Transitions[first], o) : o \in Outcomes(Transitions[first])}
=============================================================================

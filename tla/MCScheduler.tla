----------------------------- MODULE MCScheduler -----------------------------
(***************************************************************************)
(* TLC instances of Scheduler: an action that repeats in a thread or as a  *)
(* coroutine, and one, run in the loop thread, that awaits it.             *)
(***************************************************************************)
EXTENDS Scheduler

CONSTANTS first, second, go

TwoActions == {first, second}

FirstRepeats == [a \in TwoActions |-> IF a = first THEN "repeat" ELSE "once"]
FirstOnChange == [a \in TwoActions |-> IF a = first THEN "on_change" ELSE "once"]

CoroutineThenSync == [a \in TwoActions |-> IF a = first THEN "coroutine" ELSE "sync"]
ThreadThenSync == [a \in TwoActions |-> IF a = first THEN "thread" ELSE "sync"]

TwiceThenOnce == [a \in TwoActions |-> IF a = first THEN 2 ELSE 1]

AfterEachOther == [a \in TwoActions |-> IF a = first THEN {go} ELSE {first}]

=============================================================================

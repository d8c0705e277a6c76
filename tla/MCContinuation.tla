--------------------------- MODULE MCContinuation ---------------------------
EXTENDS Continuation, TLC

Plain == [start |-> TRUE, resume |-> FALSE, retry |-> FALSE, checkpoints |-> FALSE,
          idempotency |-> "idempotent", maxAttempts |-> 1, vouched |-> FALSE]

\* A step that may always be restarted, one that may be tried twice once its
\* remains are cleaned up and whose output survives changes upstream, and one
\* that may only be resumed once it has run.
Kinds ==
  {Plain,
   [Plain EXCEPT !.retry = TRUE, !.maxAttempts = 2, !.idempotency = "requires_cleanup",
                 !.vouched = TRUE],
   [Plain EXCEPT !.resume = TRUE, !.checkpoints = TRUE, !.idempotency = "non_idempotent"]}

\* A chain and a join whose sorted order is not topological, and a cycle, which
\* is refused.
Shapes ==
  {(1 :> {2} @@ 2 :> {3} @@ 3 :> {}), (1 :> {2, 3} @@ 2 :> {} @@ 3 :> {}),
   (1 :> {2} @@ 2 :> {3} @@ 3 :> {1})}

Orders == {<<1, 2, 3>>, <<3, 2, 1>>}

=============================================================================

---------------------------- MODULE MCEventFeed ----------------------------
(* TLC instances of EventFeed.  Two threads make the passes over a buffer,  *)
(* and each order in which they emit is a feed of its own: its runs are     *)
(* kept short, the second shorter than the first.                           *)
EXTENDS EventFeed

ShortRuns == sink = "buffer" => records + value <= 3 - run
=============================================================================

--------------------------- MODULE RuntimeLineage ---------------------------
(***************************************************************************)
(* What RuntimeDirectoryManager promises of a runtime directory: it holds  *)
(* one runtime lineage, created once and afterwards replaced, atomically,  *)
(* by reruns that each add one generation under another runtime id.        *)
(***************************************************************************)
EXTENDS Naturals

CONSTANTS
  RuntimeId,  \* runtime ids callers make up
  None

VARIABLE lineage  \* the identity the directory stands for, None before create

Identity == [id: RuntimeId, generation: Nat \ {0}]

LineageInit == lineage = None

Create == lineage = None /\ lineage' \in Identity

Rerun ==
  /\ lineage # None
  /\ lineage' \in Identity
  /\ lineage'.generation = lineage.generation + 1
  /\ lineage'.id # lineage.id

LineageSpec == LineageInit /\ [][Create \/ Rerun]_lineage
=============================================================================

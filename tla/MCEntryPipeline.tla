--------------------------- MODULE MCEntryPipeline ---------------------------
(***************************************************************************)
(* Values of the entry pipeline's constants for TLC.                       *)
(***************************************************************************)
EXTENDS EntryPipeline, TLC

\* A loss that by itself reaches half of the starting balance, and a profit.
SmallPnls == {-1, 1}

\* Tokens are interchangeable: nothing orders them.
MintSymmetry == Permutations(Mints)

==============================================================================

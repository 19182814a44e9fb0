---------------------------- MODULE MCProviderGate ----------------------------
(***************************************************************************)
(* Symmetry of the provider gate's requests, for TLC.                      *)
(***************************************************************************)
EXTENDS ProviderGate, TLC

\* Requests are interchangeable: nothing orders them but their arrival.
RequestSymmetry == Permutations(Requests)

==============================================================================

----------------------------- MODULE MCApproval -----------------------------
(* Model-checking instance of Approval. *)
EXTENDS Approval, TLC
(* Callers, tokens, requests and inputs are only ever compared. *)
Symmetry ==
  Permutations(Identity) \cup Permutations(Token) \cup Permutations(Run)
    \cup Permutations(Input)
=============================================================================

---------------------------- MODULE MCOneTimeUse ----------------------------
(* The instance of OneTimeUse that TLC checks: see OneTimeUse.cfg. *)
EXTENDS OneTimeUse, TLC

\* Submits, nonces and spellings are interchangeable.
SubmitSymmetry ==
    Permutations(Submits) \cup Permutations(Nonces) \cup Permutations(Spellings)
=============================================================================

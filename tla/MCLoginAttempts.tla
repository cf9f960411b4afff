-------------------------- MODULE MCLoginAttempts --------------------------
(* The instance of LoginAttempts that TLC checks: see LoginAttempts.cfg. *)
EXTENDS LoginAttempts, TLC

\* Submits, addresses and logins are interchangeable.
SubmitSymmetry == Permutations(Submits) \cup Permutations(Ips) \cup Permutations(Logins)
=============================================================================

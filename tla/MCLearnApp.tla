----------------------------- MODULE MCLearnApp -----------------------------
(* The instance of LearnApp that TLC checks: see LearnApp.cfg. *)
EXTENDS LearnApp, TLC

CookieSymmetry == Permutations(Cookies) \cup Permutations(Users) \cup Permutations(Flights)
=============================================================================

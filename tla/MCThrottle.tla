----------------------------- MODULE MCThrottle -----------------------------
(***************************************************************************)
(* The throttle in small: thresholds in the proportions of the code, the   *)
(* first wait shorter than the window, the last one longer.                *)
(***************************************************************************)
EXTENDS LoginThrottle, TLC

MCThresholds ==
    <<[failures |-> 2, backoff |-> 1], [failures |-> 3, backoff |-> 2],
      [failures |-> 4, backoff |-> 5]>>

Symmetry == Permutations(SignIn) \cup Permutations(Email) \cup Permutations(Ip)
=============================================================================

-------------------------------- MODULE MCSignIn --------------------------------
(* Small instances of SignIn: both sign-ins belong to one registration.  The   *)
(* first one is offered everything the run asks about; the second one is there *)
(* for the sweeps that its start pays for, and may go no further than it says. *)
EXTENDS SignIn, TLC

CONSTANTS c1, f1, First, Second

MCClientOf == [f \in Flow |-> c1]

MCOffered == [f \in Flow |-> IF f = f1 THEN First ELSE Second]

MCSymmetry == Permutations(Request)
=============================================================================

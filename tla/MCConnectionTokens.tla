-------------------------- MODULE MCConnectionTokens --------------------------
(* Small instances of ConnectionTokens: every request has a worker of its own, *)
(* so that two requests share neither the held answers nor the verified        *)
(* bearers; what follows each other in one worker shares both.                 *)
EXTENDS ConnectionTokens, TLC

CONSTANTS w1, w2

\* the first request is served by the first worker, every other by the last
MCWorkerOf == LET first == CHOOSE r \in Request : TRUE
              IN [r \in Request |-> IF r = first THEN w1 ELSE w2]

MCSymmetry == Permutations(Refresh) \cup Permutations(Access) \cup Permutations(Family)
=============================================================================

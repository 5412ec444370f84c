------------------------------- MODULE MCAuditLog -------------------------------
(* Small instances of AuditLog.  The names of the chains are in the order of   *)
(* the code: "i:instance", then "u:...", then "x:exchange".                    *)
EXTENDS AuditLog, TLC

CONSTANTS alice

MCRank == [c \in Chain |-> CASE c = Instance -> 0 [] c = alice -> 1
                             [] c = Exchange -> 3 [] OTHER -> 2]

MCSymmetry == Permutations(Task)
=============================================================================

------------------------------ MODULE MCEnrollment ------------------------------
(* Small instances of Enrollment: two enrollments of one account, its owner's  *)
(* browser, and a second browser whose user has another account.               *)
EXTENDS Enrollment, TLC

CONSTANTS f1, f2, b1, b2, owner, other

MCAccountOf == [f \in Flow |-> owner]
MCSignsInAs == [b \in Browser |-> IF b = b1 THEN owner ELSE other]

MCSymmetry == Permutations(Request)
=============================================================================

---------------------------- MODULE CredentialChain ----------------------------
(***************************************************************************)
(* What the token endpoint promises of one connection: its refresh tokens  *)
(* form one chain.  The first token opens it, a rotation replaces the tip  *)
(* by a token never seen before, and once it is over it stays over.        *)
(* Several chains may run out in the same step: one insert purges all rows *)
(* whose time has come.                                                    *)
(***************************************************************************)
CONSTANTS Auth, Refresh

VARIABLES
  phase,   \* "new", "open" or "over", per connection
  tip,     \* the tokens that can be spent, per connection
  spent    \* every token ever written

vars == <<phase, tip, spent>>

Init ==
  /\ phase = [a \in Auth |-> "new"]
  /\ tip = [a \in Auth |-> {}]
  /\ spent = {}

(* The connections S are over, and a (when not among them) has tip T.       *)
Settle(S, a, T) ==
  /\ phase' = [b \in Auth |-> IF b \in S THEN "over" ELSE IF b = a THEN "open" ELSE phase[b]]
  /\ tip' = [b \in Auth |-> IF b \in S THEN {} ELSE IF b = a THEN T ELSE tip[b]]

Extend(a, t) ==
  /\ t \notin spent
  /\ spent' = spent \cup {t}
  /\ \E S \in SUBSET Auth :
       \/ phase[a] \in {"new", "open"} /\ Settle(S \ {a}, a, {t})
       \/ phase[a] = "over" /\ Settle(S \cup {a}, a, {})     \* too late to count

EndSome == \E S \in SUBSET Auth : \E a \in S : Settle(S, a, {}) /\ UNCHANGED spent

Next == EndSome \/ \E a \in Auth, t \in Refresh : Extend(a, t)

Spec == Init /\ [][Next]_vars
=============================================================================

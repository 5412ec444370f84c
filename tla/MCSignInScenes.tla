---------------------------- MODULE MCSignInScenes ----------------------------
(* Two instances of SignIn on the same variables, one of which a behaviour     *)
(* chooses.  "custody" is the one of the configuration: anything may be done   *)
(* and anything may fail.  "decision": both buttons are pressed twice while    *)
(* the switch turns and a sweep runs, under a registration that stays, and     *)
(* nobody dies: here a request is sure to come to its end.                     *)
EXTENDS MCSignIn

CONSTANTS Pressed, CodeLasts, ClientLasts
VARIABLE scene

Scenes == {"custody", "decision"}
SceneVars == <<vars, scene>>

D == INSTANCE SignIn WITH
  Offered <- [f \in Flow |-> IF f = f1 THEN Pressed ELSE Second],
  AUTH_CODE_TTL <- CodeLasts, Faults <- {},
  UNUSED_CLIENT_TTL <- ClientLasts, IDLE_CLIENT_TTL <- ClientLasts

SceneInit == Init /\ scene \in Scenes
SceneNext ==
  \/ scene = "custody" /\ Next /\ UNCHANGED scene
  \/ scene = "decision" /\ D!Next /\ UNCHANGED scene

(* An accepted request is driven to its end by the event loop.                 *)
SceneSpec ==
  /\ SceneInit /\ [][SceneNext]_SceneVars
  /\ \A r \in Request : WF_SceneVars(scene = "decision" /\ D!Advance(r) /\ UNCHANGED scene)

(* As long as nobody dies: a row that a refusal has claimed or a sweep has     *)
(* listed is gone in the end, whether or not Nextcloud answers (_withdraw,     *)
(* sweep_abandoned).                                                           *)
DoomedIsForgotten == \A f \in Flow : scene = "decision" /\ Doomed(f) ~> ~RowThere(f)
===============================================================================

------------------------- MODULE MCProviderSession --------------------------
(* Small instances of ProviderSession, in two scenes: one request while      *)
(* processes come and go, and all of them with one process that lasts.       *)
EXTENDS ProviderSession

CONSTANT Alone   \* the request of the first scene
VARIABLE scene

SceneInit == SessionInit /\ scene \in {"processes", "requests"}

SceneNext ==
  /\ SessionNext /\ UNCHANGED scene
  /\ scene = "processes" => \A r \in Requests \ {Alone} : UNCHANGED pc[r] /\ UNCHANGED attempts[r]
  /\ scene = "requests" =>
       /\ UNCHANGED <<cancelled, killed, streams>> /\ session' <= 1
       /\ child' \in {"none", "started"} \cup Listening
       /\ host' \in {"idle", "reading", "running"}

SceneSpec == SceneInit /\ [][SceneNext]_<<scene, vars, sessionVars>> /\ Fairness
=============================================================================

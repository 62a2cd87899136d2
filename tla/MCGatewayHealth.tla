--------------------------- MODULE MCGatewayHealth ---------------------------
(* A behaviour is one of a license through time (LicenseWatch), of a rollout *)
(* and its status (GatewayRollout), or of the objects of a gateway           *)
(* (OwnedObjects).  The other two parts can take no step.                    *)
EXTENDS LicenseWatch, GatewayRollout, OwnedObjects

NoLook ==
  /\ now = Horizon /\ secret = Nil /\ spec = [edition |-> "CE", fallback |-> FALSE]
  /\ lic = NoLicense /\ pods = [edition |-> "CE", license |-> Nil]
  /\ due = Never /\ look = FALSE /\ clean = FALSE /\ edited = 0
  /\ budget = [edits |-> 0, faults |-> 0]

NoRollout ==
  /\ wanted = [config |-> 1, image |-> 1, license |-> "fine", plugins |-> TRUE, refused |-> "none"]
  /\ dep = NoDeployment /\ depCache = NoDeployment
  /\ stored = [config |-> None, valid |-> "none", license |-> "fine", plugins |-> "none",
               controlled |-> "none", progressing |-> "none", available |-> "none",
               failedOf |-> NoTemplate, ready |-> "Unknown", phase |-> "Pending"]
  /\ awake = FALSE /\ pass = IdleRollout
  /\ history = [done |-> FALSE, missed |-> {}, behind |-> FALSE] /\ upsets = 0

NoObjects ==
  /\ ask = [autoscaling |-> TRUE, istio |-> TRUE, held |-> FALSE]
  /\ kind = [installed |-> TRUE, watched |-> TRUE, absent |-> FALSE]
  /\ obj = [k \in Kinds |-> "ours"] /\ cache = obj /\ lag = [k \in Kinds |-> {}]
  /\ once = [k \in Kinds |-> TRUE]
  /\ queued = FALSE /\ work = IdleWork
  /\ told = [controlled |-> "True", istio |-> "True"] /\ meddles = 0

MCInit ==
  \/ LicenseInit /\ NoRollout /\ NoObjects
  \/ NoLook /\ RolloutInit /\ NoObjects
  \/ NoLook /\ NoRollout /\ OwnedInit

MCNext ==
  \/ LicenseNext /\ UNCHANGED <<rollout, owned>>
  \/ RolloutNext /\ UNCHANGED <<license, owned>>
  \/ OwnedNext /\ UNCHANGED <<license, rollout>>

MCSpec ==
  MCInit /\ [][MCNext]_<<license, rollout, owned>> /\ RolloutFairness /\ OwnedFairness
=============================================================================

------------------------- MODULE GatewayApplyProofs -------------------------
(***************************************************************************)
(* Proofs about GatewayApply, for every set of inputs and configs, every   *)
(* bound and every choice of environment events.                           *)
(***************************************************************************)
EXTENDS GatewayApply, FiniteSetTheorems, TLAPS

-----------------------------------------------------------------------------
(* The inductive invariant for the types: a pass that found a ConfigMap    *)
(* to deploy found the one of its copy's checksum, so the template it      *)
(* writes is complete.                                                     *)

NameOfCopy == pass.name # NoConfig => pass.name = pass.gw.checksum

TypeInv == TypeOK /\ NameOfCopy

LEMMA IdlePassType == Inputs # {} /\ Checksums # {} => IdlePass \in Pass
  BY DEF IdlePass, Pass, Labels, Gateway, Editions, None, Template, NoDeployment

LEMMA ChecksumExists == Checksums # {} /\ Inputs # {}
  BY ConfigAssumption DEF Editions

LEMMA IdleTyped == IdlePass \in Pass /\ IdlePass.name = NoConfig
                   /\ IdlePass.at = "idle" /\ IdlePass.gw.checksum = NoConfig
                   /\ IdlePass.before.checksum = NoConfig
  BY IdlePassType, ChecksumExists DEF IdlePass

\* The edition and the image a pass works with are editions.
LEMMA EditionTyped ==
  ASSUME NEW spec \in Editions, NEW b \in BOOLEAN
  PROVE  EditionFor(spec, b) \in Editions
  BY DEF EditionFor, Editions

LEMMA KeyTyped ==
  ASSUME NEW g \in Gateway, NEW e \in Editions
  PROVE  AppliedKey(g, e)[2] \in Editions /\ AppliedKey(g, e)[1] = g.checksum
  BY DEF AppliedKey, AdoptedEdition, Gateway, Editions, None

LEMMA ImageTyped ==
  ASSUME NEW g \in Gateway, NEW e \in Editions
  PROVE  AppliedImage(g, e) \in Editions
  BY KeyTyped DEF AppliedImage, ResolveImage, AppliedFallback, Gateway, Editions, None

\* What the API server may store keeps the types of the ConfigMap store.
LEMMA StoreTyped ==
  ASSUME TypeOK, NEW c \in Checksums, NEW s \in ConfigMapStates, StoreConfigMap(c, s)
  PROVE  /\ cm' \in [Checksums -> ConfigMapStates]
         /\ newer' \in [Checksums -> SUBSET Checksums]
  BY DEF TypeOK, StoreConfigMap, Created, Deleted, Present

LEMMA LeavesTyped ==
  ASSUME NEW s \in ConfigMapStates
  PROVE  PublishLeaves(s) \subseteq ConfigMapStates
  BY DEF PublishLeaves, ConfigMapStates

LEMMA TypeInvInit == Init => TypeInv
  <1> SUFFICES ASSUME Init PROVE TypeInv
    OBVIOUS
  <1> USE ConfigAssumption, BoundAssumption
  <1>1. PICK spec \in Editions, i \in Inputs :
          LET c == Render[i][spec]
              g == IF Upgraded
                     THEN [spec |-> spec, checksum |-> c, edition |-> None,
                           active |-> spec, valid |-> "True"]
                     ELSE [spec |-> spec, checksum |-> NoConfig, edition |-> None,
                           active |-> None, valid |-> None]
          IN /\ gw = g /\ gwCache = g /\ gwEvents = <<>>
             /\ dep = IF Upgraded THEN [config |-> c, mount |-> LegacyName, image |-> spec]
                      ELSE NoDeployment
             /\ depCache = dep /\ depSynced = TRUE
             /\ cm = [d \in Checksums |-> "absent"]
             /\ newer = [d \in Checksums |-> {}]
             /\ legacy = IF Upgraded THEN c ELSE NoConfig
             /\ rs = IF Upgraded THEN {LegacyName} ELSE {}
             /\ env = [input |-> i, fallback |-> FALSE, hold |-> FALSE, changes |-> MaxChanges,
                       faults |-> MaxFaults, meddling |-> MaxMeddling]
             /\ queued = TRUE
             /\ pass = IdlePass
             /\ recorded = IF Upgraded THEN {<<c, spec>>} ELSE {}
    BY DEF Init
  <1>2. Render[i][spec] \in Checksums
    OBVIOUS
  <1>3. gw \in Gateway /\ gwCache \in Gateway /\ gwEvents \in Seq(Gateway)
    BY <1>1, <1>2 DEF Gateway, None, Editions
  <1>4. dep \in Template /\ depCache \in Template /\ depSynced \in BOOLEAN
    BY <1>1, <1>2 DEF Template, Names
  <1>5. cm \in [Checksums -> ConfigMapStates] /\ newer \in [Checksums -> SUBSET Checksums]
    BY <1>1 DEF ConfigMapStates
  <1>6. legacy \in Checksums \cup {NoConfig} /\ rs \in SUBSET Names /\ queued \in BOOLEAN
        /\ recorded \in SUBSET (Checksums \X Editions)
    BY <1>1, <1>2 DEF Names
  <1>7. env \in Environment
    BY <1>1 DEF Environment
  <1>8. pass \in Pass /\ NameOfCopy
    BY <1>1, IdleTyped DEF NameOfCopy
  <1> QED
    BY <1>3, <1>4, <1>5, <1>6, <1>7, <1>8 DEF TypeInv, TypeOK

\* Spending a bound keeps the environment's type.
LEMMA SpendTyped ==
  ASSUME TypeOK, MayFail, Spend
  PROVE  env' \in Environment
  BY BoundAssumption DEF TypeOK, MayFail, Spend, Environment

LEMMA ChangeTyped ==
  ASSUME TypeOK, NEW e \in Environment, Change(e), e.changes = env.changes
  PROVE  env' \in Environment
  BY BoundAssumption DEF TypeOK, Change, Environment

LEMMA MeddleTyped ==
  ASSUME TypeOK, Meddle
  PROVE  env' \in Environment
  BY BoundAssumption DEF TypeOK, Meddle, Environment

\* The API server's new version of the gateway keeps the types.
LEMMA StoreGatewayTyped ==
  ASSUME TypeOK, NEW g \in Gateway, StoreGateway(g)
  PROVE  gw' \in Gateway /\ gwEvents' \in Seq(Gateway)
  BY DEF TypeOK, StoreGateway

LEMMA AppliedTyped ==
  ASSUME TypeOK
  PROVE  Applied \in Gateway /\ Applied.checksum = pass.want /\ Applied.edition = pass.edition
  BY DEF TypeOK, Applied, Gateway, Pass

\* The template a pass writes is complete: a pass with a ConfigMap to deploy
\* has a checksum and resolves an image.
LEMMA TemplateTyped ==
  ASSUME TypeInv, pass.name # NoConfig
  PROVE  WantedTemplate \in Template /\ WantedTemplate.config = pass.gw.checksum
         /\ WantedTemplate.image \in Editions
  <1>1. pass.gw \in Gateway /\ pass.edition \in Editions /\ pass.name \in Checksums
        /\ pass.gw.checksum = pass.name
    BY DEF TypeInv, TypeOK, NameOfCopy, Pass
  <1>2. AppliedImage(pass.gw, pass.edition) \in Editions
    BY <1>1, ImageTyped
  <1> QED
    BY <1>1, <1>2 DEF WantedTemplate, Template, Names

LEMMA TypeInvNext == TypeInv /\ [Next]_vars => TypeInv'
  <1> SUFFICES ASSUME TypeInv, [Next]_vars PROVE TypeInv'
    OBVIOUS
  <1>0. TypeOK /\ NameOfCopy
    BY DEF TypeInv
  <1>r. pass \in Pass /\ pass.gw \in Gateway /\ pass.want \in Checksums /\ cm[pass.want] \in ConfigMapStates
    BY <1>0 DEF TypeOK, Pass
  <1>1. CASE Read
    <2>1. EditionFor(gwCache.spec, env.fallback) \in Editions
      BY <1>0, EditionTyped DEF TypeOK, Gateway, Environment
    <2>2. AppliedKey(gwCache, EditionFor(gwCache.spec, env.fallback))[2] \in Editions
      BY <1>0, <2>1, KeyTyped DEF TypeOK
    <2>3. Render[env.input][EditionFor(gwCache.spec, env.fallback)] \in Checksums
      BY <1>0, <2>1, ConfigAssumption DEF TypeOK, Environment
    <2> DEFINE e    == EditionFor(gwCache.spec, env.fallback)
               copy == IF gwCache.checksum # NoConfig
                         THEN [gwCache EXCEPT !.edition = AppliedKey(gwCache, e)[2]]
                         ELSE gwCache
    <2>5. copy \in Gateway
      BY <1>0, <2>2 DEF TypeOK, Gateway
    <2>6. gwCache \in Gateway /\ depCache \in Template /\ env.hold \in BOOLEAN
          /\ (gwEvents = <<>>) \in BOOLEAN
      BY <1>0 DEF TypeOK, Environment
    <2>7. pass' = [IdlePass EXCEPT
                     !.at = "decide", !.gw = copy, !.before = gwCache,
                     !.current = (gwEvents = <<>>), !.deployed = depCache,
                     !.edition = e, !.want = Render[env.input][e], !.held = env.hold]
      BY <1>1 DEF Read
    <2> HIDE DEF e, copy
    <2>4. pass' \in Pass /\ pass'.name = NoConfig
      BY <2>1, <2>3, <2>5, <2>6, <2>7, IdleTyped DEF Pass, Labels, e
    <2> QED
      BY <1>0, <1>1, <2>4 DEF Read, TypeInv, TypeOK, NameOfCopy, children
  <1>2. CASE ReadFailed
    BY <1>0, <1>2, SpendTyped DEF ReadFailed, TypeInv, TypeOK, NameOfCopy, children
  <1>3. CASE ValidatorUnavailable
    <2>1. pass' \in Pass /\ pass'.name = pass.name /\ pass'.gw.checksum = pass.gw.checksum
      BY <1>3, <1>r DEF ValidatorUnavailable, Pass, Gateway, Labels
    <2> QED
      BY <1>0, <1>3, <2>1, SpendTyped DEF ValidatorUnavailable, TypeInv, TypeOK, NameOfCopy, children
  <1>4. CASE Reject
    <2>0. PICK g \in Gateway : g.checksum = pass.gw.checksum /\ pass' = [pass EXCEPT !.at = "keep", !.gw = g]
      <3>1. [pass.gw EXCEPT !.valid = "False"] \in Gateway
            /\ [pass.gw EXCEPT !.valid = "False"].checksum = pass.gw.checksum
        BY <1>r DEF Gateway
      <3>2. pass' = [pass EXCEPT !.at = "keep", !.gw = [pass.gw EXCEPT !.valid = "False"]]
        BY <1>4 DEF Reject
      <3> QED
        BY <3>1, <3>2
    <2>1. pass' \in Pass /\ pass'.name = pass.name /\ pass'.gw.checksum = pass.gw.checksum
      BY <2>0, <1>r DEF Pass, Labels
    <2> QED
      BY <1>0, <1>4, <2>1 DEF Reject, TypeInv, TypeOK, NameOfCopy, children
  <1>5. CASE ServeApplied
    <2>1. pass.want = pass.gw.checksum
      BY <1>5, <1>r DEF ServeApplied, IsApplied, AppliedKey
    <2>2. CASE PublishConfig(pass.want) /\ UNCHANGED env
               /\ pass' = [pass EXCEPT !.at = "confirm", !.served = TRUE, !.name = pass.want,
                                       !.gw.edition = pass.edition, !.gw.valid = "True"]
      <3>1. pass' \in Pass /\ pass'.name = pass.want /\ pass'.gw.checksum = pass.gw.checksum
        BY <2>2, <1>r DEF Pass, Gateway, Labels
      <3>2. cm' \in [Checksums -> ConfigMapStates] /\ newer' \in [Checksums -> SUBSET Checksums]
        BY <1>0, <1>r, <2>2, StoreTyped DEF PublishConfig, ConfigMapStates
      <3> QED
        BY <1>0, <1>5, <2>1, <2>2, <3>1, <3>2 DEF ServeApplied, TypeInv, TypeOK, NameOfCopy
    <2>3. CASE PublishConfigFailed(pass.want)
               /\ pass' = [pass EXCEPT !.at = "confirm", !.served = TRUE, !.failed = TRUE,
                                       !.gw.edition = pass.edition, !.gw.valid = "Unknown"]
      <3>1. pass' \in Pass /\ pass'.name = pass.name /\ pass'.gw.checksum = pass.gw.checksum
        BY <2>3, <1>r DEF Pass, Gateway, Labels
      <3>2. cm' \in [Checksums -> ConfigMapStates] /\ newer' \in [Checksums -> SUBSET Checksums]
        BY <1>0, <1>r, <2>3, StoreTyped, LeavesTyped DEF PublishConfigFailed
      <3>3. env' \in Environment
        BY <1>0, <2>3, SpendTyped DEF PublishConfigFailed, TypeOK
      <3> QED
        BY <1>0, <1>5, <2>3, <3>1, <3>2, <3>3 DEF ServeApplied, TypeInv, TypeOK, NameOfCopy
    <2> QED
      BY <1>5, <2>2, <2>3 DEF ServeApplied
  <1>6. CASE Publish
    <2>1. pass' \in Pass /\ pass'.name = pass.name /\ pass'.gw.checksum = pass.gw.checksum
      <3>1. \/ pass' = [pass EXCEPT !.at = "record"]
            \/ pass' = [pass EXCEPT !.at = "keep", !.gw.valid = "Unknown", !.failed = TRUE]
        BY <1>6 DEF Publish
      <3>2. CASE pass' = [pass EXCEPT !.at = "record"]
        BY <3>2, <1>r DEF Pass, Labels
      <3>3. CASE pass' = [pass EXCEPT !.at = "keep", !.gw.valid = "Unknown", !.failed = TRUE]
        BY <3>3, <1>r DEF Pass, Gateway, Labels
      <3> QED
        BY <3>1, <3>2, <3>3
    <2>2. cm' \in [Checksums -> ConfigMapStates] /\ newer' \in [Checksums -> SUBSET Checksums]
      <3>1. \E s \in ConfigMapStates : StoreConfigMap(pass.want, s)
        BY <1>6, <1>r, LeavesTyped DEF Publish, PublishConfig, PublishConfigFailed, ConfigMapStates
      <3> QED
        BY <1>0, <1>r, <3>1, StoreTyped
    <2>3. env' \in Environment
      BY <1>0, <1>6, SpendTyped DEF Publish, PublishConfigFailed, TypeOK
    <2> QED
      BY <1>0, <1>6, <2>1, <2>2, <2>3 DEF Publish, TypeInv, TypeOK, NameOfCopy
  <1>7. CASE RecordApplied
    <2>1. pass' \in Pass /\ pass'.name = pass.want /\ pass'.gw.checksum = pass.want
      BY <1>0, <1>7, <1>r, AppliedTyped DEF RecordApplied, Pass, Labels
    <2>2. gw' \in Gateway /\ gwEvents' \in Seq(Gateway)
      BY <1>0, <1>7, AppliedTyped, StoreGatewayTyped DEF RecordApplied
    <2>3. recorded' \in SUBSET (Checksums \X Editions)
      BY <1>0, <1>7, <1>r DEF RecordApplied, TypeOK, Pass
    <2> QED
      BY <1>0, <1>7, <2>1, <2>2, <2>3 DEF RecordApplied, TypeInv, TypeOK, NameOfCopy, children
  <1>8. CASE RecordFailed
    <2>1. pass' \in Pass /\ pass'.name = pass.name /\ pass'.gw = pass.gw
      BY <1>8, <1>r DEF RecordFailed, Pass, Labels
    <2>2. gw' \in Gateway /\ gwEvents' \in Seq(Gateway)
      BY <1>0, <1>8, AppliedTyped, StoreGatewayTyped DEF RecordFailed, TypeOK
    <2>3. recorded' \in SUBSET (Checksums \X Editions)
      BY <1>0, <1>8, <1>r DEF RecordFailed, TypeOK, Pass
    <2>4. env' \in Environment
      BY <1>0, <1>8, SpendTyped DEF RecordFailed, TypeOK
    <2> QED
      BY <1>0, <1>8, <2>1, <2>2, <2>3, <2>4 DEF RecordFailed, TypeInv, TypeOK, NameOfCopy, children
  <1>9. CASE KeepApplied
    <2>1. pass' \in Pass /\ pass'.name \in {NoConfig, pass.gw.checksum} /\ pass'.gw = pass.gw
      <3>1. \E name \in {NoConfig, pass.gw.checksum}, failed \in BOOLEAN :
              pass' = [pass EXCEPT !.at = "confirm", !.name = name, !.failed = @ \/ failed]
        BY <1>9 DEF KeepApplied
      <3>2. PICK name \in {NoConfig, pass.gw.checksum}, failed \in BOOLEAN :
              pass' = [pass EXCEPT !.at = "confirm", !.name = name, !.failed = pass.failed \/ failed]
        BY <3>1
      <3>3. name \in Checksums \cup {NoConfig} /\ (pass.failed \/ failed) \in BOOLEAN
        BY <1>r DEF Gateway
      <3> QED
        BY <3>2, <3>3, <1>r DEF Pass, Labels
    <2>2. cm' \in [Checksums -> ConfigMapStates] /\ newer' \in [Checksums -> SUBSET Checksums]
      <3>1. pass.gw.checksum # NoConfig => pass.gw.checksum \in Checksums
        BY <1>r DEF Gateway
      <3>2. \/ UNCHANGED <<cm, newer>>
            \/ pass.gw.checksum \in Checksums
                 /\ \E s \in ConfigMapStates : StoreConfigMap(pass.gw.checksum, s)
        BY <1>0, <1>9, <3>1, LeavesTyped DEF KeepApplied, TypeOK, ConfigMapStates
      <3> QED
        BY <1>0, <3>2, StoreTyped DEF TypeOK
    <2>3. env' \in Environment
      BY <1>0, <1>9, SpendTyped DEF KeepApplied, TypeOK
    <2> QED
      BY <1>0, <1>9, <2>1, <2>2, <2>3 DEF KeepApplied, TypeInv, TypeOK, NameOfCopy
  <1>10. CASE ConfirmStoredConfig
    <2>1. pass' \in Pass /\ (pass' = IdlePass \/ (pass'.name = pass.name /\ pass'.gw = pass.gw))
          /\ queued' \in BOOLEAN
      <3>1. CASE pass' = [pass EXCEPT !.at = "deploy"] /\ UNCHANGED queued
        <4>1. pass' \in Pass /\ pass'.name = pass.name /\ pass'.gw = pass.gw
          BY <3>1, <1>r DEF Pass, Labels
        <4> QED
          BY <1>0, <3>1, <4>1 DEF TypeOK
      <3>2. CASE pass' = IdlePass /\ queued' = (queued \/ TRUE)
        BY <3>2, IdleTyped
      <3> QED
        BY <1>10, <3>1, <3>2 DEF ConfirmStoredConfig, EndPass
    <2>2. env' \in Environment
      BY <1>0, <1>10, SpendTyped DEF ConfirmStoredConfig, TypeOK
    <2> QED
      BY <1>0, <1>10, <2>1, <2>2, IdleTyped DEF ConfirmStoredConfig, TypeInv, TypeOK, NameOfCopy, children
  <1>11. CASE HoldForConfigMap \/ HoldForOthers \/ Collected
    <2>1. pass' \in Pass /\ pass'.name = pass.name /\ pass'.gw = pass.gw
      <3>1. PICK at \in {"finish", "collect"}, failed \in BOOLEAN :
              pass' = [pass EXCEPT !.at = at, !.failed = failed]
        <4>1. CASE HoldForConfigMap \/ Collected
          <5>1. pass' = [pass EXCEPT !.at = "finish"] /\ pass.failed \in BOOLEAN
            BY <4>1, <1>r DEF HoldForConfigMap, Collected, Pass
          <5>2. pass' = [pass EXCEPT !.at = "finish", !.failed = pass.failed]
            BY <5>1, <1>r DEF Pass
          <5> QED
            BY <5>1, <5>2
        <4>2. CASE HoldForOthers
          <5>1. PICK error \in BOOLEAN :
                  pass' = [pass EXCEPT !.at = "collect", !.failed = pass.failed \/ error]
            BY <4>2 DEF HoldForOthers
          <5>2. (pass.failed \/ error) \in BOOLEAN
            BY <1>r DEF Pass
          <5> QED
            BY <5>1, <5>2
        <4> QED
          BY <1>11, <4>1, <4>2
      <3> QED
        BY <3>1, <1>r DEF Pass, Labels
    <2> QED
      BY <1>0, <1>11, <2>1
      DEF HoldForConfigMap, HoldForOthers, Collected, TypeInv, TypeOK, NameOfCopy, children
  <1>12. CASE Deploy
    <2>1. WantedTemplate \in Template /\ WantedTemplate.image \in Editions
      BY <1>12, TemplateTyped DEF Deploy, DeployReady
    <2>2. pass' \in Pass /\ pass'.name = pass.name /\ pass'.gw.checksum = pass.gw.checksum
      BY <1>12, <1>r, <2>1 DEF Deploy, Pass, Gateway, Labels, Template
    <2>3. dep' \in Template /\ depCache' \in Template /\ depSynced' \in BOOLEAN
      BY <1>0, <1>12, <2>1 DEF Deploy, TypeOK
    <2> QED
      BY <1>0, <1>12, <2>2, <2>3 DEF Deploy, TypeInv, TypeOK, NameOfCopy
  <1>13. CASE DeployFailed
    <2>1. WantedTemplate \in Template
      BY <1>13, TemplateTyped DEF DeployFailed, DeployReady
    <2>2. pass' \in Pass /\ pass'.name = pass.name /\ pass'.gw = pass.gw
      BY <1>13, <1>r DEF DeployFailed, Pass, Labels
    <2>3. dep' \in Template /\ depCache' \in Template /\ depSynced' \in BOOLEAN
      BY <1>0, <1>13, <2>1 DEF DeployFailed, TypeOK
    <2>4. env' \in Environment
      BY <1>0, <1>13, SpendTyped DEF DeployFailed, TypeOK
    <2> QED
      BY <1>0, <1>13, <2>2, <2>3, <2>4 DEF DeployFailed, TypeInv, TypeOK, NameOfCopy
  <1>14. CASE CollectConfigMaps
    <2>1. ConfigMapGCCandidates(pass.name, pass.deployed.mount) \subseteq Names
      BY DEF ConfigMapGCCandidates, Revisions, Names
    <2>2. pass' \in Pass /\ pass'.name = pass.name /\ pass'.gw = pass.gw
      <3>1. \E v \in SUBSET Names :
              \/ pass' = [pass EXCEPT !.at = "delete", !.victims = v]
              \/ pass' = [pass EXCEPT !.at = "finish", !.failed = TRUE]
        BY <1>14, <2>1 DEF CollectConfigMaps
      <3> QED
        BY <3>1, <1>r DEF Pass, Labels
    <2>3. env' \in Environment
      BY <1>0, <1>14, SpendTyped DEF CollectConfigMaps, TypeOK
    <2> QED
      BY <1>0, <1>14, <2>2, <2>3 DEF CollectConfigMaps, TypeInv, TypeOK, NameOfCopy, children
  <1>15. ASSUME NEW n \in Names, DeleteConfigMap(n) PROVE TypeInv'
    <2>1. pass' \in Pass /\ pass'.name = pass.name /\ pass'.gw = pass.gw
      <3>1. pass.victims \ {n} \in SUBSET Names
        BY <1>r DEF Pass
      <3>2. \/ pass' = [pass EXCEPT !.victims = pass.victims \ {n}]
            \/ pass' = [pass EXCEPT !.at = "finish", !.failed = TRUE]
        BY <1>15 DEF DeleteConfigMap
      <3> QED
        BY <3>1, <3>2, <1>r DEF Pass, Labels
    <2>2. /\ cm' \in [Checksums -> ConfigMapStates] /\ newer' \in [Checksums -> SUBSET Checksums]
          /\ legacy' \in Checksums \cup {NoConfig}
      <3>1. CASE n \in Checksums /\ StoreConfigMap(n, "absent") /\ UNCHANGED legacy
        BY <1>0, <3>1, StoreTyped DEF TypeOK, ConfigMapStates
      <3>2. CASE (legacy' = NoConfig \/ UNCHANGED legacy) /\ UNCHANGED <<cm, newer>>
        BY <1>0, <3>2 DEF TypeOK
      <3> QED
        BY <1>15, <3>1, <3>2 DEF DeleteConfigMap, Names
    <2>3. env' \in Environment
      BY <1>0, <1>15, SpendTyped DEF DeleteConfigMap, TypeOK
    <2> QED
      BY <1>0, <1>15, <2>1, <2>2, <2>3 DEF DeleteConfigMap, TypeInv, TypeOK, NameOfCopy
  <1>16. CASE Finish
    <2>1. pass' = IdlePass /\ queued' \in BOOLEAN
      BY <1>0, <1>16, <1>r DEF Finish, EndPass, TypeOK, Pass
    <2>2. gw' \in Gateway /\ gwEvents' \in Seq(Gateway)
      BY <1>0, <1>16, <1>r, StoreGatewayTyped DEF Finish, TypeOK
    <2>3. env' \in Environment
      BY <1>0, <1>16, SpendTyped DEF Finish, TypeOK
    <2> QED
      BY <1>0, <1>16, <2>1, <2>2, <2>3, IdleTyped DEF Finish, TypeInv, TypeOK, NameOfCopy, children
  <1>17. CASE Crash
    BY <1>0, <1>17, SpendTyped, IdleTyped DEF Crash, TypeInv, TypeOK, NameOfCopy, children
  <1>18. CASE DeliverGateway
    <2>1. gwCache' \in Gateway /\ gwEvents' \in Seq(Gateway)
      BY <1>0, <1>18 DEF DeliverGateway, TypeOK
    <2> QED
      BY <1>0, <1>18, <2>1 DEF DeliverGateway, TypeInv, TypeOK, NameOfCopy, children
  <1>19. CASE DeliverDeployment
    BY <1>0, <1>19 DEF DeliverDeployment, TypeInv, TypeOK, NameOfCopy
  <1>20. ASSUME NEW i \in Inputs, ChangeInput(i) PROVE TypeInv'
    <2>1. [env EXCEPT !.input = i] \in Environment /\ [env EXCEPT !.input = i].changes = env.changes
      BY <1>0 DEF TypeOK, Environment
    <2> QED
      BY <1>0, <1>20, <2>1, ChangeTyped DEF ChangeInput, TypeInv, TypeOK, NameOfCopy, children
  <1>21. CASE ChangeLicense
    <2>1. [env EXCEPT !.fallback = ~@] \in Environment /\ [env EXCEPT !.fallback = ~@].changes = env.changes
      BY <1>0 DEF TypeOK, Environment
    <2> QED
      BY <1>0, <1>21, <2>1, ChangeTyped DEF ChangeLicense, TypeInv, TypeOK, NameOfCopy, children
  <1>22. CASE ChangeHold
    <2>1. [env EXCEPT !.hold = ~@] \in Environment /\ [env EXCEPT !.hold = ~@].changes = env.changes
      BY <1>0 DEF TypeOK, Environment
    <2> QED
      BY <1>0, <1>22, <2>1, ChangeTyped DEF ChangeHold, TypeInv, TypeOK, NameOfCopy, children
  <1>23. CASE ChangeSpec
    <2>1. [gw EXCEPT !.spec = IF @ = "CE" THEN "EE" ELSE "CE"] \in Gateway
      BY <1>0 DEF TypeOK, Gateway, Editions
    <2>2. pass' \in Pass /\ pass'.name = pass.name /\ pass'.gw = pass.gw
      BY <1>23, <1>r DEF ChangeSpec, Pass
    <2>3. env' \in Environment
      BY <1>0, <1>23, ChangeTyped DEF ChangeSpec, TypeOK
    <2> QED
      BY <1>0, <1>23, <2>1, <2>2, <2>3, StoreGatewayTyped DEF ChangeSpec, TypeInv, TypeOK, NameOfCopy, children
  <1>24. CASE StartReplicaSet
    <2>1. dep.mount \in Names
      BY <1>0, <1>24 DEF StartReplicaSet, TypeOK, Template, NoDeployment
    <2> QED
      BY <1>0, <1>24, <2>1 DEF StartReplicaSet, TypeInv, TypeOK, NameOfCopy
  <1>25. ASSUME NEW n \in Names, RetireReplicaSet(n) PROVE TypeInv'
    BY <1>0, <1>25 DEF RetireReplicaSet, TypeInv, TypeOK, NameOfCopy
  <1>26. ASSUME NEW c \in Checksums, NEW s \in ConfigMapStates, MeddleConfigMap(c, s) PROVE TypeInv'
    <2>1. cm' \in [Checksums -> ConfigMapStates] /\ newer' \in [Checksums -> SUBSET Checksums]
      BY <1>0, <1>26, StoreTyped DEF MeddleConfigMap
    <2>2. env' \in Environment /\ queued' \in BOOLEAN
      BY <1>0, <1>26, MeddleTyped DEF MeddleConfigMap, TypeOK
    <2>3. pass' \in Pass /\ pass'.name = pass.name /\ pass'.gw = pass.gw
      <3>1. PICK r \in SUBSET Checksums : pass' = [pass EXCEPT !.replaced = r]
        BY <1>26, <1>r DEF MeddleConfigMap, Pass
      <3> QED
        BY <3>1, <1>r DEF Pass
    <2> QED
      BY <1>0, <1>26, <2>1, <2>2, <2>3 DEF MeddleConfigMap, TypeInv, TypeOK, NameOfCopy
  <1>27. CASE MeddleDeployment
    <2>1. dep' \in Template
      BY <1>0, <1>27 DEF MeddleDeployment, TypeOK, Template, Names
    <2>2. depCache' \in Template /\ depSynced' \in BOOLEAN /\ queued' \in BOOLEAN
      BY <1>0, <1>27, <2>1 DEF MeddleDeployment, TypeOK
    <2>3. env' \in Environment
      BY <1>0, <1>27, MeddleTyped DEF MeddleDeployment
    <2> QED
      BY <1>0, <1>27, <2>1, <2>2, <2>3 DEF MeddleDeployment, TypeInv, TypeOK, NameOfCopy
  <1>28. CASE UNCHANGED vars
    BY <1>0, <1>28 DEF vars, children, TypeInv, TypeOK, NameOfCopy
  <1> QED
    BY <1>1, <1>2, <1>3, <1>4, <1>5, <1>6, <1>7, <1>8, <1>9, <1>10, <1>11, <1>12, <1>13, <1>14,
       <1>15, <1>16, <1>17, <1>18, <1>19, <1>20, <1>21, <1>22, <1>23, <1>24, <1>25, <1>26, <1>27, <1>28
    DEF Next, PassStep, EnvStep

\* Type correctness: in particular a Deployment that exists always mounts a
\* named ConfigMap, carries a checksum and runs the image of an edition.
THEOREM TypeCorrect == Spec => []TypeOK
  <1>1. TypeInv => TypeOK
    BY DEF TypeInv
  <1> QED
    BY TypeInvInit, TypeInvNext, <1>1, PTL DEF Spec

-----------------------------------------------------------------------------
(* The record comes first.  Every copy of the gateway (the stored one, the *)
(* cached one, each version on its way to the cache and the pass's own)    *)
(* and every copy of the template names only configs that some stored      *)
(* status named; on a gateway that no earlier version left behind, with    *)
(* the very edition it was recorded for.  A pass can then only deploy what *)
(* was recorded, however old the copy it works from.                       *)

Named(c, R)  == c # NoConfig => \E e \in Editions : <<c, e>> \in R
Keyed(g, R)  == g.checksum # NoConfig => <<g.checksum, g.edition>> \in R
Backed(g, R) == Named(g.checksum, R) /\ (~Upgraded => Keyed(g, R))

RecordInv ==
  /\ Backed(gw, recorded) /\ Backed(gwCache, recorded) /\ Backed(pass.gw, recorded)
  /\ \A k \in 1..Len(gwEvents) : Backed(gwEvents[k], recorded)
  /\ Named(dep.config, recorded) /\ Named(depCache.config, recorded)

AcceptInv ==
  /\ recorded \subseteq Accepted
  /\ pass.at = "record" => <<pass.want, pass.edition>> \in Accepted

ServedInv ==
  /\ pass.served => pass.gw.checksum # NoConfig /\ pass.gw.edition = pass.edition
  /\ pass.gw.spec = "CE" => pass.edition = "CE"

Inv == TypeInv /\ RecordInv /\ AcceptInv /\ ServedInv

LEMMA InvInit == Init => Inv
  <1> SUFFICES ASSUME Init PROVE Inv
    OBVIOUS
  <1>1. TypeInv
    BY TypeInvInit
  <1>2. PICK spec \in Editions, i \in Inputs :
          LET c == Render[i][spec]
              g == IF Upgraded
                     THEN [spec |-> spec, checksum |-> c, edition |-> None,
                           active |-> spec, valid |-> "True"]
                     ELSE [spec |-> spec, checksum |-> NoConfig, edition |-> None,
                           active |-> None, valid |-> None]
          IN /\ Upgraded => <<c, spec>> \in Accepted
             /\ gw = g /\ gwCache = g /\ gwEvents = <<>>
             /\ dep = IF Upgraded THEN [config |-> c, mount |-> LegacyName, image |-> spec]
                      ELSE NoDeployment
             /\ depCache = dep
             /\ pass = IdlePass
             /\ recorded = IF Upgraded THEN {<<c, spec>>} ELSE {}
    BY DEF Init
  <1>3. /\ Backed(gw, recorded) /\ Backed(gwCache, recorded)
        /\ Named(dep.config, recorded) /\ Named(depCache.config, recorded)
    BY <1>2 DEF Backed, Named, Keyed, NoDeployment
  <1>4. Backed(pass.gw, recorded) /\ ServedInv /\ AcceptInv
    BY <1>2, IdleTyped DEF Backed, Named, Keyed, ServedInv, AcceptInv, IdlePass
  <1>5. \A k \in 1..Len(gwEvents) : Backed(gwEvents[k], recorded)
    BY <1>2
  <1> QED
    BY <1>1, <1>3, <1>4, <1>5 DEF Inv, RecordInv

\* What is backed stays backed: the record only grows.
LEMMA BackedGrows ==
  ASSUME NEW R, NEW S, R \subseteq S
  PROVE  /\ \A c : Named(c, R) => Named(c, S)
         /\ \A g : Backed(g, R) => Backed(g, S)
  BY DEF Backed, Named, Keyed

LEMMA BackedSame ==
  ASSUME NEW R, NEW g, NEW h, Backed(g, R), h.checksum = g.checksum, h.edition = g.edition
  PROVE  Backed(h, R)
  BY DEF Backed, Named, Keyed

\* The key a backed copy stands for, and so the config it would keep serving,
\* does not depend on the edition rendered now.
LEMMA BackedKey ==
  ASSUME TypeOK, NEW g \in Gateway, NEW e \in Editions, g.checksum # NoConfig,
         Backed(g, recorded), ~Upgraded
  PROVE  g.edition # None /\ AppliedKey(g, e)[2] = g.edition
  BY DEF TypeOK, Backed, Keyed, AppliedKey, Editions, None

\* A step that only stores backed copies keeps RecordInv.
LEMMA RecordFrame ==
  ASSUME TypeOK, RecordInv, recorded \subseteq recorded',
         gw' = gw \/ Backed(gw', recorded'),
         gwCache' = gwCache \/ Backed(gwCache', recorded'),
         pass'.gw = pass.gw \/ Backed(pass'.gw, recorded'),
         dep' = dep \/ Named(dep'.config, recorded'),
         depCache' = depCache \/ depCache' = dep' \/ Named(depCache'.config, recorded'),
         \/ gwEvents' = gwEvents
         \/ gwEvents' = Append(gwEvents, gw') /\ gw' \in Gateway
         \/ gwEvents # <<>> /\ gwEvents' = Tail(gwEvents)
  PROVE  RecordInv'
  <1>1. Backed(gw, recorded') /\ Backed(gwCache, recorded') /\ Backed(pass.gw, recorded')
        /\ Named(dep.config, recorded') /\ Named(depCache.config, recorded')
        /\ \A k \in 1..Len(gwEvents) : Backed(gwEvents[k], recorded')
    BY BackedGrows DEF RecordInv
  <1>2. Backed(gw', recorded') /\ Backed(gwCache', recorded') /\ Backed(pass'.gw, recorded')
    BY <1>1
  <1>3. Named(dep'.config, recorded') /\ Named(depCache'.config, recorded')
    BY <1>1
  <1>4. ASSUME NEW k \in 1..Len(gwEvents') PROVE Backed(gwEvents'[k], recorded')
    <2>1. CASE gwEvents' = gwEvents
      BY <1>1, <2>1
    <2>2. CASE gwEvents' = Append(gwEvents, gw') /\ gw' \in Gateway
      <3>1. gwEvents'[k] = gw' \/ (k \in 1..Len(gwEvents) /\ gwEvents'[k] = gwEvents[k])
        BY <2>2 DEF TypeOK
      <3> QED
        BY <1>1, <1>2, <3>1
    <2>3. CASE gwEvents # <<>> /\ gwEvents' = Tail(gwEvents)
      <3>1. k + 1 \in 1..Len(gwEvents) /\ gwEvents'[k] = gwEvents[k + 1]
        BY <2>3 DEF TypeOK
      <3> QED
        BY <1>1, <3>1
    <2> QED
      BY <2>1, <2>2, <2>3
  <1> QED
    BY <1>2, <1>3, <1>4 DEF RecordInv

\* A step that leaves the record and the pass's key alone keeps the rest.
LEMMA PassFrame ==
  ASSUME AcceptInv, ServedInv, recorded' = recorded,
         \/ pass' = IdlePass
         \/ /\ pass'.at # "record" \/ pass'.at = pass.at \/ <<pass.want, pass.edition>> \in Accepted
            /\ pass'.served = pass.served /\ pass'.edition = pass.edition
            /\ pass'.want = pass.want
            /\ pass'.gw.checksum = pass.gw.checksum /\ pass'.gw.edition = pass.gw.edition
            /\ pass'.gw.spec = pass.gw.spec
  PROVE  AcceptInv' /\ ServedInv'
  BY DEF AcceptInv, ServedInv, IdlePass

LEMMA InvNext == Inv /\ [Next]_vars => Inv'
  <1> SUFFICES ASSUME Inv, [Next]_vars PROVE Inv'
    OBVIOUS
  <1>0. TypeOK /\ NameOfCopy /\ RecordInv /\ AcceptInv /\ ServedInv
    BY DEF Inv, TypeInv
  <1>t. TypeInv'
    BY TypeInvNext DEF Inv
  <1>p. pass \in Pass /\ pass.gw \in Gateway /\ pass.want \in Checksums /\ pass.edition \in Editions
    BY <1>0 DEF TypeOK, Pass
  <1>i. Backed(IdlePass.gw, recorded')
    BY IdleTyped DEF Backed, Named, Keyed
  <1> SUFFICES RecordInv' /\ AcceptInv' /\ ServedInv'
    BY <1>t DEF Inv
  <1>1. CASE Read
    <2> DEFINE e    == EditionFor(gwCache.spec, env.fallback)
               copy == IF gwCache.checksum # NoConfig
                         THEN [gwCache EXCEPT !.edition = AppliedKey(gwCache, e)[2]]
                         ELSE gwCache
    <2>1. e \in Editions /\ (gwCache.spec = "CE" => e = "CE") /\ gwCache \in Gateway
      BY <1>0, EditionTyped DEF TypeOK, Gateway, Environment, EditionFor
    <2>2. pass'.gw = copy /\ pass'.edition = e /\ pass'.served = FALSE /\ pass'.at = "decide"
      BY <1>1, IdleTyped DEF Read, IdlePass
    <2>3. copy.checksum = gwCache.checksum /\ copy.spec = gwCache.spec
          /\ (~Upgraded => copy.edition = gwCache.edition)
      <3>1. ~Upgraded /\ gwCache.checksum # NoConfig => AppliedKey(gwCache, e)[2] = gwCache.edition
        BY <1>0, <2>1, BackedKey DEF RecordInv
      <3> QED
        BY <2>1, <3>1 DEF Gateway
    <2>4. Backed(copy, recorded')
      BY <1>0, <1>1, <2>3 DEF RecordInv, Backed, Named, Keyed, Read
    <2> HIDE DEF e, copy
    <2>5. RecordInv'
      BY <1>0, <1>1, <2>2, <2>4, RecordFrame DEF Read, children
    <2> QED
      BY <1>0, <1>1, <2>1, <2>2, <2>3, <2>5 DEF AcceptInv, ServedInv, Read
  <1>2. CASE ReadFailed
    BY <1>0, <1>2, RecordFrame, PassFrame DEF ReadFailed, children
  <1>3. CASE ValidatorUnavailable
    <2>1. /\ pass'.served = pass.served /\ pass'.edition = pass.edition /\ pass'.want = pass.want
          /\ pass'.gw.checksum = pass.gw.checksum /\ pass'.gw.edition = pass.gw.edition
          /\ pass'.gw.spec = pass.gw.spec /\ pass'.at = "keep"
      BY <1>3, <1>p DEF ValidatorUnavailable, Pass, Gateway
    <2>2. Backed(pass'.gw, recorded') /\ recorded' = recorded
      <3>1. recorded' = recorded /\ Backed(pass.gw, recorded)
        BY <1>0, <1>3 DEF ValidatorUnavailable, RecordInv
      <3> QED
        BY <2>1, <3>1, BackedSame
    <2> QED
      BY <1>0, <1>3, <2>1, <2>2, RecordFrame, PassFrame DEF ValidatorUnavailable, children
  <1>4. CASE Reject
    <2>1. /\ pass'.served = pass.served /\ pass'.edition = pass.edition /\ pass'.want = pass.want
          /\ pass'.gw.checksum = pass.gw.checksum /\ pass'.gw.edition = pass.gw.edition
          /\ pass'.gw.spec = pass.gw.spec /\ pass'.at = "keep"
      BY <1>4, <1>p DEF Reject, Pass, Gateway
    <2>2. Backed(pass'.gw, recorded') /\ recorded' = recorded
      <3>1. recorded' = recorded /\ Backed(pass.gw, recorded)
        BY <1>0, <1>4 DEF Reject, RecordInv
      <3> QED
        BY <2>1, <3>1, BackedSame
    <2> QED
      BY <1>0, <1>4, <2>1, <2>2, RecordFrame, PassFrame DEF Reject, children
  <1>5. CASE ServeApplied
    <2>1. pass.want = pass.gw.checksum /\ pass.gw.checksum # NoConfig
          /\ AppliedKey(pass.gw, pass.edition)[2] = pass.edition
      BY <1>5, <1>p, ConfigAssumption DEF ServeApplied, IsApplied, AppliedKey, Names
    <2>2. /\ pass'.served = TRUE /\ pass'.edition = pass.edition /\ pass'.at = "confirm"
          /\ pass'.gw.checksum = pass.gw.checksum /\ pass'.gw.edition = pass.edition
          /\ pass'.gw.spec = pass.gw.spec
      <3>1. CASE pass' = [pass EXCEPT !.at = "confirm", !.served = TRUE, !.name = pass.want,
                                      !.gw.edition = pass.edition, !.gw.valid = "True"]
        BY <3>1, <1>p DEF Pass, Gateway
      <3>2. CASE pass' = [pass EXCEPT !.at = "confirm", !.served = TRUE, !.failed = TRUE,
                                      !.gw.edition = pass.edition, !.gw.valid = "Unknown"]
        BY <3>2, <1>p DEF Pass, Gateway
      <3> QED
        BY <1>5, <3>1, <3>2 DEF ServeApplied
    <2>3. ~Upgraded => pass.gw.edition = pass.edition
      BY <1>0, <1>p, <2>1, BackedKey DEF RecordInv
    <2>4. Backed(pass'.gw, recorded') /\ recorded' = recorded
      BY <1>0, <1>5, <2>2, <2>3 DEF RecordInv, Backed, Named, Keyed, ServeApplied
    <2>5. RecordInv'
      BY <1>0, <1>5, <2>4, RecordFrame DEF ServeApplied
    <2> QED
      BY <1>0, <2>1, <2>2, <2>4, <2>5 DEF AcceptInv, ServedInv
  <1>6. CASE Publish
    <2>1. /\ pass'.served = pass.served /\ pass'.edition = pass.edition /\ pass'.want = pass.want
          /\ pass'.gw.checksum = pass.gw.checksum /\ pass'.gw.edition = pass.gw.edition
          /\ pass'.gw.spec = pass.gw.spec
      <3>1. \/ pass' = [pass EXCEPT !.at = "record"]
            \/ pass' = [pass EXCEPT !.at = "keep", !.gw.valid = "Unknown", !.failed = TRUE]
        BY <1>6 DEF Publish
      <3>2. CASE pass' = [pass EXCEPT !.at = "record"]
        BY <3>2, <1>p DEF Pass
      <3>3. CASE pass' = [pass EXCEPT !.at = "keep", !.gw.valid = "Unknown", !.failed = TRUE]
        BY <3>3, <1>p DEF Pass, Gateway
      <3> QED
        BY <3>1, <3>2, <3>3
    <2>2. Backed(pass'.gw, recorded') /\ recorded' = recorded
      BY <1>0, <1>6, <2>1 DEF RecordInv, Backed, Named, Keyed, Publish
    <2> QED
      BY <1>0, <1>6, <2>1, <2>2, RecordFrame, PassFrame DEF Publish
  <1>7. CASE RecordApplied
    <2>1. gw' = Applied /\ gwEvents' = Append(gwEvents, gw') /\ gw' \in Gateway
          /\ Applied.checksum = pass.want /\ Applied.edition = pass.edition
          /\ Applied.spec = pass.gw.spec
          /\ recorded' = recorded \cup {<<pass.want, pass.edition>>}
      BY <1>0, <1>7, <1>p, AppliedTyped DEF RecordApplied, StoreGateway, Applied, Gateway
    <2>2. pass'.gw = Applied /\ pass'.edition = pass.edition /\ pass'.at = "confirm"
      BY <1>7, <1>p DEF RecordApplied, Pass
    <2>3. Backed(Applied, recorded')
      BY <1>p, <2>1 DEF Backed, Named, Keyed
    <2>4. RecordInv'
      BY <1>0, <1>7, <2>1, <2>2, <2>3, RecordFrame DEF RecordApplied, children
    <2> QED
      BY <1>0, <1>7, <1>p, <2>1, <2>2, <2>4, ConfigAssumption DEF AcceptInv, ServedInv, RecordApplied, Names
  <1>8. CASE RecordFailed
    <2>1. pass'.gw = pass.gw /\ pass'.served = pass.served /\ pass'.edition = pass.edition
          /\ pass'.want = pass.want /\ pass'.at = "keep"
      BY <1>8, <1>p DEF RecordFailed, Pass
    <2>2. CASE UNCHANGED <<gw, gwEvents, recorded>>
      BY <1>0, <1>8, <2>1, <2>2, RecordFrame, PassFrame DEF RecordFailed, children
    <2>3. CASE StoreGateway(Applied) /\ recorded' = recorded \cup {<<pass.want, pass.edition>>}
      <3>1. gw' = Applied /\ gwEvents' = Append(gwEvents, gw') /\ gw' \in Gateway
        BY <1>0, <2>3, AppliedTyped DEF StoreGateway
      <3>2. Backed(Applied, recorded')
        BY <1>0, <1>p, <2>3, AppliedTyped DEF Backed, Named, Keyed
      <3>3. RecordInv'
        BY <1>0, <1>8, <2>1, <2>3, <3>1, <3>2, RecordFrame DEF RecordFailed, children
      <3> QED
        BY <1>0, <1>8, <2>1, <2>3, <3>3 DEF AcceptInv, ServedInv, RecordFailed
    <2> QED
      BY <1>8, <2>2, <2>3 DEF RecordFailed
  <1>9. CASE KeepApplied
    <2>1. pass'.gw = pass.gw /\ pass'.served = pass.served /\ pass'.edition = pass.edition
          /\ pass'.want = pass.want /\ pass'.at = "confirm"
      BY <1>9, <1>p DEF KeepApplied, Pass
    <2> QED
      BY <1>0, <1>9, <2>1, RecordFrame, PassFrame DEF KeepApplied
  <1>10. CASE ConfirmStoredConfig
    <2>1. \/ pass' = IdlePass
          \/ pass'.gw = pass.gw /\ pass'.served = pass.served /\ pass'.edition = pass.edition
             /\ pass'.want = pass.want /\ pass'.at = "deploy"
      BY <1>10, <1>p DEF ConfirmStoredConfig, EndPass, Pass
    <2> QED
      BY <1>0, <1>10, <1>i, <2>1, RecordFrame, PassFrame DEF ConfirmStoredConfig, children
  <1>11. CASE HoldForConfigMap \/ HoldForOthers \/ Collected
    <2>1. pass'.gw = pass.gw /\ pass'.served = pass.served /\ pass'.edition = pass.edition
          /\ pass'.want = pass.want /\ pass'.at \in {"finish", "collect"}
      BY <1>11, <1>p DEF HoldForConfigMap, HoldForOthers, Collected, Pass
    <2> QED
      BY <1>0, <1>11, <2>1, RecordFrame, PassFrame DEF HoldForConfigMap, HoldForOthers, Collected, children
  <1>12. CASE Deploy
    <2>1. WantedTemplate.config = pass.gw.checksum
      BY DEF WantedTemplate
    <2>2. /\ pass'.served = pass.served /\ pass'.edition = pass.edition /\ pass'.want = pass.want
          /\ pass'.gw.checksum = pass.gw.checksum /\ pass'.gw.edition = pass.gw.edition
          /\ pass'.gw.spec = pass.gw.spec /\ pass'.at = "collect"
      BY <1>12, <1>p DEF Deploy, Pass, Gateway
    <2>3. Backed(pass'.gw, recorded') /\ Named(WantedTemplate.config, recorded') /\ recorded' = recorded
      <3>1. recorded' = recorded /\ Backed(pass.gw, recorded)
        BY <1>0, <1>12 DEF Deploy, RecordInv
      <3>2. Named(pass.gw.checksum, recorded)
        BY <3>1 DEF Backed
      <3> QED
        BY <2>1, <2>2, <3>1, <3>2, BackedSame
    <2>4. (dep' = dep \/ dep' = WantedTemplate) /\ (depCache' = depCache \/ depCache' = dep')
      BY <1>12 DEF Deploy
    <2> QED
      BY <1>0, <1>12, <2>2, <2>3, <2>4, RecordFrame, PassFrame DEF Deploy
  <1>13. CASE DeployFailed
    <2>1. WantedTemplate.config = pass.gw.checksum
      BY DEF WantedTemplate
    <2>2. pass'.gw = pass.gw /\ pass'.served = pass.served /\ pass'.edition = pass.edition
          /\ pass'.want = pass.want /\ pass'.at = "finish"
      BY <1>13, <1>p DEF DeployFailed, Pass
    <2>3. Named(WantedTemplate.config, recorded') /\ recorded' = recorded
      BY <1>0, <1>13, <2>1 DEF RecordInv, Backed, DeployFailed
    <2>4. (dep' = dep \/ dep' = WantedTemplate) /\ (depCache' = depCache \/ depCache' = dep')
      BY <1>13 DEF DeployFailed
    <2> QED
      BY <1>0, <1>13, <2>2, <2>3, <2>4, RecordFrame, PassFrame DEF DeployFailed
  <1>14. CASE CollectConfigMaps
    <2>1. pass'.gw = pass.gw /\ pass'.served = pass.served /\ pass'.edition = pass.edition
          /\ pass'.want = pass.want /\ pass'.at \in {"delete", "finish"}
      BY <1>14, <1>p DEF CollectConfigMaps, Pass
    <2> QED
      BY <1>0, <1>14, <2>1, RecordFrame, PassFrame DEF CollectConfigMaps, children
  <1>15. ASSUME NEW n \in Names, DeleteConfigMap(n) PROVE RecordInv' /\ AcceptInv' /\ ServedInv'
    <2>1. pass'.gw = pass.gw /\ pass'.served = pass.served /\ pass'.edition = pass.edition
          /\ pass'.want = pass.want /\ pass'.at \in {"delete", "finish"}
      BY <1>15, <1>p DEF DeleteConfigMap, Pass
    <2> QED
      BY <1>0, <1>15, <2>1, RecordFrame, PassFrame DEF DeleteConfigMap
  <1>16. CASE Finish
    <2>1. pass' = IdlePass /\ recorded' = recorded
      BY <1>16 DEF Finish, EndPass
    <2>2. \/ UNCHANGED <<gw, gwEvents>>
          \/ gw' = pass.gw /\ gwEvents' = Append(gwEvents, gw')
      BY <1>16 DEF Finish, StoreGateway
    <2>3. Backed(pass.gw, recorded')
      BY <1>0, <2>1 DEF RecordInv
    <2> QED
      BY <1>0, <1>16, <1>i, <1>p, <2>1, <2>2, <2>3, RecordFrame, PassFrame DEF Finish, children
  <1>17. CASE Crash
    BY <1>0, <1>17, <1>i, RecordFrame, PassFrame DEF Crash, children
  <1>18. CASE DeliverGateway
    <2>1. gwEvents # <<>> /\ gwEvents' = Tail(gwEvents) /\ gwCache' = gwEvents[1] /\ recorded' = recorded
          /\ 1 \in 1..Len(gwEvents)
      BY <1>0, <1>18 DEF DeliverGateway, TypeOK
    <2>2. Backed(gwCache', recorded')
      BY <1>0, <2>1 DEF RecordInv
    <2> QED
      BY <1>0, <1>18, <2>1, <2>2, RecordFrame, PassFrame DEF DeliverGateway, children
  <1>19. CASE DeliverDeployment
    BY <1>0, <1>19, RecordFrame, PassFrame DEF DeliverDeployment
  <1>20. CASE (\E i \in Inputs : ChangeInput(i)) \/ ChangeLicense \/ ChangeHold
    BY <1>0, <1>20, RecordFrame, PassFrame DEF ChangeInput, ChangeLicense, ChangeHold, children
  <1>21. CASE ChangeSpec
    <2>1. gw' \in Gateway /\ gwEvents' = Append(gwEvents, gw')
          /\ gw'.checksum = gw.checksum /\ gw'.edition = gw.edition
      BY <1>0, <1>21 DEF ChangeSpec, StoreGateway, TypeOK, Gateway, Editions
    <2>2. Backed(gw', recorded') /\ recorded' = recorded
      BY <1>0, <1>21, <2>1 DEF RecordInv, Backed, Named, Keyed, ChangeSpec
    <2>3. pass'.gw = pass.gw /\ pass'.served = pass.served /\ pass'.edition = pass.edition
          /\ pass'.want = pass.want /\ pass'.at = pass.at
      BY <1>21, <1>p DEF ChangeSpec, Pass
    <2> QED
      BY <1>0, <1>21, <2>1, <2>2, <2>3, RecordFrame, PassFrame DEF ChangeSpec, children
  <1>22. CASE StartReplicaSet \/ \E n \in Names : RetireReplicaSet(n)
    BY <1>0, <1>22, RecordFrame, PassFrame DEF StartReplicaSet, RetireReplicaSet
  <1>23. ASSUME NEW c \in Checksums, NEW s \in ConfigMapStates, MeddleConfigMap(c, s)
         PROVE  RecordInv' /\ AcceptInv' /\ ServedInv'
    BY <1>0, <1>23, RecordFrame, PassFrame DEF MeddleConfigMap
  <1>24. CASE MeddleDeployment
    <2>1. recorded' = recorded /\ pass' = pass
      BY <1>24 DEF MeddleDeployment
    <2>2. Named(dep'.config, recorded')
      BY <1>0, <1>24, <2>1 DEF MeddleDeployment, Named, NoDeployment, TypeOK
    <2>3. depCache' = depCache \/ depCache' = dep'
      BY <1>24 DEF MeddleDeployment
    <2> QED
      BY <1>0, <1>24, <2>1, <2>2, <2>3, RecordFrame, PassFrame DEF MeddleDeployment
  <1>25. CASE UNCHANGED vars
    BY <1>0, <1>25, RecordFrame, PassFrame DEF vars, children
  <1> QED
    BY <1>1, <1>2, <1>3, <1>4, <1>5, <1>6, <1>7, <1>8, <1>9, <1>10, <1>11, <1>12, <1>13, <1>14,
       <1>15, <1>16, <1>17, <1>18, <1>19, <1>20, <1>21, <1>22, <1>23, <1>24, <1>25
    DEF Next, PassStep, EnvStep

LEMMA InvAlways == Spec => []Inv
  BY InvInit, InvNext, PTL DEF Spec

\* Pods are never ahead of the record, through crashes, lost answers and stale
\* caches, on new and upgraded gateways: the Deployment carries only configs
\* that recordApplied made durable first.
THEOREM RecordComesFirst == Spec => []DeployedWasRecorded
  <1>1. Inv => DeployedWasRecorded
    BY DEF Inv, RecordInv, Named, DeployedWasRecorded
  <1> QED
    BY InvAlways, <1>1, PTL

\* On a gateway no earlier version left behind, the status only ever names a
\* config with an edition krakend check accepted it for.
THEOREM StatusIsAccepted == ~Upgraded => (Spec => []AppliedIsAccepted)
  <1> SUFFICES ASSUME ~Upgraded PROVE Spec => []AppliedIsAccepted
    OBVIOUS
  <1>1. Inv => AppliedIsAccepted
    BY DEF Inv, RecordInv, AcceptInv, Backed, Keyed, AppliedIsAccepted
  <1> QED
    BY InvAlways, <1>1, PTL

\* On such a gateway a pass that serves its render deploys it with the image of
\* an edition krakend check accepted it for: adopted, fallback and recovered
\* licenses and spec.edition changes included.
THEOREM ServedImageIsAccepted == ~Upgraded => (Spec => ServedPairAccepted)
  <1> SUFFICES ASSUME ~Upgraded PROVE Spec => ServedPairAccepted
    OBVIOUS
  <1>1. ASSUME Inv, [Next]_vars, pass.at = "deploy", pass' # pass, pass.served, dep' # dep
        PROVE  <<dep'.config, dep'.image>> \in Accepted
    <2>0. TypeOK /\ RecordInv /\ AcceptInv /\ ServedInv /\ pass \in Pass
      BY <1>1 DEF Inv, TypeInv, TypeOK
    <2>1. dep' = WantedTemplate
      BY <1>1, <2>0
      DEF Next, PassStep, EnvStep, Read, ReadFailed, ValidatorUnavailable, Reject, ServeApplied, Publish,
          RecordApplied, RecordFailed, KeepApplied, ConfirmStoredConfig, HoldForConfigMap, HoldForOthers,
          Deploy, DeployFailed, CollectConfigMaps, Collected, Finish, DeleteConfigMap, Crash, DeliverGateway,
          DeliverDeployment, ChangeInput, ChangeLicense, ChangeHold, ChangeSpec, StartReplicaSet,
          RetireReplicaSet, MeddleConfigMap, MeddleDeployment, vars, children
    <2>2. pass.gw \in Gateway /\ pass.edition \in Editions /\ pass.gw.checksum # NoConfig
          /\ pass.gw.edition = pass.edition
      BY <1>1, <2>0 DEF ServedInv, Pass
    <2>3. <<pass.gw.checksum, pass.edition>> \in Accepted
      BY <2>0, <2>2 DEF RecordInv, Backed, Keyed, AcceptInv
    <2>4. AppliedImage(pass.gw, pass.edition) = pass.edition
      BY <2>0, <2>2 DEF AppliedImage, AppliedKey, AppliedFallback, ResolveImage, ServedInv, Gateway, Editions, None
    <2> QED
      BY <2>1, <2>3, <2>4 DEF WantedTemplate
  <1>2. Inv /\ [Next]_vars =>
          [pass.at = "deploy" /\ pass' # pass /\ pass.served /\ dep' # dep
             => <<dep'.config, dep'.image>> \in Accepted]_vars
    BY <1>1
  <1> QED
    BY InvAlways, <1>2, PTL DEF Spec, ServedPairAccepted

-----------------------------------------------------------------------------
(* No rollback.  While nobody else writes the Deployment and its cache     *)
(* keeps up, the Deployment a pass read is the stored one until the pass   *)
(* writes it; and a pass that came past confirmStoredConfig and would move *)
(* it works from the checksum the stored status names.                     *)

OnlyWriter == Events \cap {"deployment", "deploymentLag"} = {}

BeforeWrite == {"decide", "record", "keep", "confirm", "deploy"}

SyncInv ==
  /\ depSynced /\ depCache = dep
  /\ pass.at \in BeforeWrite => pass.deployed = dep

ConfirmInv == pass.at = "deploy" /\ ConfirmNeeded(pass) => gw.checksum = pass.gw.checksum

LEMMA SyncFrame ==
  ASSUME SyncInv, UNCHANGED <<dep, depCache, depSynced>>,
         pass'.at \in BeforeWrite => pass.at \in BeforeWrite /\ pass'.deployed = pass.deployed
  PROVE  SyncInv'
  BY DEF SyncInv

LEMMA ConfirmFrame ==
  ASSUME ConfirmInv,
         pass'.at = "deploy" =>
           /\ pass.at = "deploy" /\ gw'.checksum = gw.checksum /\ pass'.gw = pass.gw
           /\ pass'.served = pass.served /\ pass'.name = pass.name /\ pass'.deployed = pass.deployed
  PROVE  ConfirmInv'
  BY DEF ConfirmInv, ConfirmNeeded

LEMMA SyncNext ==
  ASSUME OnlyWriter, TypeOK, SyncInv, ConfirmInv, [Next]_vars
  PROVE  SyncInv' /\ ConfirmInv'
  <1>p. pass \in Pass /\ IdlePass.at = "idle"
    BY IdleTyped DEF TypeOK
  <1>1. CASE Read
    <2>1. pass'.at = "decide" /\ pass'.deployed = depCache
      BY <1>1 DEF Read, IdlePass
    <2> QED
      BY <1>1, <2>1 DEF Read, SyncInv, ConfirmInv, children
  <1>2. CASE ReadFailed
    BY <1>2, SyncFrame, ConfirmFrame DEF ReadFailed, children
  <1>3. CASE ValidatorUnavailable \/ Reject
    <2>1. pass'.at = "keep" /\ pass'.deployed = pass.deployed /\ pass.at \in BeforeWrite
      BY <1>3, <1>p DEF ValidatorUnavailable, Reject, Pass, BeforeWrite
    <2> QED
      BY <1>3, <2>1, SyncFrame, ConfirmFrame DEF ValidatorUnavailable, Reject, children
  <1>4. CASE ServeApplied \/ Publish
    <2>1. pass'.at \in {"confirm", "record", "keep"} /\ pass'.deployed = pass.deployed /\ pass.at \in BeforeWrite
      BY <1>4, <1>p DEF ServeApplied, Publish, Pass, BeforeWrite
    <2> QED
      BY <1>4, <2>1, SyncFrame, ConfirmFrame DEF ServeApplied, Publish
  <1>5. CASE RecordApplied \/ RecordFailed
    <2>1. pass'.at \in {"confirm", "keep"} /\ pass'.deployed = pass.deployed /\ pass.at \in BeforeWrite
      BY <1>5, <1>p DEF RecordApplied, RecordFailed, Pass, BeforeWrite
    <2> QED
      BY <1>5, <2>1, SyncFrame, ConfirmFrame DEF RecordApplied, RecordFailed, children
  <1>6. CASE KeepApplied
    <2>1. pass'.at = "confirm" /\ pass'.deployed = pass.deployed /\ pass.at \in BeforeWrite
      BY <1>6, <1>p DEF KeepApplied, Pass, BeforeWrite
    <2> QED
      BY <1>6, <2>1, SyncFrame, ConfirmFrame DEF KeepApplied
  <1>7. CASE ConfirmStoredConfig
    <2>1. UNCHANGED <<gw, dep, depCache, depSynced>> /\ pass.at = "confirm"
      BY <1>7 DEF ConfirmStoredConfig, children
    <2>2. CASE pass' = IdlePass
      BY <1>p, <2>1, <2>2, SyncFrame, ConfirmFrame DEF BeforeWrite
    <2>3. CASE pass' = [pass EXCEPT !.at = "deploy"] /\ ~(ConfirmNeeded(pass) /\ CacheBehind(pass))
      <3>1. /\ pass'.at = "deploy" /\ pass'.deployed = pass.deployed /\ pass'.gw = pass.gw
            /\ pass'.served = pass.served /\ pass'.name = pass.name
        BY <1>p, <2>3 DEF Pass
      <3>2. ConfirmInv'
        BY <2>1, <2>3, <3>1 DEF ConfirmInv, ConfirmNeeded, CacheBehind
      <3> QED
        BY <2>1, <3>1, <3>2, SyncFrame DEF BeforeWrite
    <2> QED
      BY <1>7, <2>2, <2>3 DEF ConfirmStoredConfig, EndPass
  <1>8. CASE HoldForConfigMap \/ HoldForOthers \/ Collected \/ CollectConfigMaps \/ \E n \in Names : DeleteConfigMap(n)
    <2>1. pass'.at \in {"finish", "collect", "delete"}
      BY <1>8, <1>p DEF HoldForConfigMap, HoldForOthers, Collected, CollectConfigMaps, DeleteConfigMap, Pass
    <2>2. UNCHANGED <<dep, depCache, depSynced>>
      BY <1>8 DEF HoldForConfigMap, HoldForOthers, Collected, CollectConfigMaps, DeleteConfigMap, children
    <2> QED
      BY <2>1, <2>2, SyncFrame, ConfirmFrame DEF BeforeWrite
  <1>9. CASE Deploy \/ DeployFailed
    <2>1. pass'.at \in {"collect", "finish"}
      BY <1>9, <1>p DEF Deploy, DeployFailed, Pass
    <2>2. depSynced' /\ depCache' = dep'
      BY <1>9 DEF Deploy, DeployFailed, OnlyWriter, SyncInv
    <2> QED
      BY <2>1, <2>2 DEF SyncInv, ConfirmInv, BeforeWrite
  <1>10. CASE Finish \/ Crash
    <2>1. pass' = IdlePass /\ UNCHANGED <<dep, depCache, depSynced>>
      BY <1>10 DEF Finish, Crash, EndPass, children
    <2> QED
      BY <1>p, <2>1, SyncFrame, ConfirmFrame DEF BeforeWrite
  <1>11. CASE DeliverGateway \/ (\E i \in Inputs : ChangeInput(i)) \/ ChangeLicense \/ ChangeHold
    BY <1>11, SyncFrame, ConfirmFrame DEF DeliverGateway, ChangeInput, ChangeLicense, ChangeHold, children
  <1>12. CASE DeliverDeployment
    BY <1>12 DEF DeliverDeployment, SyncInv
  <1>13. CASE ChangeSpec
    <2>1. /\ pass'.at = pass.at /\ pass'.deployed = pass.deployed /\ pass'.gw = pass.gw
          /\ pass'.served = pass.served /\ pass'.name = pass.name
      BY <1>13, <1>p DEF ChangeSpec, Pass
    <2>2. gw'.checksum = gw.checksum
      BY <1>13 DEF ChangeSpec, StoreGateway, TypeOK, Gateway
    <2> QED
      BY <1>13, <2>1, <2>2, SyncFrame, ConfirmFrame DEF ChangeSpec, children
  <1>14. CASE StartReplicaSet \/ \E n \in Names : RetireReplicaSet(n)
    BY <1>14, SyncFrame, ConfirmFrame DEF StartReplicaSet, RetireReplicaSet
  <1>15. ASSUME NEW c \in Checksums, NEW t \in ConfigMapStates, MeddleConfigMap(c, t)
         PROVE  SyncInv' /\ ConfirmInv'
    <2>1. /\ pass'.at = pass.at /\ pass'.deployed = pass.deployed /\ pass'.gw = pass.gw
          /\ pass'.served = pass.served /\ pass'.name = pass.name
      BY <1>15, <1>p DEF MeddleConfigMap, Pass
    <2> QED
      BY <1>15, <2>1, SyncFrame, ConfirmFrame DEF MeddleConfigMap
  <1>16. CASE MeddleDeployment
    BY <1>16 DEF MeddleDeployment, OnlyWriter
  <1>17. CASE UNCHANGED vars
    BY <1>17, SyncFrame, ConfirmFrame DEF vars, children
  <1> QED
    BY <1>1, <1>2, <1>3, <1>4, <1>5, <1>6, <1>7, <1>8, <1>9, <1>10, <1>11, <1>12, <1>13, <1>14, <1>15, <1>16, <1>17
    DEF Next, PassStep, EnvStep

LEMMA SyncInit ==
  ASSUME Init PROVE SyncInv /\ ConfirmInv
  BY DEF Init, SyncInv, ConfirmInv, IdlePass, BeforeWrite

\* confirmStoredConfig: while the operator alone writes the Deployment and its
\* cache keeps up, a pass that applies nothing moves an existing Deployment only
\* to the config the stored status names, however old the gateway it read.
THEOREM PodsAreNotRolledBack == OnlyWriter => (Spec => NoRollback)
  <1> SUFFICES ASSUME OnlyWriter PROVE Spec => NoRollback
    OBVIOUS
  <1> DEFINE I == TypeInv /\ SyncInv /\ ConfirmInv
  <1>1. Init => I
    BY TypeInvInit, SyncInit
  <1>2. I /\ [Next]_vars => I'
    BY TypeInvNext, SyncNext DEF TypeInv
  <1>3. ASSUME I, [Next]_vars, pass.at = "deploy", pass' # pass, ~pass.served,
               dep.config \notin {NoConfig, dep'.config}
        PROVE  dep'.config = gw.checksum
    <2>1. dep' = WantedTemplate /\ DeployReady
      BY <1>3
      DEF Next, PassStep, EnvStep, Read, ReadFailed, ValidatorUnavailable, Reject, ServeApplied, Publish,
          RecordApplied, RecordFailed, KeepApplied, ConfirmStoredConfig, HoldForConfigMap, HoldForOthers,
          Deploy, DeployFailed, CollectConfigMaps, Collected, Finish, DeleteConfigMap, Crash, DeliverGateway,
          DeliverDeployment, ChangeInput, ChangeLicense, ChangeHold, ChangeSpec, StartReplicaSet,
          RetireReplicaSet, MeddleConfigMap, MeddleDeployment, vars, children
    <2>2. dep'.config = pass.gw.checksum /\ pass.deployed = dep /\ pass.name # NoConfig
      BY <1>3, <2>1 DEF WantedTemplate, DeployReady, SyncInv, BeforeWrite
    <2> QED
      BY <1>3, <2>2 DEF ConfirmInv, ConfirmNeeded
  <1>4. I /\ [Next]_vars =>
          [pass.at = "deploy" /\ pass' # pass /\ ~pass.served /\ dep.config \notin {NoConfig, dep'.config}
             => dep'.config = gw.checksum]_vars
    BY <1>3
  <1> QED
    BY <1>1, <1>2, <1>4, PTL DEF Spec, NoRollback

-----------------------------------------------------------------------------
(* What pods mount is kept.  A pass deploys a ConfigMap it has just found  *)
(* or created; what it is about to collect is neither that one, nor what   *)
(* the Deployment mounts, nor what a ReplicaSet with pods mounted when it  *)
(* listed them, and a ReplicaSet that starts since mounts the Deployment's.*)

OnlyCollected == OnlyWriter /\ "configMaps" \notin Events

MountInv ==
  /\ MountedConfigKept
  /\ pass.at = "decide" => pass.name = NoConfig
  /\ pass.at = "record" => cm[pass.want] = "ours"
  /\ pass.at \in {"confirm", "deploy"} /\ pass.name # NoConfig => cm[pass.name] = "ours"
  /\ pass.at = "collect" => dep.mount \in {pass.name, pass.deployed.mount}
  /\ pass.at = "delete" => pass.victims \cap (rs \cup {dep.mount}) = {}

\* A step that takes no ConfigMap away.
OursKept == \A c \in Checksums : cm[c] = "ours" => cm'[c] = "ours"

LEMMA PublishKeepsOurs ==
  ASSUME TypeOK, NEW c \in Checksums
  PROVE  /\ PublishConfig(c) => OursKept /\ cm'[c] = "ours"
         /\ PublishConfigFailed(c) => OursKept
  <1>1. ASSUME NEW t, StoreConfigMap(c, t) PROVE cm' = [cm EXCEPT ![c] = t]
    BY <1>1 DEF StoreConfigMap
  <1>2. PublishLeaves("ours") = {"ours"}
    BY DEF PublishLeaves
  <1>3. ASSUME PublishConfig(c) PROVE OursKept /\ cm'[c] = "ours"
    BY <1>1, <1>3 DEF PublishConfig, OursKept, TypeOK
  <1>4. ASSUME PublishConfigFailed(c) PROVE OursKept
    <2>1. PICK t \in PublishLeaves(cm[c]) : cm' = [cm EXCEPT ![c] = t]
      BY <1>1, <1>4 DEF PublishConfigFailed
    <2> QED
      BY <1>2, <2>1 DEF OursKept, TypeOK
  <1> QED
    BY <1>3, <1>4

\* Pods keep what they mount as long as nothing is deleted, and a new
\* ReplicaSet mounts what the Deployment does.
LEMMA MountKept ==
  ASSUME TypeOK, MountedConfigKept, OursKept, legacy' = legacy, rs' \subseteq rs \cup {dep.mount},
         dep'.mount = dep.mount \/ (dep'.mount \in Checksums /\ cm[dep'.mount] = "ours")
  PROVE  MountedConfigKept'
  <1> SUFFICES ASSUME NEW n \in (rs' \cup {dep'.mount}) \ {NoConfig} PROVE Holds(n)'
    BY DEF MountedConfigKept
  <1>1. rs \subseteq Names /\ dep.mount \in Names \cup {NoConfig}
    BY DEF TypeOK, Template, NoDeployment
  <1>2. CASE n \in rs \cup {dep.mount}
    <2>1. Holds(n) /\ n \in Names
      BY <1>1, <1>2 DEF MountedConfigKept
    <2> QED
      BY <2>1 DEF Holds, OursKept, Names
  <1>3. CASE n \in Checksums /\ cm[n] = "ours"
    <2>1. n # LegacyName
      BY <1>3, ConfigAssumption
    <2> QED
      BY <1>3, <2>1 DEF Holds, OursKept
  <1> QED
    BY <1>2, <1>3

\* A step that leaves the Deployment and the pass's ConfigMaps alone.
LEMMA MountFrame ==
  ASSUME TypeOK, MountInv, OursKept, UNCHANGED <<dep, legacy>>, rs' \subseteq rs \cup {dep.mount}, pass' \in Pass,
         \/ pass'.at \in {"idle", "keep", "finish"}
         \/ /\ pass'.at = pass.at /\ pass'.want = pass.want /\ pass'.name = pass.name
            /\ pass'.deployed = pass.deployed /\ pass'.victims = pass.victims
  PROVE  MountInv'
  <1>1. MountedConfigKept'
    BY MountKept DEF MountInv
  <1>2. pass \in Pass
    BY DEF TypeOK
  <1>3. CASE pass'.at \in {"idle", "keep", "finish"}
    BY <1>1, <1>3 DEF MountInv
  <1>4. CASE /\ pass'.at = pass.at /\ pass'.want = pass.want /\ pass'.name = pass.name
             /\ pass'.deployed = pass.deployed /\ pass'.victims = pass.victims
    <2>1. pass.at = "record" => cm'[pass.want] = "ours"
      BY <1>2 DEF MountInv, OursKept, Pass
    <2>2. pass.at \in {"confirm", "deploy"} /\ pass.name # NoConfig => cm'[pass.name] = "ours"
      BY <1>2 DEF MountInv, OursKept, Pass
    <2>3. pass.at = "delete" => pass.victims \cap (rs' \cup {dep.mount}) = {}
      BY DEF MountInv
    <2>4. pass.at = "collect" => dep.mount \in {pass.name, pass.deployed.mount}
      BY DEF MountInv
    <2> QED
      BY <1>1, <1>4, <2>1, <2>2, <2>3, <2>4 DEF MountInv
  <1> QED
    BY <1>3, <1>4

\* A pass that has found or created the ConfigMap it goes on with.
LEMMA MountFound ==
  ASSUME TypeOK, MountInv, OursKept, UNCHANGED <<dep, legacy, rs>>,
         \/ pass'.at = "decide" /\ pass'.name = NoConfig
         \/ pass'.at = "record" /\ cm'[pass'.want] = "ours"
         \/ pass'.at \in {"confirm", "deploy"} /\ (pass'.name # NoConfig => cm'[pass'.name] = "ours")
  PROVE  MountInv'
  <1>1. MountedConfigKept'
    BY MountKept DEF MountInv
  <1> QED
    BY <1>1 DEF MountInv

LEMMA MountNext ==
  ASSUME OnlyCollected, TypeInv, SyncInv, MountInv, [Next]_vars
  PROVE  MountInv'
  <1>0. TypeOK /\ NameOfCopy /\ TypeOK'
    BY TypeInvNext DEF TypeInv
  <1>p. pass \in Pass /\ pass' \in Pass /\ IdlePass.at = "idle"
    BY <1>0, IdleTyped DEF TypeOK
  <1>s. UNCHANGED cm => OursKept
    BY DEF OursKept
  <1>1. CASE Read
    <2>1. pass'.at = "decide" /\ pass'.name = NoConfig
      BY <1>1 DEF Read, IdlePass
    <2> QED
      BY <1>0, <1>1, <1>s, <2>1, MountFound DEF Read, children
  <1>2. CASE ReadFailed
    BY <1>0, <1>2, <1>p, <1>s, MountFrame DEF ReadFailed, children
  <1>3. CASE ValidatorUnavailable \/ Reject
    <2>1. pass'.at = "keep"
      BY <1>3, <1>p DEF ValidatorUnavailable, Reject, Pass
    <2> QED
      BY <1>0, <1>3, <1>p, <1>s, <2>1, MountFrame DEF ValidatorUnavailable, Reject, children
  <1>4. CASE ServeApplied
    <2>1. pass.want \in Checksums /\ UNCHANGED <<dep, legacy, rs>>
      BY <1>4, <1>p DEF ServeApplied, Pass
    <2>2. CASE PublishConfig(pass.want) /\
               pass' = [pass EXCEPT !.at = "confirm", !.served = TRUE, !.name = pass.want,
                                    !.gw.edition = pass.edition, !.gw.valid = "True"]
      <3>1. pass'.at = "confirm" /\ pass'.name = pass.want
        BY <1>p, <2>2 DEF Pass, Gateway
      <3> QED
        BY <1>0, <2>1, <2>2, <3>1, PublishKeepsOurs, MountFound
    <2>3. CASE PublishConfigFailed(pass.want) /\
               pass' = [pass EXCEPT !.at = "confirm", !.served = TRUE, !.failed = TRUE,
                                    !.gw.edition = pass.edition, !.gw.valid = "Unknown"]
      <3>1. pass'.at = "confirm" /\ pass'.name = pass.name
        BY <1>p, <2>3 DEF Pass, Gateway
      <3>2. pass.name = NoConfig
        BY <1>4 DEF ServeApplied, MountInv
      <3> QED
        BY <1>0, <2>1, <2>3, <3>1, <3>2, PublishKeepsOurs, MountFound
    <2> QED
      BY <1>4, <2>2, <2>3 DEF ServeApplied
  <1>5. CASE Publish
    <2>1. pass.want \in Checksums /\ UNCHANGED <<dep, legacy, rs>>
      BY <1>5, <1>p DEF Publish, Pass
    <2>2. CASE PublishConfig(pass.want) /\ pass' = [pass EXCEPT !.at = "record"]
      <3>1. pass'.at = "record" /\ pass'.want = pass.want
        BY <1>p, <2>2 DEF Pass
      <3> QED
        BY <1>0, <2>1, <2>2, <3>1, PublishKeepsOurs, MountFound
    <2>3. CASE PublishConfigFailed(pass.want) /\
               pass' = [pass EXCEPT !.at = "keep", !.gw.valid = "Unknown", !.failed = TRUE]
      <3>1. pass'.at = "keep"
        BY <1>p, <2>3 DEF Pass
      <3> QED
        BY <1>0, <1>p, <2>1, <2>3, <3>1, PublishKeepsOurs, MountFrame
    <2> QED
      BY <1>5, <2>2, <2>3 DEF Publish
  <1>6. CASE RecordApplied
    <2>1. pass'.at = "confirm" /\ pass'.name = pass.want /\ cm[pass.want] = "ours"
      BY <1>6, <1>p DEF RecordApplied, Pass, MountInv
    <2> QED
      BY <1>0, <1>6, <1>s, <2>1, MountFound DEF RecordApplied, children
  <1>7. CASE RecordFailed
    <2>1. pass'.at = "keep"
      BY <1>7, <1>p DEF RecordFailed, Pass
    <2> QED
      BY <1>0, <1>7, <1>p, <1>s, <2>1, MountFrame DEF RecordFailed, children
  <1>8. CASE KeepApplied
    <2> DEFINE c == pass.gw.checksum
               Done(name, failed) ==
                 pass' = [pass EXCEPT !.at = "confirm", !.name = name, !.failed = @ \/ failed]
    <2>1. c \in Checksums \cup {NoConfig} /\ NoConfig \notin Checksums /\ UNCHANGED <<dep, legacy, rs>>
      BY <1>8, <1>p, ConfigAssumption DEF KeepApplied, Pass, Gateway, Names
    <2>2. ASSUME NEW name, NEW failed, Done(name, failed) PROVE pass'.at = "confirm" /\ pass'.name = name
      BY <2>2, <1>p DEF Pass
    <2>3. CASE (Done(NoConfig, FALSE) \/ Done(NoConfig, TRUE)) /\ UNCHANGED cm
      BY <1>0, <1>s, <2>1, <2>2, <2>3, MountFound
    <2>4. CASE c # NoConfig /\ cm[c] = "ours" /\ Done(c, FALSE) /\ UNCHANGED cm
      BY <1>0, <1>s, <2>1, <2>2, <2>4, MountFound
    <2>5. CASE c # NoConfig /\ cm[c] \in {"absent", "tampered"} /\ StoreConfigMap(c, "ours") /\ Done(c, FALSE)
      <3>1. PublishConfig(c)
        BY <2>5 DEF PublishConfig
      <3> QED
        BY <1>0, <2>1, <2>2, <2>5, <3>1, PublishKeepsOurs, MountFound
    <2>6. CASE c # NoConfig /\ cm[c] \in {"absent", "tampered"} /\ StoreConfigMap(c, "absent") /\ Done(NoConfig, FALSE)
      <3>1. OursKept
        BY <1>0, <2>1, <2>6 DEF StoreConfigMap, OursKept, TypeOK
      <3> QED
        BY <1>0, <2>1, <2>2, <2>6, <3>1, MountFound
    <2>7. CASE /\ c # NoConfig /\ Done(NoConfig, TRUE)
               /\ \E t \in PublishLeaves(cm[c]) : StoreConfigMap(c, t)
      <3>1. PublishLeaves("ours") = {"ours"}
        BY DEF PublishLeaves
      <3>2. PICK t \in PublishLeaves(cm[c]) : cm' = [cm EXCEPT ![c] = t]
        BY <2>7 DEF StoreConfigMap
      <3>3. OursKept
        BY <1>0, <2>1, <2>7, <3>1, <3>2 DEF OursKept, TypeOK
      <3> QED
        BY <1>0, <2>1, <2>2, <2>7, <3>3, MountFound
    <2> QED
      BY <1>8, <2>3, <2>4, <2>5, <2>6, <2>7 DEF KeepApplied
  <1>9. CASE ConfirmStoredConfig
    <2>1. UNCHANGED <<dep, cm, legacy, rs>> /\ pass.at = "confirm"
      BY <1>9 DEF ConfirmStoredConfig, children
    <2>2. CASE pass' = IdlePass
      BY <1>0, <1>p, <1>s, <2>1, <2>2, MountFrame
    <2>3. CASE pass' = [pass EXCEPT !.at = "deploy"]
      <3>1. pass'.at = "deploy" /\ pass'.name = pass.name
        BY <1>p, <2>3 DEF Pass
      <3>2. pass.name # NoConfig => cm[pass.name] = "ours"
        BY <2>1 DEF MountInv
      <3> QED
        BY <1>0, <1>s, <2>1, <3>1, <3>2, MountFound
    <2> QED
      BY <1>9, <2>2, <2>3 DEF ConfirmStoredConfig, EndPass
  <1>10. CASE HoldForConfigMap \/ Collected
    <2>1. pass'.at = "finish"
      BY <1>10, <1>p DEF HoldForConfigMap, Collected, Pass
    <2> QED
      BY <1>0, <1>10, <1>p, <1>s, <2>1, MountFrame DEF HoldForConfigMap, Collected, children
  <1>11. CASE HoldForOthers
    <2>1. pass'.at = "collect" /\ pass'.deployed = pass.deployed /\ pass.at = "deploy"
      BY <1>11, <1>p DEF HoldForOthers, Pass
    <2>2. UNCHANGED <<dep, cm, legacy, rs>>
      BY <1>11 DEF HoldForOthers, children
    <2>3. MountedConfigKept'
      BY <1>0, <1>s, <2>2, MountKept DEF MountInv
    <2> QED
      BY <2>1, <2>2, <2>3 DEF MountInv, SyncInv, BeforeWrite
  <1>12. CASE Deploy \/ DeployFailed
    <2>1. /\ DeployReady /\ UNCHANGED <<cm, legacy, rs>>
          /\ dep' = dep \/ dep' = WantedTemplate
      BY <1>12 DEF Deploy, DeployFailed
    <2>2. /\ WantedTemplate.mount = pass.name /\ pass.name \in Checksums /\ cm[pass.name] = "ours"
      BY <1>p, <2>1 DEF WantedTemplate, DeployReady, MountInv, Pass
    <2>3. MountedConfigKept'
      BY <1>0, <1>s, <2>1, <2>2, MountKept DEF MountInv
    <2>4. CASE Deploy
      <3>1. pass'.at = "collect" /\ pass'.name = pass.name
        BY <2>4, <1>p DEF Deploy, Pass
      <3>2. dep'.mount = pass.name
        BY <2>2, <2>4 DEF Deploy, SyncInv
      <3> QED
        BY <2>3, <3>1, <3>2 DEF MountInv
    <2>5. CASE DeployFailed
      <3>1. pass'.at = "finish"
        BY <2>5, <1>p DEF DeployFailed, Pass
      <3> QED
        BY <2>3, <3>1 DEF MountInv
    <2> QED
      BY <1>12, <2>4, <2>5
  <1>13. CASE CollectConfigMaps
    <2>1. UNCHANGED <<dep, cm, legacy, rs>> /\ pass.at = "collect"
      BY <1>13 DEF CollectConfigMaps, children
    <2>2. CASE pass' = [pass EXCEPT !.at = "finish", !.failed = TRUE]
      <3>1. pass'.at = "finish"
        BY <2>2, <1>p DEF Pass
      <3> QED
        BY <1>0, <1>p, <1>s, <2>1, <3>1, MountFrame
    <2>3. CASE pass' = [pass EXCEPT !.at = "delete",
                          !.victims = ConfigMapGCCandidates(pass.name, pass.deployed.mount) \ rs]
      <3>1. pass'.at = "delete" /\ pass'.victims = ConfigMapGCCandidates(pass.name, pass.deployed.mount) \ rs
        BY <2>3, <1>p DEF Pass
      <3>2. dep.mount \in {pass.name, pass.deployed.mount} /\ pass.name \in Checksums \cup {NoConfig}
        BY <1>p, <2>1 DEF MountInv, Pass
      <3>3. dep.mount \notin ConfigMapGCCandidates(pass.name, pass.deployed.mount)
        BY <3>2, ConfigAssumption DEF ConfigMapGCCandidates, Revisions, Names
      <3>4. MountedConfigKept'
        BY <1>0, <1>s, <2>1, MountKept DEF MountInv
      <3> QED
        BY <2>1, <3>1, <3>3, <3>4 DEF MountInv
    <2> QED
      BY <1>13, <2>2, <2>3 DEF CollectConfigMaps
  <1>14. ASSUME NEW n \in Names, DeleteConfigMap(n) PROVE MountInv'
    <2>1. UNCHANGED <<dep, rs>> /\ pass.at = "delete" /\ n \in pass.victims
      BY <1>14 DEF DeleteConfigMap
    <2>2. n \notin rs \cup {dep.mount} /\ pass.victims \cap (rs \cup {dep.mount}) = {}
      BY <2>1 DEF MountInv
    <2>3. CASE /\ pass' = [pass EXCEPT !.at = "finish", !.failed = TRUE]
               /\ UNCHANGED <<cm, newer, legacy>>
      <3>1. pass'.at = "finish"
        BY <2>3, <1>p DEF Pass
      <3> QED
        BY <1>0, <1>p, <1>s, <2>1, <2>3, <3>1, MountFrame
    <2>4. CASE /\ IF n = LegacyName
                    THEN legacy' = NoConfig /\ UNCHANGED <<cm, newer>>
                    ELSE StoreConfigMap(n, "absent") /\ UNCHANGED legacy
               /\ pass' = [pass EXCEPT !.victims = @ \ {n}]
      <3>1. pass'.at = "delete" /\ pass'.victims = pass.victims \ {n}
        BY <2>1, <2>4, <1>p DEF Pass
      <3>2. \A m \in Names \ {n} : Holds(m) => Holds(m)'
        BY <1>0, <2>4 DEF Holds, StoreConfigMap, TypeOK, Names
      <3>3. rs \subseteq Names /\ dep.mount \in Names \cup {NoConfig}
        BY <1>0 DEF TypeOK, Template, NoDeployment
      <3>4. MountedConfigKept'
        BY <2>1, <2>2, <3>2, <3>3 DEF MountInv, MountedConfigKept
      <3> QED
        BY <2>1, <2>2, <3>1, <3>4 DEF MountInv
    <2> QED
      BY <1>14, <2>3, <2>4 DEF DeleteConfigMap
  <1>15. CASE Finish \/ Crash
    <2>1. pass' = IdlePass /\ UNCHANGED <<dep, cm, legacy, rs>>
      BY <1>15 DEF Finish, Crash, EndPass, children
    <2> QED
      BY <1>0, <1>p, <1>s, <2>1, MountFrame
  <1>16. CASE DeliverGateway \/ (\E i \in Inputs : ChangeInput(i)) \/ ChangeLicense \/ ChangeHold
    BY <1>0, <1>16, <1>p, <1>s, MountFrame DEF DeliverGateway, ChangeInput, ChangeLicense, ChangeHold, children
  <1>17. CASE DeliverDeployment
    BY <1>17 DEF DeliverDeployment, SyncInv
  <1>18. CASE ChangeSpec
    <2>1. /\ pass'.at = pass.at /\ pass'.deployed = pass.deployed /\ pass'.want = pass.want
          /\ pass'.victims = pass.victims /\ pass'.name = pass.name
      BY <1>18, <1>p DEF ChangeSpec, Pass
    <2> QED
      BY <1>0, <1>18, <1>p, <1>s, <2>1, MountFrame DEF ChangeSpec, children
  <1>19. CASE StartReplicaSet \/ \E n \in Names : RetireReplicaSet(n)
    BY <1>0, <1>19, <1>p, <1>s, MountFrame DEF StartReplicaSet, RetireReplicaSet
  <1>20. CASE MeddleDeployment \/ \E c \in Checksums, t \in ConfigMapStates : MeddleConfigMap(c, t)
    BY <1>20 DEF MeddleDeployment, MeddleConfigMap, OnlyCollected, OnlyWriter
  <1>21. CASE UNCHANGED vars
    BY <1>0, <1>21, <1>p, <1>s, MountFrame DEF vars, children
  <1> QED
    BY <1>1, <1>2, <1>3, <1>4, <1>5, <1>6, <1>7, <1>8, <1>9, <1>10, <1>11, <1>12, <1>13, <1>14, <1>15, <1>16,
       <1>17, <1>18, <1>19, <1>20, <1>21
    DEF Next, PassStep, EnvStep

LEMMA MountInit ==
  ASSUME Init PROVE MountInv
  <1>1. PICK spec \in Editions, i \in Inputs :
          /\ dep = IF Upgraded THEN [config |-> Render[i][spec], mount |-> LegacyName, image |-> spec]
                   ELSE NoDeployment
          /\ legacy = IF Upgraded THEN Render[i][spec] ELSE NoConfig
          /\ rs = IF Upgraded THEN {LegacyName} ELSE {}
          /\ pass = IdlePass
    BY DEF Init
  <1>2. Render[i][spec] # NoConfig
    BY ConfigAssumption DEF Names
  <1>3. MountedConfigKept
    BY <1>1, <1>2 DEF MountedConfigKept, Holds, NoDeployment
  <1> QED
    BY <1>1, <1>3, IdleTyped DEF MountInv

\* collectConfigMaps, configMapGCCandidates: while nobody else touches the
\* ConfigMaps and the Deployment, and its cache keeps up, no pass, failed,
\* interrupted or working from an old copy, takes away the ConfigMap that the
\* Deployment or a ReplicaSet with pods mounts, on new and upgraded gateways and
\* for any length of the history.
THEOREM CollectionSparesMounted == OnlyCollected => (Spec => []MountedConfigKept)
  <1> SUFFICES ASSUME OnlyCollected PROVE Spec => []MountedConfigKept
    OBVIOUS
  <1> DEFINE I == TypeInv /\ SyncInv /\ ConfirmInv /\ MountInv
  <1>1. Init => I
    BY TypeInvInit, SyncInit, MountInit
  <1>2. I /\ [Next]_vars => I'
    BY TypeInvNext, SyncNext, MountNext DEF TypeInv, OnlyCollected
  <1>3. I => MountedConfigKept
    BY DEF MountInv
  <1> QED
    BY <1>1, <1>2, <1>3, PTL DEF Spec

-----------------------------------------------------------------------------
(* The applied config stays retrievable.  Only a pass that collects takes  *)
(* ConfigMaps away, and never the one it has just deployed; so a pass that *)
(* works from the checksum the stored status names spares that one, and    *)
(* another spares it while it is among the newest.  A status write is      *)
(* accepted only from a copy of the stored version, so it changes the      *)
(* checksum only to one whose ConfigMap the pass published: until then     *)
(* every copy names the config of the legacy ConfigMap, after it the       *)
(* legacy ConfigMap is not needed.                                         *)

OnlyOperator == "configMaps" \notin Events

\* A pass that comes to collect works from the checksum the stored status
\* names, finds that config mounted, or finds less than HistoryLimit - 1 newer
\* revisions among those it may collect.
WithinHistory ==
  pass.at = "collect" /\ gw.checksum \in Checksums \ (rs \cup {pass.gw.checksum, pass.deployed.mount}) =>
    ~ Cardinality(newer[gw.checksum] \cap (Revisions \ {pass.name, pass.deployed.mount})) >= HistoryLimit - 1

StatusInv ==
  /\ gwEvents = <<>> => gwCache = gw
  /\ gwEvents # <<>> => gwEvents[Len(gwEvents)] = gw
  /\ pass.current => pass.gw.checksum = gw.checksum

\* The ConfigMap a pass found or published is there while the pass needs it.
FoundInv ==
  /\ pass.at = "decide" => pass.name = NoConfig
  /\ pass.at = "record" => cm[pass.want] = "ours"
  /\ pass.at \in {"confirm", "deploy", "collect", "delete"} /\ pass.name # NoConfig => cm[pass.name] = "ours"
  /\ pass.at \in {"collect", "delete"} => pass.name # NoConfig
  /\ pass.at = "delete" => pass.name \notin pass.victims

\* Every copy of the gateway names the checksum of the stored one.
Unmoved ==
  /\ pass.at # "idle" => pass.gw.checksum = gw.checksum
  /\ gwCache.checksum = gw.checksum
  /\ \A i \in 1 .. Len(gwEvents) : gwEvents[i].checksum = gw.checksum

\* A pass does not delete the applied config's ConfigMap, which is missing only
\* before the first record.
SparedInv ==
  /\ pass.at = "delete" => gw.checksum \notin pass.victims
  /\ gw.checksum \in Checksums => cm[gw.checksum] = "ours" \/ Unmoved

\* The informer's queue ends with the stored version.
LEMMA StoredComesLast ==
  ASSUME TypeOK, NEW g \in Gateway, StoreGateway(g)
  PROVE  /\ gwEvents' # <<>> /\ gwEvents'[Len(gwEvents')] = gw' /\ gw' = g
  BY DEF StoreGateway, TypeOK

\* A step that stores nothing, and one that stores the copy of the pass.
LEMMA StatusFrame ==
  ASSUME StatusInv, UNCHANGED <<gw, gwCache, gwEvents>>,
         pass'.current => pass.current /\ pass'.gw.checksum = pass.gw.checksum
  PROVE  StatusInv'
  BY DEF StatusInv

LEMMA StatusStored ==
  ASSUME TypeOK, NEW g \in Gateway, StoreGateway(g), pass'.current => pass'.gw.checksum = g.checksum
  PROVE  StatusInv'
  BY StoredComesLast DEF StatusInv

\* The steps of a pass between its read and its status write, but for
\* recordApplied, store nothing and keep the checksum of its copy.
LEMMA CopyKept ==
  ASSUME TypeInv,
         \/ ValidatorUnavailable \/ Reject \/ ServeApplied \/ Publish \/ KeepApplied
         \/ HoldForConfigMap \/ HoldForOthers \/ Deploy \/ DeployFailed
         \/ CollectConfigMaps \/ Collected \/ \E n \in Names : DeleteConfigMap(n)
  PROVE  /\ pass.at # "idle" /\ pass'.current = pass.current /\ pass'.gw.checksum = pass.gw.checksum
         /\ UNCHANGED <<gw, gwCache, gwEvents>>
  <1>0. pass \in Pass /\ pass.gw \in Gateway
    BY DEF TypeInv, TypeOK, Pass
  <1>1. pass.at # "idle" /\ UNCHANGED <<gw, gwCache, gwEvents>>
    BY DEF ValidatorUnavailable, Reject, ServeApplied, Publish, KeepApplied, HoldForConfigMap, HoldForOthers, Deploy,
           DeployReady, DeployFailed, CollectConfigMaps, Collected, DeleteConfigMap
  <1>2. CASE ValidatorUnavailable \/ Reject \/ ServeApplied \/ Publish
    <2>1. pass'.current = pass.current /\ pass'.gw.checksum = pass.gw.checksum
      <3>1. /\ pass'.current = pass.current
            /\ \/ pass'.gw = pass.gw
               \/ \E v : pass'.gw = [pass.gw EXCEPT !.valid = v]
               \/ \E v : pass'.gw = [pass.gw EXCEPT !.edition = pass.edition, !.valid = v]
        <4>1. CASE ValidatorUnavailable \/ Reject
          <5>1. CASE pass' = [pass EXCEPT !.at = "keep", !.gw.valid = "Unknown", !.failed = TRUE]
            BY <1>0, <5>1 DEF Pass
          <5>2. CASE pass' = [pass EXCEPT !.at = "keep", !.gw.valid = "False"]
            BY <1>0, <5>2 DEF Pass
          <5> QED
            BY <4>1, <5>1, <5>2 DEF ValidatorUnavailable, Reject
        <4>2. CASE Publish
          <5>1. CASE pass' = [pass EXCEPT !.at = "record"]
            BY <1>0, <5>1 DEF Pass
          <5>2. CASE pass' = [pass EXCEPT !.at = "keep", !.gw.valid = "Unknown", !.failed = TRUE]
            BY <1>0, <5>2 DEF Pass
          <5> QED
            BY <4>2, <5>1, <5>2 DEF Publish
        <4>3. CASE ServeApplied
          <5>1. CASE pass' = [pass EXCEPT !.at = "confirm", !.served = TRUE, !.name = pass.want,
                                          !.gw.edition = pass.edition, !.gw.valid = "True"]
            BY <1>0, <5>1 DEF Pass
          <5>2. CASE pass' = [pass EXCEPT !.at = "confirm", !.served = TRUE, !.failed = TRUE,
                                          !.gw.edition = pass.edition, !.gw.valid = "Unknown"]
            BY <1>0, <5>2 DEF Pass
          <5> QED
            BY <4>3, <5>1, <5>2 DEF ServeApplied
        <4> QED
          BY <1>2, <4>1, <4>2, <4>3
      <3> QED
        BY <1>0, <3>1 DEF Gateway
    <2> QED
      BY <1>1, <2>1
  <1>3. CASE KeepApplied \/ HoldForConfigMap \/ HoldForOthers \/ Deploy \/ DeployFailed
             \/ CollectConfigMaps \/ Collected \/ \E n \in Names : DeleteConfigMap(n)
    <2>1. pass'.current = pass.current /\ pass'.gw.checksum = pass.gw.checksum
      <3>1. CASE KeepApplied
        BY <1>0, <3>1 DEF KeepApplied, Pass
      <3>2. CASE HoldForConfigMap \/ HoldForOthers \/ DeployFailed \/ Collected
        BY <1>0, <3>2 DEF HoldForConfigMap, HoldForOthers, DeployFailed, Collected, Pass
      <3>3. CASE Deploy
        <4>1. pass' = [pass EXCEPT !.at = "collect", !.gw.active = WantedTemplate.image, !.deployed = NoDeployment]
          BY <3>3 DEF Deploy
        <4> QED
          BY <1>0, <4>1 DEF Pass, Gateway
      <3>4. CASE CollectConfigMaps
        BY <1>0, <3>4 DEF CollectConfigMaps, Pass
      <3>5. CASE \E n \in Names : DeleteConfigMap(n)
        BY <1>0, <3>5 DEF DeleteConfigMap, Pass
      <3> QED
        BY <1>3, <3>1, <3>2, <3>3, <3>4, <3>5
    <2> QED
      BY <1>1, <2>1
  <1> QED
    BY <1>2, <1>3

LEMMA StatusNext ==
  ASSUME TypeInv, StatusInv, [Next]_vars
  PROVE  StatusInv'
  <1>0. TypeOK /\ TypeOK' /\ pass \in Pass /\ pass' \in Pass /\ pass.gw \in Gateway /\ gw \in Gateway
    BY TypeInvNext DEF TypeInv, TypeOK, Pass
  <1>i. IdlePass.current = FALSE
    BY DEF IdlePass
  <1>a. Applied \in Gateway
    BY <1>0, AppliedTyped
  <1>1. CASE Read
    <2> DEFINE e    == EditionFor(gwCache.spec, env.fallback)
               copy == IF gwCache.checksum # NoConfig
                         THEN [gwCache EXCEPT !.edition = AppliedKey(gwCache, e)[2]]
                         ELSE gwCache
    <2>2. gwCache \in Gateway
      BY <1>0 DEF TypeOK
    <2>3. copy.checksum = gwCache.checksum
      BY <2>2 DEF Gateway
    <2>4. pass'.gw = copy /\ pass'.current = (gwEvents = <<>>)
      BY <1>1 DEF Read, IdlePass
    <2>1. pass'.gw.checksum = gwCache.checksum /\ pass'.current = (gwEvents = <<>>)
      BY <2>3, <2>4
    <2> QED
      BY <1>1, <2>1 DEF Read, StatusInv
  <1>2. CASE ReadFailed
    BY <1>2, StatusFrame DEF ReadFailed
  <1>3. CASE ValidatorUnavailable \/ Reject \/ ServeApplied \/ Publish
    BY <1>3, CopyKept, StatusFrame
  <1>4. CASE RecordApplied
    <2>1. pass'.gw = Applied
      BY <1>0, <1>4 DEF RecordApplied, Pass
    <2> QED
      BY <1>0, <1>4, <1>a, <2>1, StatusStored DEF RecordApplied
  <1>5. CASE RecordFailed
    <2>1. CASE pass' = [pass EXCEPT !.at = "keep", !.failed = TRUE] /\ UNCHANGED <<gw, gwEvents>>
      <3>1. pass'.current = pass.current /\ pass'.gw = pass.gw
        BY <1>0, <2>1 DEF Pass
      <3> QED
        BY <1>5, <2>1, <3>1, StatusFrame DEF RecordFailed
    <2>2. CASE pass' = [pass EXCEPT !.at = "keep", !.failed = TRUE, !.current = FALSE] /\ StoreGateway(Applied)
      <3>1. pass'.current = FALSE
        BY <1>0, <2>2 DEF Pass
      <3> QED
        BY <1>0, <1>a, <2>2, <3>1, StatusStored
    <2> QED
      BY <1>5, <2>1, <2>2 DEF RecordFailed
  <1>6. CASE KeepApplied \/ HoldForConfigMap \/ HoldForOthers \/ Deploy \/ DeployFailed
             \/ CollectConfigMaps \/ Collected \/ \E n \in Names : DeleteConfigMap(n)
    BY <1>6, CopyKept, StatusFrame
  <1>7. CASE ConfirmStoredConfig
    <2>1. UNCHANGED <<gw, gwCache, gwEvents>> /\ (pass' = IdlePass \/ pass' = [pass EXCEPT !.at = "deploy"])
      BY <1>7 DEF ConfirmStoredConfig, EndPass
    <2>2. pass'.current => pass.current /\ pass'.gw = pass.gw
      BY <1>0, <1>i, <2>1 DEF Pass
    <2> QED
      BY <2>1, <2>2, StatusFrame
  <1>8. CASE Finish
    <2>1. pass' = IdlePass /\ UNCHANGED gwCache /\ (UNCHANGED <<gw, gwEvents>> \/ StoreGateway(pass.gw))
      BY <1>8 DEF Finish, EndPass
    <2>2. CASE UNCHANGED <<gw, gwEvents>>
      BY <1>i, <2>1, <2>2, StatusFrame
    <2>3. CASE StoreGateway(pass.gw)
      BY <1>0, <1>i, <2>1, <2>3, StatusStored
    <2> QED
      BY <2>1, <2>2, <2>3
  <1>9. CASE Crash
    BY <1>9, <1>i, StatusFrame DEF Crash
  <1>10. CASE DeliverGateway
    <2>1. gwEvents \in Seq(Gateway) /\ gwEvents # <<>> /\ gwEvents' = Tail(gwEvents) /\ gwCache' = Head(gwEvents)
      BY <1>0, <1>10 DEF DeliverGateway, TypeOK
    <2>2. UNCHANGED <<gw, pass>> /\ gwEvents[Len(gwEvents)] = gw
      BY <1>10, <2>1 DEF DeliverGateway, StatusInv
    <2>3. CASE Len(gwEvents) = 1
      <3>1. gwEvents' = <<>> /\ gwCache' = gw
        BY <2>1, <2>2, <2>3
      <3> QED
        BY <2>2, <3>1 DEF StatusInv
    <2>4. CASE Len(gwEvents) > 1
      <3>2. Len(gwEvents) \in Nat /\ Len(gwEvents') = Len(gwEvents) - 1
        BY <2>1, <2>4
      <3>3. \A k \in 1 .. Len(gwEvents) - 1 : gwEvents'[k] = gwEvents[k + 1]
        BY <2>1
      <3>4. gwEvents'[Len(gwEvents) - 1] = gwEvents[Len(gwEvents)]
        BY <2>4, <3>2, <3>3
      <3>5. gwEvents' # <<>>
        BY <2>4, <3>2
      <3>1. gwEvents' # <<>> /\ gwEvents'[Len(gwEvents')] = gwEvents[Len(gwEvents)]
        BY <3>2, <3>4, <3>5
      <3> QED
        BY <2>2, <3>1 DEF StatusInv
    <2> QED
      BY <2>1, <2>3, <2>4
  <1>11. CASE DeliverDeployment \/ (\E i \in Inputs : ChangeInput(i)) \/ ChangeLicense \/ ChangeHold
              \/ StartReplicaSet \/ (\E n \in Names : RetireReplicaSet(n)) \/ MeddleDeployment
    BY <1>11, StatusFrame
    DEF DeliverDeployment, ChangeInput, ChangeLicense, ChangeHold, StartReplicaSet, RetireReplicaSet, MeddleDeployment
  <1>12. CASE ChangeSpec
    <2>1. [gw EXCEPT !.spec = IF @ = "CE" THEN "EE" ELSE "CE"] \in Gateway
      BY <1>0 DEF Gateway, Editions
    <2>2. pass'.current = FALSE
      BY <1>0, <1>12 DEF ChangeSpec, Pass
    <2> QED
      BY <1>0, <1>12, <2>1, <2>2, StatusStored DEF ChangeSpec
  <1>13. ASSUME NEW c \in Checksums, NEW t \in ConfigMapStates, MeddleConfigMap(c, t) PROVE StatusInv'
    <2>1. pass'.current = pass.current /\ pass'.gw = pass.gw
      BY <1>0, <1>13 DEF MeddleConfigMap, Pass
    <2> QED
      BY <1>13, <2>1, StatusFrame DEF MeddleConfigMap
  <1>14. CASE UNCHANGED vars
    BY <1>14, StatusFrame DEF vars
  <1> QED
    BY <1>1, <1>2, <1>3, <1>4, <1>5, <1>6, <1>7, <1>8, <1>9, <1>10, <1>11, <1>12, <1>13, <1>14
    DEF Next, PassStep, EnvStep

\* A step that takes no ConfigMap away and stores no checksum, or one whose
\* ConfigMap is there.
LEMMA AppliedKept ==
  ASSUME AppliedConfigRetrievable, OursKept, legacy' = legacy, gw.checksum \in Checksums \cup {NoConfig},
         \/ gw'.checksum = gw.checksum
         \/ gw'.checksum \in Checksums /\ cm[gw'.checksum] = "ours"
  PROVE  AppliedConfigRetrievable'
  <1>1. gw.checksum \in Checksums => gw.checksum # LegacyName
    BY ConfigAssumption
  <1>2. CASE gw'.checksum = gw.checksum
    <2>1. CASE gw.checksum \in Checksums
      BY <1>1, <1>2, <2>1 DEF AppliedConfigRetrievable, Holds, OursKept
    <2> QED
      BY <1>2, <2>1 DEF AppliedConfigRetrievable
  <1>3. CASE gw'.checksum \in Checksums /\ cm[gw'.checksum] = "ours"
    <2>1. cm'[gw'.checksum] = "ours" /\ gw'.checksum # LegacyName
      BY <1>3, ConfigAssumption DEF OursKept
    <2> QED
      BY <2>1 DEF AppliedConfigRetrievable, Holds
  <1> QED
    BY <1>2, <1>3

\* A step that keeps the pass where it is, or takes it where it needs no
\* ConfigMap yet.
LEMMA FoundFrame ==
  ASSUME pass \in Pass, FoundInv, OursKept,
         \/ pass'.at \in {"idle", "keep", "finish"}
         \/ /\ pass'.at = pass.at /\ pass'.want = pass.want /\ pass'.name = pass.name
            /\ pass'.victims = pass.victims
  PROVE  FoundInv'
  <1>1. CASE pass'.at \in {"idle", "keep", "finish"}
    BY <1>1 DEF FoundInv
  <1>2. CASE /\ pass'.at = pass.at /\ pass'.want = pass.want /\ pass'.name = pass.name
             /\ pass'.victims = pass.victims
    <2>1. pass.at = "record" => cm'[pass.want] = "ours"
      BY DEF FoundInv, OursKept, Pass
    <2>2. pass.at \in {"confirm", "deploy", "collect", "delete"} /\ pass.name # NoConfig => cm'[pass.name] = "ours"
      BY DEF FoundInv, OursKept, Pass
    <2> QED
      BY <1>2, <2>1, <2>2 DEF FoundInv
  <1> QED
    BY <1>1, <1>2

\* A pass that has found or created the ConfigMap it goes on with, or none.
LEMMA FoundConfirm ==
  ASSUME pass'.at = "confirm", pass'.name # NoConfig => cm'[pass'.name] = "ours"
  PROVE  FoundInv'
  BY DEF FoundInv

RetrieveInv == AppliedConfigRetrievable /\ FoundInv

\* While nobody else touches them, the gateway's ConfigMaps stay until a pass
\* deletes them.
LEMMA OursStay ==
  ASSUME OnlyOperator, TypeInv, [Next]_vars
  PROVE  OursKept \/ \E n \in Names : DeleteConfigMap(n)
  <1>0. TypeOK /\ pass \in Pass /\ pass.want \in Checksums /\ pass.gw.checksum \in Checksums \cup {NoConfig}
    BY DEF TypeInv, TypeOK, Pass, Gateway
  <1>1. UNCHANGED cm => OursKept
    BY DEF OursKept
  <1>2. CASE ServeApplied \/ Publish
    BY <1>0, <1>2, PublishKeepsOurs DEF ServeApplied, Publish
  <1>3. CASE KeepApplied
    <2> DEFINE c == pass.gw.checksum
    <2>1. UNCHANGED cm \/ (c \in Checksums /\ \E t : (cm[c] # "ours" \/ t = "ours") /\ cm' = [cm EXCEPT ![c] = t])
      <3>1. CASE c # NoConfig /\ \E t \in PublishLeaves(cm[c]) : StoreConfigMap(c, t)
        <4>1. PublishLeaves("ours") = {"ours"}
          BY DEF PublishLeaves
        <4> QED
          BY <1>0, <3>1, <4>1 DEF StoreConfigMap
      <3>2. CASE c # NoConfig /\ cm[c] # "ours" /\ \E t : StoreConfigMap(c, t)
        BY <1>0, <3>2 DEF StoreConfigMap
      <3> QED
        BY <1>3, <3>1, <3>2 DEF KeepApplied
    <2> QED
      BY <1>0, <1>1, <2>1 DEF OursKept, TypeOK
  <1>4. CASE \/ Read \/ ReadFailed \/ ValidatorUnavailable \/ Reject \/ RecordApplied \/ RecordFailed
             \/ ConfirmStoredConfig \/ HoldForConfigMap \/ HoldForOthers \/ Deploy \/ DeployFailed
             \/ CollectConfigMaps \/ Collected \/ Finish \/ Crash
    BY <1>1, <1>4 DEF Read, ReadFailed, ValidatorUnavailable, Reject, RecordApplied, RecordFailed, ConfirmStoredConfig,
      HoldForConfigMap, HoldForOthers, Deploy, DeployFailed, CollectConfigMaps, Collected, Finish, Crash, children
  <1>5. CASE DeliverGateway \/ DeliverDeployment \/ (\E i \in Inputs : ChangeInput(i)) \/ ChangeLicense \/ ChangeHold
             \/ StartReplicaSet \/ (\E n \in Names : RetireReplicaSet(n)) \/ MeddleDeployment \/ ChangeSpec
    BY <1>1, <1>5 DEF DeliverGateway, DeliverDeployment, ChangeInput, ChangeLicense, ChangeHold, StartReplicaSet,
      RetireReplicaSet, MeddleDeployment, ChangeSpec, children
  <1>6. CASE \E c \in Checksums, t \in ConfigMapStates : MeddleConfigMap(c, t)
    BY <1>6 DEF MeddleConfigMap, OnlyOperator
  <1>7. CASE UNCHANGED vars
    BY <1>1, <1>7 DEF vars, children
  <1> QED
    BY <1>2, <1>3, <1>4, <1>5, <1>6, <1>7 DEF Next, PassStep, EnvStep

\* The stored checksum moves only to what a pass has published.
LEMMA ChecksumMoves ==
  ASSUME TypeInv, StatusInv, [Next]_vars
  PROVE  \/ gw'.checksum = gw.checksum
         \/ pass.at = "record" /\ gw'.checksum = pass.want /\ UNCHANGED cm /\ pass'.at # "delete"
  <1>0. TypeOK /\ pass \in Pass /\ gw \in Gateway
    BY DEF TypeInv, TypeOK
  <1>1. CASE RecordApplied \/ RecordFailed
    <2>1. pass.at = "record" /\ UNCHANGED cm /\ (gw' = gw \/ gw' = Applied)
      BY <1>1 DEF RecordApplied, RecordFailed, StoreGateway, children
    <2>2. pass'.at \in {"keep", "confirm"}
      BY <1>0, <1>1 DEF RecordApplied, RecordFailed, Pass
    <2> QED
      BY <1>0, <2>1, <2>2, AppliedTyped
  <1>2. CASE Finish
    <2>1. gw' = gw \/ (pass.current /\ gw' = pass.gw)
      BY <1>2 DEF Finish, StoreGateway
    <2> QED
      BY <2>1 DEF StatusInv
  <1>3. CASE ChangeSpec
    BY <1>0, <1>3 DEF ChangeSpec, StoreGateway, Gateway
  <1>4. CASE \/ ValidatorUnavailable \/ Reject \/ ServeApplied \/ Publish \/ KeepApplied
             \/ HoldForConfigMap \/ HoldForOthers \/ Deploy \/ DeployFailed
             \/ CollectConfigMaps \/ Collected \/ \E n \in Names : DeleteConfigMap(n)
    BY <1>4, CopyKept
  <1>5. CASE \/ Read \/ ReadFailed \/ ConfirmStoredConfig \/ Crash \/ DeliverGateway \/ DeliverDeployment
             \/ (\E i \in Inputs : ChangeInput(i)) \/ ChangeLicense \/ ChangeHold \/ StartReplicaSet
             \/ (\E n \in Names : RetireReplicaSet(n)) \/ MeddleDeployment
             \/ \E c \in Checksums, t \in ConfigMapStates : MeddleConfigMap(c, t)
    BY <1>5 DEF Read, ReadFailed, ConfirmStoredConfig, Crash, DeliverGateway, DeliverDeployment, ChangeInput,
      ChangeLicense, ChangeHold, StartReplicaSet, RetireReplicaSet, MeddleDeployment, MeddleConfigMap
  <1>6. CASE UNCHANGED vars
    BY <1>6 DEF vars
  <1> QED
    BY <1>1, <1>2, <1>3, <1>4, <1>5, <1>6 DEF Next, PassStep, EnvStep

\* A stored version with the checksum of all the others.
LEMMA UnmovedStored ==
  ASSUME TypeOK, Unmoved, NEW g \in Gateway, StoreGateway(g), g.checksum = gw.checksum, UNCHANGED gwCache,
         pass'.at = "idle" \/ (pass.at # "idle" /\ pass'.gw.checksum = pass.gw.checksum)
  PROVE  Unmoved'
  <1>1. gwEvents \in Seq(Gateway) /\ gwEvents' = Append(gwEvents, g) /\ gw' = g
    BY DEF TypeOK, StoreGateway
  <1>2. Len(gwEvents) \in Nat /\ Len(gwEvents') = Len(gwEvents) + 1
    BY <1>1
  <1>3. ASSUME NEW i \in 1 .. Len(gwEvents') PROVE gwEvents'[i].checksum = gw.checksum
    <2>1. CASE i = Len(gwEvents) + 1
      BY <1>1, <1>2, <2>1
    <2>2. CASE i # Len(gwEvents) + 1
      <3>1. i \in 1 .. Len(gwEvents)
        BY <1>2, <2>2
      <3>2. gwEvents'[i] = gwEvents[i]
        BY <1>1, <1>2, <3>1
      <3> QED
        BY <3>1, <3>2 DEF Unmoved
    <2> QED
      BY <2>1, <2>2
  <1> QED
    BY <1>1, <1>3 DEF Unmoved

\* While no checksum is recorded every copy keeps naming the stored one.
LEMMA UnmovedNext ==
  ASSUME TypeInv, StatusInv, Unmoved, [Next]_vars, gw'.checksum = gw.checksum
  PROVE  Unmoved' \/ (pass.at = "record" /\ gw'.checksum = pass.want)
  <1>0. TypeOK /\ TypeOK' /\ pass \in Pass /\ pass' \in Pass /\ pass.gw \in Gateway /\ gw \in Gateway
    BY TypeInvNext DEF TypeInv, TypeOK, Pass
  <1>i. IdlePass.at = "idle"
    BY DEF IdlePass
  <1>1. CASE Read
    <2>1. gwCache \in Gateway
      BY <1>0 DEF TypeOK
    <2>2. pass'.gw.checksum = gwCache.checksum
      BY <1>0, <1>1, <2>1 DEF Read, IdlePass, Pass, Gateway
    <2> QED
      BY <1>1, <2>2 DEF Read, Unmoved
  <1>2. CASE RecordApplied \/ RecordFailed
    <2>1. CASE StoreGateway(Applied)
      BY <1>0, <1>2, <2>1, AppliedTyped DEF RecordApplied, RecordFailed, StoreGateway
    <2>2. CASE pass' = [pass EXCEPT !.at = "keep", !.failed = TRUE] /\ UNCHANGED <<gw, gwEvents>>
      <3>1. pass.at # "idle" /\ pass'.gw = pass.gw /\ UNCHANGED gwCache
        BY <1>0, <1>2, <2>2 DEF RecordApplied, RecordFailed, Pass
      <3> QED
        BY <2>2, <3>1 DEF Unmoved
    <2> QED
      BY <1>2, <2>1, <2>2 DEF RecordApplied, RecordFailed
  <1>3. CASE ConfirmStoredConfig \/ Crash
    <2>1. /\ UNCHANGED <<gw, gwCache, gwEvents>> /\ pass.at # "idle"
          /\ pass' = IdlePass \/ pass' = [pass EXCEPT !.at = "deploy"]
      BY <1>3 DEF ConfirmStoredConfig, Crash, EndPass
    <2>2. pass'.at = "idle" \/ pass'.gw = pass.gw
      BY <1>0, <1>i, <2>1 DEF Pass
    <2> QED
      BY <2>1, <2>2 DEF Unmoved
  <1>4. CASE Finish
    <2>1. /\ pass' = IdlePass /\ pass.at # "idle" /\ UNCHANGED gwCache
          /\ UNCHANGED <<gw, gwEvents>> \/ StoreGateway(pass.gw)
      BY <1>4 DEF Finish, EndPass
    <2>2. CASE UNCHANGED <<gw, gwEvents>>
      BY <1>i, <2>1, <2>2 DEF Unmoved
    <2>3. CASE StoreGateway(pass.gw)
      BY <1>0, <1>i, <2>1, <2>3, UnmovedStored DEF Unmoved
    <2> QED
      BY <2>1, <2>2, <2>3
  <1>5. CASE ChangeSpec
    <2> DEFINE g == [gw EXCEPT !.spec = IF @ = "CE" THEN "EE" ELSE "CE"]
    <2>1. g \in Gateway /\ g.checksum = gw.checksum
      BY <1>0 DEF Gateway, Editions
    <2>2. StoreGateway(g) /\ UNCHANGED gwCache /\ pass'.at = pass.at /\ pass'.gw = pass.gw
      BY <1>0, <1>5 DEF ChangeSpec, Pass
    <2> QED
      BY <1>0, <2>1, <2>2, UnmovedStored
  <1>6. CASE DeliverGateway
    <2>1. /\ gwEvents \in Seq(Gateway) /\ gwEvents # <<>> /\ gwEvents' = Tail(gwEvents) /\ gwCache' = Head(gwEvents)
          /\ UNCHANGED <<gw, pass>>
      BY <1>0, <1>6 DEF DeliverGateway, TypeOK
    <2>2. Len(gwEvents) \in Nat /\ Len(gwEvents) >= 1 /\ Len(gwEvents') = Len(gwEvents) - 1 /\ gwCache' = gwEvents[1]
      BY <2>1
    <2>3. ASSUME NEW i \in 1 .. Len(gwEvents') PROVE gwEvents'[i].checksum = gw.checksum
      <3>1. i + 1 \in 1 .. Len(gwEvents) /\ gwEvents'[i] = gwEvents[i + 1]
        BY <2>1, <2>2
      <3> QED
        BY <3>1 DEF Unmoved
    <2>4. gwCache'.checksum = gw.checksum
      BY <2>2 DEF Unmoved
    <2> QED
      BY <2>1, <2>3, <2>4 DEF Unmoved
  <1>7. CASE \/ ValidatorUnavailable \/ Reject \/ ServeApplied \/ Publish \/ KeepApplied
             \/ HoldForConfigMap \/ HoldForOthers \/ Deploy \/ DeployFailed
             \/ CollectConfigMaps \/ Collected \/ \E n \in Names : DeleteConfigMap(n)
    BY <1>7, CopyKept DEF Unmoved
  <1>8. CASE \/ ReadFailed \/ DeliverDeployment \/ (\E i \in Inputs : ChangeInput(i)) \/ ChangeLicense \/ ChangeHold
             \/ StartReplicaSet \/ (\E n \in Names : RetireReplicaSet(n)) \/ MeddleDeployment
             \/ \E c \in Checksums, t \in ConfigMapStates : MeddleConfigMap(c, t)
    <2>1. UNCHANGED <<gw, gwCache, gwEvents>> /\ pass'.at = pass.at /\ pass'.gw = pass.gw
      BY <1>0, <1>8 DEF ReadFailed, DeliverDeployment, ChangeInput, ChangeLicense, ChangeHold, StartReplicaSet,
        RetireReplicaSet, MeddleDeployment, MeddleConfigMap, Pass
    <2> QED
      BY <2>1 DEF Unmoved
  <1>9. CASE UNCHANGED vars
    BY <1>9 DEF vars, Unmoved
  <1> QED
    BY <1>1, <1>2, <1>3, <1>4, <1>5, <1>6, <1>7, <1>8, <1>9 DEF Next, PassStep, EnvStep

\* The applied config has its ConfigMap when a pass collects.
LEMMA CollectorSeesApplied ==
  ASSUME TypeInv, FoundInv, SparedInv, pass.at \in {"collect", "delete"}, gw.checksum \in Checksums
  PROVE  cm[gw.checksum] = "ours"
  <1>1. pass.name # NoConfig /\ cm[pass.name] = "ours" /\ pass.name = pass.gw.checksum
    BY DEF FoundInv, TypeInv, NameOfCopy
  <1> QED
    BY <1>1 DEF SparedInv, Unmoved

\* collectConfigMaps does not choose the applied config's ConfigMap.
LEMMA AppliedNotChosen ==
  ASSUME TypeInv, FoundInv, WithinHistory, pass.at = "collect"
  PROVE  gw.checksum \notin ConfigMapGCCandidates(pass.name, pass.deployed.mount) \ rs
  <1>1. pass.name # NoConfig /\ pass.name = pass.gw.checksum
    BY DEF FoundInv, TypeInv, NameOfCopy
  <1>2. gw.checksum \in Checksums \cup {NoConfig} /\ NoConfig \notin Names
    BY ConfigAssumption DEF TypeInv, TypeOK, Gateway
  <1>3. CASE gw.checksum = NoConfig
    BY <1>2, <1>3 DEF ConfigMapGCCandidates, Revisions, Names
  <1>4. CASE gw.checksum \in Checksums
    <2>1. gw.checksum # LegacyName
      BY <1>4, ConfigAssumption
    <2>2. CASE gw.checksum \in rs \cup {pass.gw.checksum, pass.deployed.mount}
      BY <1>1, <2>1, <2>2 DEF ConfigMapGCCandidates
    <2>3. CASE gw.checksum \notin rs \cup {pass.gw.checksum, pass.deployed.mount}
      <3>1. ~ Cardinality(newer[gw.checksum] \cap (Revisions \ {pass.name, pass.deployed.mount})) >= HistoryLimit - 1
        BY <1>4, <2>3 DEF WithinHistory
      <3> QED
        BY <2>1, <3>1 DEF ConfigMapGCCandidates
    <2> QED
      BY <2>2, <2>3
  <1> QED
    BY <1>2, <1>3, <1>4

\* Where a pass comes to its deletes from.
LEMMA VictimsChosen ==
  ASSUME TypeInv, [Next]_vars, pass'.at = "delete"
  PROVE  \/ /\ CollectConfigMaps
            /\ pass'.victims = ConfigMapGCCandidates(pass.name, pass.deployed.mount) \ rs
         \/ pass.at = "delete" /\ pass'.victims \subseteq pass.victims
  <1>0. pass \in Pass /\ IdlePass.at = "idle"
    BY DEF TypeInv, TypeOK, IdlePass
  <1>1. CASE Read
    BY <1>1 DEF Read, IdlePass
  <1>2. CASE ValidatorUnavailable \/ Reject \/ RecordApplied \/ RecordFailed \/ HoldForConfigMap \/ HoldForOthers
             \/ DeployFailed \/ Collected
    BY <1>0, <1>2 DEF ValidatorUnavailable, Reject, RecordApplied, RecordFailed, HoldForConfigMap, HoldForOthers,
      DeployFailed, Collected, Pass
  <1>3. CASE ServeApplied \/ Publish \/ KeepApplied \/ Deploy
    <2>1. pass'.at \in {"confirm", "record", "keep", "collect"}
      <3>1. CASE ServeApplied
        BY <1>0, <3>1 DEF ServeApplied, Pass
      <3>2. CASE Publish \/ KeepApplied \/ Deploy
        BY <1>0, <3>2 DEF Publish, KeepApplied, Deploy, Pass
      <3> QED
        BY <1>3, <3>1, <3>2
    <2> QED
      BY <2>1
  <1>4. CASE ConfirmStoredConfig \/ Finish \/ Crash
    <2>1. pass' = IdlePass \/ pass' = [pass EXCEPT !.at = "deploy"]
      BY <1>4 DEF ConfirmStoredConfig, Finish, Crash, EndPass
    <2> QED
      BY <1>0, <2>1 DEF Pass
  <1>5. CASE CollectConfigMaps
    <2>1. CASE pass' = [pass EXCEPT !.at = "finish", !.failed = TRUE]
      BY <1>0, <2>1 DEF Pass
    <2>2. CASE pass' = [pass EXCEPT !.at = "delete",
                          !.victims = ConfigMapGCCandidates(pass.name, pass.deployed.mount) \ rs]
      BY <1>0, <1>5, <2>2 DEF Pass
    <2> QED
      BY <1>5, <2>1, <2>2 DEF CollectConfigMaps
  <1>6. CASE \E n \in Names : DeleteConfigMap(n)
    BY <1>0, <1>6 DEF DeleteConfigMap, Pass
  <1>7. CASE ChangeSpec \/ \E c \in Checksums, t \in ConfigMapStates : MeddleConfigMap(c, t)
    BY <1>0, <1>7 DEF ChangeSpec, MeddleConfigMap, Pass
  <1>8. CASE \/ ReadFailed \/ DeliverGateway \/ DeliverDeployment \/ (\E i \in Inputs : ChangeInput(i)) \/ ChangeLicense
             \/ ChangeHold \/ StartReplicaSet \/ (\E n \in Names : RetireReplicaSet(n)) \/ MeddleDeployment
             \/ UNCHANGED vars
    BY <1>8 DEF ReadFailed, DeliverGateway, DeliverDeployment, ChangeInput, ChangeLicense, ChangeHold, StartReplicaSet,
      RetireReplicaSet, MeddleDeployment, vars
  <1> QED
    BY <1>1, <1>2, <1>3, <1>4, <1>5, <1>6, <1>7, <1>8 DEF Next, PassStep, EnvStep

LEMMA SparedNext ==
  ASSUME OnlyOperator, WithinHistory, TypeInv, StatusInv, FoundInv, SparedInv, [Next]_vars
  PROVE  SparedInv'
  <1>0. TypeOK /\ pass \in Pass /\ pass.want \in Checksums
    BY DEF TypeInv, TypeOK, Pass
  <1>1. CASE pass.at = "record" /\ gw'.checksum = pass.want /\ UNCHANGED cm /\ pass'.at # "delete"
    BY <1>1 DEF SparedInv, FoundInv
  <1>2. CASE gw'.checksum = gw.checksum
    <2>1. ASSUME pass'.at = "delete" PROVE gw'.checksum \notin pass'.victims
      <3>1. CASE pass.at = "delete" /\ pass'.victims \subseteq pass.victims
        BY <1>2, <3>1 DEF SparedInv
      <3>2. CASE CollectConfigMaps /\ pass'.victims = ConfigMapGCCandidates(pass.name, pass.deployed.mount) \ rs
        BY <1>2, <3>2, AppliedNotChosen DEF CollectConfigMaps
      <3> QED
        BY <2>1, <3>1, <3>2, VictimsChosen
    <2>2. ASSUME gw'.checksum \in Checksums PROVE cm'[gw'.checksum] = "ours" \/ Unmoved'
      <3>1. CASE Unmoved /\ OursKept
        <4>1. CASE pass.at = "record" /\ gw'.checksum = pass.want
          BY <1>0, <3>1, <4>1 DEF FoundInv, OursKept
        <4> QED
          BY <1>2, <3>1, <4>1, UnmovedNext
      <3>2. CASE cm[gw.checksum] = "ours" /\ OursKept
        BY <1>2, <2>2, <3>2 DEF OursKept
      <3>3. ASSUME NEW n \in Names, DeleteConfigMap(n) PROVE cm'[gw'.checksum] = "ours"
        <4>1. cm[gw.checksum] = "ours" /\ gw.checksum # n
          BY <1>2, <2>2, <3>3, CollectorSeesApplied DEF DeleteConfigMap, SparedInv
        <4> QED
          BY <1>0, <1>2, <2>2, <3>3, <4>1 DEF DeleteConfigMap, StoreConfigMap, TypeOK, Names
      <3> QED
        BY <1>2, <2>2, <3>1, <3>2, <3>3, OursStay DEF SparedInv
    <2> QED
      BY <2>1, <2>2 DEF SparedInv
  <1> QED
    BY <1>1, <1>2, ChecksumMoves

LEMMA RetrieveNext ==
  ASSUME OnlyOperator, TypeInv, StatusInv, SparedInv, RetrieveInv, [Next]_vars
  PROVE  RetrieveInv'
  <1>0. TypeOK /\ NameOfCopy /\ TypeOK'
    BY TypeInvNext DEF TypeInv
  <1>p. pass \in Pass /\ pass' \in Pass /\ IdlePass.at = "idle" /\ gw.checksum \in Checksums \cup {NoConfig}
    BY <1>0, IdleTyped DEF TypeOK, Gateway
  <1>s. UNCHANGED cm => OursKept
    BY DEF OursKept
  <1>f. AppliedConfigRetrievable /\ FoundInv
    BY DEF RetrieveInv
  <1>q. SUFFICES AppliedConfigRetrievable' /\ FoundInv'
    BY DEF RetrieveInv
  <1>k. OursKept /\ UNCHANGED <<gw, legacy>> => AppliedConfigRetrievable'
    BY <1>f, <1>p, AppliedKept
  <1>1. CASE Read
    <2>1. pass'.at = "decide" /\ pass'.name = NoConfig
      BY <1>1 DEF Read, IdlePass
    <2>2. FoundInv'
      BY <2>1 DEF FoundInv
    <2> QED
      BY <1>1, <1>k, <1>s, <2>2 DEF Read, children
  <1>2. CASE ReadFailed
    BY <1>2, <1>f, <1>k, <1>p, <1>s, FoundFrame DEF ReadFailed, children
  <1>3. CASE ValidatorUnavailable \/ Reject
    <2>1. pass'.at = "keep"
      BY <1>3, <1>p DEF ValidatorUnavailable, Reject, Pass
    <2> QED
      BY <1>3, <1>f, <1>k, <1>p, <1>s, <2>1, FoundFrame DEF ValidatorUnavailable, Reject, children
  <1>4. CASE ServeApplied
    <2>1. pass.want \in Checksums /\ UNCHANGED <<gw, legacy>> /\ pass.at = "decide"
      BY <1>4, <1>p DEF ServeApplied, Pass
    <2>2. CASE PublishConfig(pass.want) /\
               pass' = [pass EXCEPT !.at = "confirm", !.served = TRUE, !.name = pass.want,
                                    !.gw.edition = pass.edition, !.gw.valid = "True"]
      <3>1. pass'.at = "confirm" /\ pass'.name = pass.want
        BY <1>p, <2>2 DEF Pass, Gateway
      <3> QED
        BY <1>0, <1>k, <2>1, <2>2, <3>1, PublishKeepsOurs, FoundConfirm
    <2>3. CASE PublishConfigFailed(pass.want) /\
               pass' = [pass EXCEPT !.at = "confirm", !.served = TRUE, !.failed = TRUE,
                                    !.gw.edition = pass.edition, !.gw.valid = "Unknown"]
      <3>1. pass'.at = "confirm" /\ pass'.name = pass.name
        BY <1>p, <2>3 DEF Pass, Gateway
      <3>2. pass.name = NoConfig
        BY <1>f, <2>1 DEF FoundInv
      <3> QED
        BY <1>0, <1>k, <2>1, <2>3, <3>1, <3>2, PublishKeepsOurs, FoundConfirm
    <2> QED
      BY <1>4, <2>2, <2>3 DEF ServeApplied
  <1>5. CASE Publish
    <2>1. pass.want \in Checksums /\ UNCHANGED <<gw, legacy>>
      BY <1>5, <1>p DEF Publish, Pass
    <2>2. CASE PublishConfig(pass.want) /\ pass' = [pass EXCEPT !.at = "record"]
      <3>1. pass'.at = "record" /\ pass'.want = pass.want
        BY <1>p, <2>2 DEF Pass
      <3>2. OursKept /\ cm'[pass.want] = "ours"
        BY <1>0, <2>1, <2>2, PublishKeepsOurs
      <3>3. FoundInv'
        BY <3>1, <3>2 DEF FoundInv
      <3> QED
        BY <1>k, <2>1, <3>2, <3>3
    <2>3. CASE PublishConfigFailed(pass.want) /\
               pass' = [pass EXCEPT !.at = "keep", !.gw.valid = "Unknown", !.failed = TRUE]
      <3>1. pass'.at = "keep"
        BY <1>p, <2>3 DEF Pass
      <3> QED
        BY <1>0, <1>f, <1>k, <1>p, <2>1, <2>3, <3>1, PublishKeepsOurs, FoundFrame
    <2> QED
      BY <1>5, <2>2, <2>3 DEF Publish
  <1>6. CASE RecordApplied \/ RecordFailed
    <2>1. pass.want \in Checksums /\ cm[pass.want] = "ours" /\ UNCHANGED <<cm, legacy>>
      BY <1>6, <1>f, <1>p DEF RecordApplied, RecordFailed, FoundInv, Pass, children
    <2>2. gw' = gw \/ gw' = Applied
      BY <1>6 DEF RecordApplied, RecordFailed, StoreGateway
    <2>3. gw'.checksum = gw.checksum \/ gw'.checksum = pass.want
      BY <1>0, <2>2, AppliedTyped
    <2>4. AppliedConfigRetrievable'
      BY <1>f, <1>p, <1>s, <2>1, <2>3, AppliedKept
    <2>5. pass'.at = "keep" \/ (pass'.at = "confirm" /\ pass'.name = pass.want)
      BY <1>6, <1>p DEF RecordApplied, RecordFailed, Pass
    <2> QED
      BY <1>f, <1>p, <1>s, <2>1, <2>4, <2>5, FoundFrame, FoundConfirm
  <1>7. CASE KeepApplied
    <2> DEFINE c == pass.gw.checksum
               Done(name, failed) ==
                 pass' = [pass EXCEPT !.at = "confirm", !.name = name, !.failed = @ \/ failed]
    <2>1. c \in Checksums \cup {NoConfig} /\ NoConfig \notin Checksums /\ UNCHANGED <<gw, legacy>>
      BY <1>7, <1>p, ConfigAssumption DEF KeepApplied, Pass, Gateway, Names
    <2>2. ASSUME NEW name, NEW failed, Done(name, failed) PROVE pass'.at = "confirm" /\ pass'.name = name
      BY <2>2, <1>p DEF Pass
    <2>3. CASE (Done(NoConfig, FALSE) \/ Done(NoConfig, TRUE)) /\ UNCHANGED cm
      BY <1>k, <1>s, <2>1, <2>2, <2>3, FoundConfirm
    <2>4. CASE c # NoConfig /\ cm[c] = "ours" /\ Done(c, FALSE) /\ UNCHANGED cm
      <3>1. pass'.at = "confirm" /\ pass'.name = c
        BY <2>2, <2>4
      <3>2. cm'[c] = "ours"
        BY <2>4
      <3> QED
        BY <1>k, <1>s, <2>1, <2>4, <3>1, <3>2, FoundConfirm
    <2>5. CASE c # NoConfig /\ cm[c] \in {"absent", "tampered"} /\ StoreConfigMap(c, "ours") /\ Done(c, FALSE)
      <3>1. PublishConfig(c)
        BY <2>5 DEF PublishConfig
      <3> QED
        BY <1>0, <1>k, <2>1, <2>2, <2>5, <3>1, PublishKeepsOurs, FoundConfirm
    <2>6. CASE c # NoConfig /\ cm[c] \in {"absent", "tampered"} /\ StoreConfigMap(c, "absent") /\ Done(NoConfig, FALSE)
      <3>1. OursKept
        BY <1>0, <2>1, <2>6 DEF StoreConfigMap, OursKept, TypeOK
      <3> QED
        BY <1>k, <2>1, <2>2, <2>6, <3>1, FoundConfirm
    <2>7. CASE /\ c # NoConfig /\ Done(NoConfig, TRUE)
               /\ \E t \in PublishLeaves(cm[c]) : StoreConfigMap(c, t)
      <3>1. PublishLeaves("ours") = {"ours"}
        BY DEF PublishLeaves
      <3>2. PICK t \in PublishLeaves(cm[c]) : cm' = [cm EXCEPT ![c] = t]
        BY <2>7 DEF StoreConfigMap
      <3>3. OursKept
        BY <1>0, <2>1, <2>7, <3>1, <3>2 DEF OursKept, TypeOK
      <3> QED
        BY <1>k, <2>1, <2>2, <2>7, <3>3, FoundConfirm
    <2> QED
      BY <1>7, <2>3, <2>4, <2>5, <2>6, <2>7 DEF KeepApplied
  <1>8. CASE ConfirmStoredConfig
    <2>1. UNCHANGED <<gw, cm, legacy>> /\ pass.at = "confirm"
      BY <1>8 DEF ConfirmStoredConfig, children
    <2>2. CASE pass' = IdlePass
      BY <1>f, <1>k, <1>p, <1>s, <2>1, <2>2, FoundFrame
    <2>3. CASE pass' = [pass EXCEPT !.at = "deploy"]
      <3>1. pass'.at = "deploy" /\ pass'.name = pass.name
        BY <1>p, <2>3 DEF Pass
      <3>2. FoundInv'
        BY <1>f, <2>1, <3>1 DEF FoundInv
      <3> QED
        BY <1>k, <1>s, <2>1, <3>2
    <2> QED
      BY <1>8, <2>2, <2>3 DEF ConfirmStoredConfig, EndPass
  <1>9. CASE HoldForConfigMap \/ Collected \/ DeployFailed
    <2>1. pass'.at = "finish" /\ UNCHANGED <<gw, cm, legacy>>
      BY <1>9, <1>p DEF HoldForConfigMap, Collected, DeployFailed, Pass, children
    <2> QED
      BY <1>f, <1>k, <1>p, <1>s, <2>1, FoundFrame
  <1>10. CASE HoldForOthers \/ Deploy
    <2>1. pass'.at = "collect" /\ pass'.name = pass.name
      BY <1>10, <1>p DEF HoldForOthers, Deploy, Pass
    <2>2. pass.at = "deploy" /\ pass.name # NoConfig /\ UNCHANGED <<gw, cm, legacy>>
      BY <1>10 DEF HoldForOthers, Deploy, DeployReady, children
    <2>3. FoundInv'
      BY <1>f, <2>1, <2>2 DEF FoundInv
    <2> QED
      BY <1>k, <1>s, <2>2, <2>3
  <1>11. CASE CollectConfigMaps
    <2>1. UNCHANGED <<gw, cm, legacy>> /\ pass.at = "collect"
      BY <1>11 DEF CollectConfigMaps, children
    <2>2. CASE pass' = [pass EXCEPT !.at = "finish", !.failed = TRUE]
      <3>1. pass'.at = "finish"
        BY <2>2, <1>p DEF Pass
      <3> QED
        BY <1>f, <1>k, <1>p, <1>s, <2>1, <3>1, FoundFrame
    <2>3. CASE pass' = [pass EXCEPT !.at = "delete",
                          !.victims = ConfigMapGCCandidates(pass.name, pass.deployed.mount) \ rs]
      <3>1. /\ pass'.at = "delete" /\ pass'.name = pass.name
            /\ pass'.victims = ConfigMapGCCandidates(pass.name, pass.deployed.mount) \ rs
        BY <2>3, <1>p DEF Pass
      <3>2. pass.name \in Checksums /\ pass.name # LegacyName
        BY <1>f, <1>p, <2>1, ConfigAssumption DEF FoundInv, Pass
      <3>3. pass.name \notin ConfigMapGCCandidates(pass.name, pass.deployed.mount)
        BY <3>2 DEF ConfigMapGCCandidates, Revisions
      <3>4. FoundInv'
        BY <1>f, <2>1, <3>1, <3>3 DEF FoundInv
      <3> QED
        BY <1>k, <1>s, <2>1, <3>4
    <2> QED
      BY <1>11, <2>2, <2>3 DEF CollectConfigMaps
  <1>12. ASSUME NEW n \in Names, DeleteConfigMap(n) PROVE AppliedConfigRetrievable' /\ FoundInv'
    <2>1. gw' = gw /\ pass.at = "delete" /\ n \in pass.victims
      BY <1>12 DEF DeleteConfigMap
    <2>2. CASE /\ pass' = [pass EXCEPT !.at = "finish", !.failed = TRUE]
               /\ UNCHANGED <<cm, newer, legacy>>
      <3>1. pass'.at = "finish"
        BY <2>2, <1>p DEF Pass
      <3> QED
        BY <1>f, <1>k, <1>p, <1>s, <2>1, <2>2, <3>1, FoundFrame
    <2>3. CASE /\ IF n = LegacyName
                    THEN legacy' = NoConfig /\ UNCHANGED <<cm, newer>>
                    ELSE StoreConfigMap(n, "absent") /\ UNCHANGED legacy
               /\ pass' = [pass EXCEPT !.victims = @ \ {n}]
      <3>1. pass'.at = "delete" /\ pass'.name = pass.name /\ pass'.victims = pass.victims \ {n}
        BY <2>1, <2>3, <1>p DEF Pass
      <3>2. /\ pass.name \in Checksums /\ pass.name # LegacyName /\ cm[pass.name] = "ours"
            /\ pass.name # n /\ pass.name \notin pass.victims /\ pass.name # NoConfig
        BY <1>f, <1>p, <2>1, ConfigAssumption DEF FoundInv, Pass
      <3>3. cm'[pass.name] = "ours"
        BY <1>0, <2>3, <3>2 DEF StoreConfigMap, TypeOK, Names
      <3>4. ASSUME gw.checksum \in Checksums PROVE cm'[gw.checksum] = "ours" /\ gw.checksum # LegacyName
        <4>1. cm[gw.checksum] = "ours" /\ gw.checksum # n
          BY <1>f, <2>1, <3>4, CollectorSeesApplied DEF SparedInv
        <4> QED
          BY <1>0, <2>3, <3>4, <4>1, ConfigAssumption DEF StoreConfigMap, TypeOK, Names
      <3>5. AppliedConfigRetrievable'
        BY <1>p, <2>1, <3>4 DEF AppliedConfigRetrievable, Holds
      <3>6. FoundInv'
        BY <3>1, <3>2, <3>3 DEF FoundInv
      <3> QED
        BY <3>5, <3>6
    <2> QED
      BY <1>12, <2>2, <2>3 DEF DeleteConfigMap
  <1>13. CASE Finish
    <2>1. pass' = IdlePass /\ UNCHANGED <<cm, legacy>> /\ (gw' = gw \/ (pass.current /\ gw' = pass.gw))
      BY <1>13 DEF Finish, EndPass, StoreGateway, children
    <2>2. gw'.checksum = gw.checksum
      BY <2>1 DEF StatusInv
    <2> QED
      BY <1>f, <1>p, <1>s, <2>1, <2>2, AppliedKept, FoundFrame
  <1>14. CASE Crash
    BY <1>14, <1>f, <1>k, <1>p, <1>s, FoundFrame DEF Crash, children
  <1>15. CASE DeliverGateway \/ DeliverDeployment \/ (\E i \in Inputs : ChangeInput(i)) \/ ChangeLicense \/ ChangeHold
              \/ StartReplicaSet \/ (\E n \in Names : RetireReplicaSet(n)) \/ MeddleDeployment
    <2>1. UNCHANGED <<gw, cm, legacy, pass>>
      BY <1>15 DEF DeliverGateway, DeliverDeployment, ChangeInput, ChangeLicense, ChangeHold, StartReplicaSet,
                   RetireReplicaSet, MeddleDeployment, children
    <2> QED
      BY <1>f, <1>k, <1>p, <1>s, <2>1, FoundFrame
  <1>16. CASE ChangeSpec
    <2>1. /\ pass'.at = pass.at /\ pass'.want = pass.want
          /\ pass'.victims = pass.victims /\ pass'.name = pass.name
      BY <1>16, <1>p DEF ChangeSpec, Pass
    <2>2. gw'.checksum = gw.checksum
      BY <1>0, <1>16 DEF ChangeSpec, StoreGateway, TypeOK, Gateway
    <2>3. UNCHANGED <<cm, legacy>>
      BY <1>16 DEF ChangeSpec, children
    <2> QED
      BY <1>f, <1>p, <1>s, <2>1, <2>2, <2>3, AppliedKept, FoundFrame
  <1>17. CASE \E c \in Checksums, t \in ConfigMapStates : MeddleConfigMap(c, t)
    BY <1>17 DEF MeddleConfigMap, OnlyOperator
  <1>18. CASE UNCHANGED vars
    BY <1>18, <1>f, <1>k, <1>p, <1>s, FoundFrame DEF vars, children
  <1> QED
    BY <1>1, <1>2, <1>3, <1>4, <1>5, <1>6, <1>7, <1>8, <1>9, <1>10, <1>11, <1>12, <1>13, <1>14, <1>15, <1>16,
       <1>17, <1>18
    DEF Next, PassStep, EnvStep

LEMMA RetrieveInit ==
  ASSUME Init PROVE StatusInv /\ RetrieveInv /\ SparedInv
  <1>1. PICK spec \in Editions, i \in Inputs :
          /\ gw.checksum = IF Upgraded THEN Render[i][spec] ELSE NoConfig
          /\ gwCache = gw /\ gwEvents = <<>>
          /\ legacy = IF Upgraded THEN Render[i][spec] ELSE NoConfig
          /\ pass = IdlePass
    BY DEF Init
  <1>2. AppliedConfigRetrievable
    BY <1>1 DEF AppliedConfigRetrievable
  <1>3. pass.at = "idle" /\ pass.current = FALSE
    BY <1>1 DEF IdlePass
  <1>4. Unmoved
    BY <1>1, <1>3 DEF Unmoved
  <1> QED
    BY <1>1, <1>2, <1>3, <1>4 DEF StatusInv, RetrieveInv, FoundInv, SparedInv

\* appliedConfigMapName, collectConfigMaps: while nobody else touches the
\* ConfigMaps, and a pass that collects by an outdated checksum finds the applied
\* config mounted or within the history, the config the stored status names has
\* its ConfigMap or is in the legacy one, on new and upgraded gateways, for a
\* history of any length, whatever calls fail and wherever the operator stops.
THEOREM AppliedIsNotLost == OnlyOperator => (Spec /\ []WithinHistory => []AppliedConfigRetrievable)
  <1> SUFFICES ASSUME OnlyOperator PROVE Spec /\ []WithinHistory => []AppliedConfigRetrievable
    OBVIOUS
  <1> DEFINE I == TypeInv /\ StatusInv /\ SparedInv /\ RetrieveInv
  <1>1. Init => I
    BY TypeInvInit, RetrieveInit
  <1>2. I /\ WithinHistory /\ [Next]_vars => I'
    BY TypeInvNext, StatusNext, SparedNext, RetrieveNext DEF RetrieveInv
  <1>3. I => AppliedConfigRetrievable
    BY DEF RetrieveInv
  <1> QED
    BY <1>1, <1>2, <1>3, PTL DEF Spec

-----------------------------------------------------------------------------
(* A gateway that never had more configs than the history keeps.           *)

\* As many revisions as there are configs, at most.
FewRevisions == IsFiniteSet(Checksums) /\ Cardinality(Checksums) <= HistoryLimit

\* No ConfigMap is newer than itself.
OrderInv == \A c \in Checksums : c \notin newer[c]

LEMMA OrderNext ==
  ASSUME TypeOK, OrderInv, [Next]_vars
  PROVE  OrderInv'
  <1>1. ASSUME NEW c \in Checksums, NEW t, StoreConfigMap(c, t) PROVE OrderInv'
    <2>1. newer' \in {newer, Created(c), Deleted(c)}
      BY <1>1 DEF StoreConfigMap
    <2> QED
      BY <2>1 DEF OrderInv, Created, Deleted
  <1>2. CASE UNCHANGED newer
    BY <1>2 DEF OrderInv
  <1>3. pass.want \in Checksums /\ pass.gw.checksum \in Checksums \cup {NoConfig}
    BY DEF TypeOK, Pass, Gateway
  <1>4. CASE ServeApplied \/ Publish \/ KeepApplied
    BY <1>1, <1>2, <1>3, <1>4 DEF ServeApplied, Publish, KeepApplied, PublishConfig, PublishConfigFailed
  <1>5. CASE \E n \in Names : DeleteConfigMap(n)
    BY <1>1, <1>2, <1>5 DEF DeleteConfigMap, Names
  <1>6. CASE \E c \in Checksums, t \in ConfigMapStates : MeddleConfigMap(c, t)
    BY <1>1, <1>6 DEF MeddleConfigMap
  <1>7. CASE \/ Read \/ ReadFailed \/ ValidatorUnavailable \/ Reject \/ RecordApplied \/ RecordFailed
             \/ ConfirmStoredConfig \/ HoldForConfigMap \/ HoldForOthers \/ Deploy \/ DeployFailed
             \/ CollectConfigMaps \/ Collected \/ Finish \/ Crash
    BY <1>2, <1>7 DEF Read, ReadFailed, ValidatorUnavailable, Reject, RecordApplied, RecordFailed, ConfirmStoredConfig,
      HoldForConfigMap, HoldForOthers, Deploy, DeployFailed, CollectConfigMaps, Collected, Finish, Crash, children
  <1>8. CASE DeliverGateway \/ DeliverDeployment \/ (\E i \in Inputs : ChangeInput(i)) \/ ChangeLicense \/ ChangeHold
             \/ StartReplicaSet \/ (\E n \in Names : RetireReplicaSet(n)) \/ MeddleDeployment \/ ChangeSpec
    BY <1>2, <1>8 DEF DeliverGateway, DeliverDeployment, ChangeInput, ChangeLicense, ChangeHold, StartReplicaSet,
      RetireReplicaSet, MeddleDeployment, ChangeSpec, children
  <1>9. CASE UNCHANGED vars
    BY <1>2, <1>9 DEF vars, children
  <1> QED
    BY <1>4, <1>5, <1>6, <1>7, <1>8, <1>9 DEF Next, PassStep, EnvStep

\* Neither the applied config nor the one the pass serves counts as newer than
\* the applied one, so what is left is within the history.
LEMMA FewAreWithinHistory ==
  ASSUME FewRevisions, TypeInv, FoundInv, OrderInv
  PROVE  WithinHistory
  <1> DEFINE a == gw.checksum
             k == newer[a] \cap (Revisions \ {pass.name, pass.deployed.mount})
  <1> SUFFICES ASSUME pass.at = "collect", a \in Checksums \ (rs \cup {pass.gw.checksum, pass.deployed.mount})
               PROVE  ~ Cardinality(k) >= HistoryLimit - 1
    BY DEF WithinHistory
  <1>1. pass.name \in Checksums /\ pass.name # a
    BY DEF FoundInv, TypeInv, NameOfCopy, TypeOK, Pass
  <1>2. k \subseteq (Checksums \ {pass.name}) \ {a}
    BY DEF OrderInv, Revisions
  <1>3. IsFiniteSet(Checksums) /\ Cardinality(Checksums) \in Nat
    BY FS_CardinalityType DEF FewRevisions
  <1>4. IsFiniteSet(Checksums \ {pass.name}) /\ Cardinality(Checksums \ {pass.name}) = Cardinality(Checksums) - 1
    BY <1>1, <1>3, FS_RemoveElement
  <1>5. /\ IsFiniteSet((Checksums \ {pass.name}) \ {a})
        /\ Cardinality((Checksums \ {pass.name}) \ {a}) = Cardinality(Checksums) - 2
    <2>1. a \in Checksums \ {pass.name}
      BY <1>1
    <2>2. /\ IsFiniteSet((Checksums \ {pass.name}) \ {a})
          /\ Cardinality((Checksums \ {pass.name}) \ {a}) = Cardinality(Checksums \ {pass.name}) - 1
      BY <1>4, <2>1, FS_RemoveElement
    <2> QED
      BY <1>3, <1>4, <2>2
  <1>6. Cardinality(k) \in Nat /\ Cardinality(k) <= Cardinality(Checksums) - 2
    <2>1. IsFiniteSet(k) /\ Cardinality(k) <= Cardinality((Checksums \ {pass.name}) \ {a})
      BY <1>2, <1>5, FS_Subset
    <2> QED
      BY <1>5, <2>1, FS_CardinalityType
  <1> QED
    BY <1>3, <1>6, BoundAssumption DEF FewRevisions

\* collectConfigMaps: no pass, however old the gateway and the Deployment it
\* read, loses the applied config while the gateway has had no more different
\* configs than the history keeps.
THEOREM HistoryKeepsApplied == OnlyOperator /\ FewRevisions => (Spec => []AppliedConfigRetrievable)
  <1> SUFFICES ASSUME OnlyOperator, FewRevisions PROVE Spec => []AppliedConfigRetrievable
    OBVIOUS
  <1> DEFINE I == TypeInv /\ StatusInv /\ SparedInv /\ RetrieveInv /\ OrderInv
  <1>1. Init => I
    <2>1. ASSUME Init PROVE OrderInv
      BY <2>1 DEF Init, OrderInv
    <2> QED
      BY <2>1, TypeInvInit, RetrieveInit
  <1>2. I /\ [Next]_vars => I'
    BY TypeInvNext, StatusNext, FewAreWithinHistory, SparedNext, RetrieveNext, OrderNext DEF RetrieveInv, TypeInv
  <1>3. I => AppliedConfigRetrievable
    BY DEF RetrieveInv
  <1> QED
    BY <1>1, <1>2, <1>3, PTL DEF Spec
=============================================================================

------------------------- MODULE GatewayHealthProofs -------------------------
(***************************************************************************)
(* Proofs about what a gateway reports and does beyond its config, for any *)
(* license window, any set of configs and images, and any number of edits, *)
(* faults, upsets and meddlings.  Three parts, one for each module.        *)
(***************************************************************************)
EXTENDS LicenseWatch, GatewayRollout, OwnedObjects, TLAPS

(***************************************************************************)
(* I.  THE LICENSE.  What the pods run is a matter of when the next look   *)
(* comes.  A look that saw the Secret sets the timer to the next change of *)
(* the license's stage, so its report lasts until the timer fires          *)
(* (ReportLasts) and EE pods are looked at again as their license enters   *)
(* the safety buffer (BufferIsLookedAt).  A look that failed puts the next *)
(* one off by at most one recheck interval (Delay), and the buffer is      *)
(* longer than all of them: a new license is seen (UnnamedIsLookedAt) and  *)
(* a lapsing one acted on before it has lapsed.                            *)
(***************************************************************************)

LicenseStatus ==
  [valid : {"none", "Valid", "ExpiringSoon", "PreExpiry", "Expired", "Unknown"},
   expired : {"none", "True", "False"}, degraded : {"none", "True", "False"},
   unavailable : {"none", "True", "False"}, expiry : Licenses \cup {Nil}]

\* The status says that the license is late, or that CE runs in place of EE,
\* only of an expiry it names and that is inside the safety buffer.
ProblemIsLate(s) ==
  s.degraded = "True" \/ s.expired = "True" => s.expiry # Nil /\ Late(s.expiry, now)

\* How long the failed passes so far have put looks off, at most.
Delay == (MaxLicenseFaults - budget.faults) * RecheckInterval

\* A look comes no later than that after t.
LookBy(t) == now <= t + Delay /\ (~look => due <= t + Delay)

\* A status that does not name the license of the Secret: no pass that saw the
\* Secret has succeeded since the last edit.
UnnamedIsLookedAt ==
  spec.edition = "EE" /\ secret \notin {Nil, lic.expiry} => LookBy(edited)

\* EE pods that would fall back: the next look comes as their license enters
\* the safety buffer.
BufferIsLookedAt ==
  /\ pods.edition = "EE" /\ spec = [edition |-> "EE", fallback |-> TRUE]
  /\ lic.expiry = pods.license /\ pods.license # Nil
  /\ edited <= pods.license - SafetyBuffer
  => LookBy(pods.license - SafetyBuffer)

\* The report of a look that saw the Secret stays true until its timer fires.
ReportLasts ==
  ~look /\ clean =>
    \A t \in Nat : now <= t /\ t < due => LicenseReport(lic, pods.edition, t)

LicenseInv ==
  /\ LicenseTypeOK
  /\ ProblemIsLate(lic)
  /\ UnnamedIsLookedAt
  /\ BufferIsLookedAt
  /\ ReportLasts

-----------------------------------------------------------------------------
(* The window and the timer.                                               *)

LEMMA LicenseNumbers ==
  /\ Warning \in Nat /\ SafetyBuffer \in Nat /\ Horizon \in Nat /\ MaxLicenseFaults \in Nat
  /\ RecheckInterval \in Nat /\ RecheckInterval > 0
  /\ \A n \in Licenses \cup {Nil} : n \in Nat
  /\ \A n \in Licenses : n # Nil
BY WindowAssumption DEF Nil

\* Time only brings an expiry closer.
LEMMA LateStays ==
  ASSUME NEW n \in Licenses, NEW t \in Nat, Late(n, t)
  PROVE  Late(n, t + 1)
BY LicenseNumbers DEF Late, StageAt

\* The least of at most three numbers.
LEMMA LeastOfThree ==
  ASSUME NEW S \in SUBSET Int, S # {}, NEW a \in Int, NEW b \in Int, NEW c \in Int,
         S \subseteq {a, b, c}
  PROVE  Min(S) \in S /\ \A y \in S : Min(S) <= y
<1>1. \E x \in S : \A y \in S : x <= y
  <2>1. CASE a \in S /\ (b \in S => a <= b) /\ (c \in S => a <= c)
    BY <2>1
  <2>2. CASE b \in S /\ (a \in S => b <= a) /\ (c \in S => b <= c)
    BY <2>2
  <2>3. CASE c \in S /\ (a \in S => c <= a) /\ (b \in S => c <= b)
    BY <2>3
  <2>4. a \in S \/ b \in S \/ c \in S
    OBVIOUS
  <2> QED BY <2>1, <2>2, <2>3, <2>4
<1> QED BY <1>1 DEF Min

\* The next look comes within the recheck interval and no boundary is behind it.
LEMMA NextCheck ==
  ASSUME NEW n \in Licenses, NEW t \in Nat
  PROVE  /\ NextLicenseCheck(n, t) \in 1..RecheckInterval
         /\ \A b \in {n - Warning, n - SafetyBuffer, n} : b > t => t + NextLicenseCheck(n, t) <= b
<1> DEFINE later == {b \in {n - Warning, n - SafetyBuffer, n} : b > t}
           d == NextChange(n, t)
<1>0. n \in Nat /\ n - Warning \in Int /\ n - SafetyBuffer \in Int
  BY LicenseNumbers
<1>1. CASE later = {}
  <2>1. d = 0
    BY <1>1 DEF NextChange
  <2> QED BY <1>1, <2>1, LicenseNumbers DEF NextLicenseCheck
<1>2. CASE later # {}
  <2>1. Min(later) \in later /\ \A y \in later : Min(later) <= y
    <3>1. later \in SUBSET Int /\ later \subseteq {n - Warning, n - SafetyBuffer, n} /\ n \in Int
      BY <1>0
    <3> HIDE DEF later, d
    <3> QED BY <1>0, <1>2, <3>1, LeastOfThree
  <2>2. d = Min(later) - t
    BY <1>2 DEF NextChange
  <2>3. d \in Nat \ {0} /\ \A b \in later : t + d <= b
    <3>1. \A b \in later : b \in Int /\ b > t
      BY <1>0
    <3> HIDE DEF later, d
    <3> QED BY <2>1, <2>2, <3>1
  <2>4. /\ NextLicenseCheck(n, t) = IF 0 < d /\ d < RecheckInterval THEN d ELSE RecheckInterval
        /\ \A b \in {n - Warning, n - SafetyBuffer, n} : b > t => b \in later /\ b \in Int
    BY <1>0 DEF NextLicenseCheck
  <2> HIDE DEF later, d
  <2> QED BY <2>3, <2>4, LicenseNumbers
<1> QED BY <1>1, <1>2

\* So the stage does not change until then.
LEMMA StageKept ==
  ASSUME NEW n \in Licenses, NEW t \in Nat, NEW u \in Nat, t <= u, u < t + NextLicenseCheck(n, t)
  PROVE  StageAt(n, u) = StageAt(n, t)
<1> DEFINE c == NextLicenseCheck(n, t)
<1>1. /\ c \in Nat
      /\ n - Warning > t => t + c <= n - Warning
      /\ n - SafetyBuffer > t => t + c <= n - SafetyBuffer
      /\ n > t => t + c <= n
  BY NextCheck, LicenseNumbers
<1> HIDE DEF c
<1>2. u < t + c /\ n \in Nat
  BY LicenseNumbers DEF c
<1> QED BY <1>1, <1>2, LicenseNumbers DEF StageAt

\* The work queue keeps the earlier timer.
LEMMA TimerSet ==
  ASSUME LicenseTypeOK, NEW after \in Nat, Timer(after)
  PROVE  due' \in now..Never /\ (after # 0 => due' <= now + after)
<1> DEFINE old == IF due > now THEN due ELSE Never
<1>1. now \in Nat /\ Never \in Nat /\ now <= Never /\ old \in now..Never
  BY LicenseNumbers DEF LicenseTypeOK, Never
<1>2. due' = IF after = 0 THEN old ELSE Min({old, now + after, Never})
  BY DEF Timer
<1> HIDE DEF old
<1>3. CASE after # 0
  <2> DEFINE S == {old, now + after, Never}
  <2>2. Min(S) \in S /\ \A y \in S : Min(S) <= y
    <3>1. old \in Int /\ now + after \in Int /\ Never \in Int
      BY <1>1
    <3>2. S \in SUBSET Int /\ S # {} /\ S \subseteq {old, now + after, Never}
      BY <3>1
    <3> HIDE DEF S
    <3> QED BY <3>1, <3>2, LeastOfThree
  <2>3. due' = Min(S)
    BY <1>2, <1>3
  <2> QED BY <1>1, <2>2, <2>3
<1> QED BY <1>1, <1>2, <1>3

-----------------------------------------------------------------------------
(* What a look at the license of an EE gateway leaves.                     *)

\* The look knew the expiry e: status and decision follow its stage.
Judged(s, ce, e) ==
  /\ s.valid = StageAt(e, now)
  /\ s.expired = "True" <=> Late(e, now)
  /\ s.degraded = "True" <=> Late(e, now) /\ spec.fallback
  /\ ce <=> Late(e, now) /\ spec.fallback

\* It saw nothing, and the expiry it knew, if any, is not late.
Blind(s, ce) ==
  /\ s.valid = "Unknown" /\ s.expired # "True" /\ s.degraded # "True"
  /\ ~ce

\* The result r of a look that read `seen`.
Looked(r, seen) ==
  /\ r.v.lic \in LicenseStatus /\ r.license \in Licenses \cup {Nil} /\ r.after \in 0..RecheckInterval
  /\ spec.edition = "CE" => r.v.lic = NoLicense
  /\ spec.edition = "EE" =>
       LET e == r.v.lic.expiry
       IN /\ r.after = IF e = Nil THEN RecheckInterval ELSE NextLicenseCheck(e, now)
          /\ seen # Nil => e = seen /\ r.license = seen
          /\ seen = Nil => e = lic.expiry /\ r.license = pods.license
          /\ IF seen = Nil /\ (e = Nil \/ ~Late(e, now))
               THEN Blind(r.v.lic, r.v.ce) ELSE Judged(r.v.lic, r.v.ce, e)

\* applyLicenseStage judges.
LEMMA StageApplied ==
  ASSUME LicenseTypeOK, NEW s \in LicenseStatus, s.expiry # Nil,
         NEW r, r = ApplyLicenseStage(s, StageAt(s.expiry, now))
  PROVE  r.lic \in LicenseStatus /\ r.lic.expiry = s.expiry /\ Judged(r.lic, r.ce, s.expiry)
<1> DEFINE stage == StageAt(s.expiry, now)
<1>1. stage \in {"Valid", "ExpiringSoon", "PreExpiry", "Expired"}
  BY DEF StageAt
<1>2. spec.fallback \in BOOLEAN
  BY DEF LicenseTypeOK
<1>0. Late(s.expiry, now) \in BOOLEAN /\ (Late(s.expiry, now) <=> stage \in {"PreExpiry", "Expired"})
  BY DEF Late
<1> HIDE DEF stage
<1>3. CASE stage \in {"Valid", "ExpiringSoon"}
  <2>1. /\ RecoverLicense(s) \in LicenseStatus /\ RecoverLicense(s).degraded # "True"
        /\ RecoverLicense(s).expired # "True" /\ RecoverLicense(s).expiry = s.expiry
    BY DEF RecoverLicense, LicenseStatus
  <2>2. r.lic = [RecoverLicense(s) EXCEPT !.valid = stage] /\ r.ce = FALSE
    BY <1>3 DEF ApplyLicenseStage, stage
  <2>3. /\ r.lic \in LicenseStatus /\ r.lic.degraded # "True" /\ r.lic.expired # "True"
        /\ r.lic.expiry = s.expiry /\ r.lic.valid = stage
    BY <2>1, <2>2, <1>1 DEF LicenseStatus
  <2>4. ~Late(s.expiry, now)
    BY <1>0, <1>3
  <2> QED
    BY <1>0, <1>2, <2>2, <2>3, <2>4 DEF Judged, stage
<1>4. CASE stage \in {"PreExpiry", "Expired"}
  <2>1. Late(s.expiry, now)
    BY <1>4, <1>0
  <2>2. r.lic = ExpireLicense(s, stage) /\ r.ce = spec.fallback
    BY <1>4 DEF ApplyLicenseStage, stage
  <2> DEFINE d == IF spec.fallback THEN "True" ELSE IF s.degraded # "none" THEN "False" ELSE s.degraded
  <2>5. d \in {"none", "True", "False"} /\ (d = "True" <=> spec.fallback)
    BY DEF LicenseStatus
  <2>6. r.lic = [s EXCEPT !.valid = stage, !.expired = "True", !.degraded = d]
    BY <2>2 DEF ExpireLicense
  <2> HIDE DEF d
  <2>3. /\ r.lic \in LicenseStatus /\ r.lic.expiry = s.expiry /\ r.lic.valid = stage
        /\ r.lic.expired = "True" /\ r.lic.degraded = d
    BY <2>6, <2>5, <1>1 DEF LicenseStatus
  <2> QED
    BY <2>1, <2>2, <2>3, <2>5, <1>2 DEF Judged, stage
<1> QED
  BY <1>1, <1>3, <1>4

\* Every look, whatever it reads.
LEMMA LookResult ==
  ASSUME LicenseTypeOK, ProblemIsLate(lic), NEW seen \in Licenses \cup {Nil},
         NEW r, r = ReconcileLicense(seen)
  PROVE  Looked(r, seen)
<1>0. /\ lic \in LicenseStatus /\ pods.license \in Licenses \cup {Nil} /\ now \in Nat
      /\ spec.edition \in {"CE", "EE"}
  BY DEF LicenseTypeOK, LicenseStatus
<1>1. CASE spec.edition = "CE"
  <2>1. r.v.lic = NoLicense /\ r.license = Nil /\ r.after = 0
    BY <1>1 DEF ReconcileLicense
  <2>2. NoLicense \in LicenseStatus
    BY DEF NoLicense, LicenseStatus
  <2> QED BY <1>1, <2>1, <2>2, LicenseNumbers DEF Looked
<1>2. CASE spec.edition = "EE" /\ seen = Nil
  <2> DEFINE s == [lic EXCEPT !.unavailable = "True"]
  <2>1. /\ s \in LicenseStatus /\ s.degraded = lic.degraded /\ s.expired = lic.expired
        /\ s.expiry = lic.expiry
    BY <1>0 DEF LicenseStatus
  <2>2. r = ReconcileUnreadableLicense(s)
    BY <1>2 DEF ReconcileLicense
  <2> HIDE DEF s
  <2>3. /\ r.license = pods.license
        /\ r.after = IF s.expiry = Nil THEN RecheckInterval ELSE NextLicenseCheck(s.expiry, now)
    BY <2>2 DEF ReconcileUnreadableLicense
  <2>4. r.after \in 0..RecheckInterval
    BY <2>3, <2>1, <1>0, NextCheck, LicenseNumbers DEF LicenseStatus
  <2>5. CASE s.expiry = Nil \/ ~Late(s.expiry, now)
    <3>1. r.v = [lic |-> [s EXCEPT !.valid = "Unknown"], ce |-> s.degraded = "True"]
      BY <2>5, <2>2 DEF ReconcileUnreadableLicense
    <3>2. r.v.lic = [s EXCEPT !.valid = "Unknown"] /\ r.v.ce = (s.degraded = "True")
      BY <3>1
    <3>3. /\ r.v.lic \in LicenseStatus /\ r.v.lic.expiry = s.expiry /\ r.v.lic.valid = "Unknown"
          /\ r.v.lic.expired = s.expired /\ r.v.lic.degraded = s.degraded
      BY <3>2, <2>1 DEF LicenseStatus
    <3>4. s.degraded # "True" /\ s.expired # "True"
      BY <2>1, <2>5 DEF ProblemIsLate
    <3> QED BY <1>0, <1>2, <2>1, <2>3, <2>4, <2>5, <3>2, <3>3, <3>4 DEF Looked, Blind
  <2>6. CASE s.expiry # Nil /\ Late(s.expiry, now)
    <3>1. r.v = ApplyLicenseStage(s, StageAt(s.expiry, now))
      BY <2>6, <2>2 DEF ReconcileUnreadableLicense
    <3>2. r.v.lic \in LicenseStatus /\ r.v.lic.expiry = s.expiry /\ Judged(r.v.lic, r.v.ce, s.expiry)
      BY <2>1, <2>6, <3>1, StageApplied
    <3> QED BY <1>0, <1>2, <2>1, <2>3, <2>4, <2>6, <3>2 DEF Looked
  <2> QED BY <2>5, <2>6
<1>3. CASE spec.edition = "EE" /\ seen # Nil
  <2> DEFINE s == [lic EXCEPT !.unavailable = "False", !.expiry = seen]
  <2>1. s \in LicenseStatus /\ s.expiry = seen
    BY <1>0 DEF LicenseStatus
  <2>2. r = [v |-> ApplyLicenseStage(s, StageAt(seen, now)), after |-> NextLicenseCheck(seen, now),
             license |-> seen]
    BY <1>3 DEF ReconcileLicense
  <2> HIDE DEF s
  <2>3. r.v = ApplyLicenseStage(s, StageAt(s.expiry, now)) /\ r.after = NextLicenseCheck(seen, now)
        /\ r.license = seen
    BY <2>1, <2>2
  <2>4. r.v.lic \in LicenseStatus /\ r.v.lic.expiry = seen /\ Judged(r.v.lic, r.v.ce, seen)
    BY <1>3, <2>1, <2>3, StageApplied
  <2>5. r.after \in 0..RecheckInterval
    BY <1>0, <1>3, <2>3, NextCheck, LicenseNumbers
  <2> QED BY <1>3, <2>3, <2>4, <2>5 DEF Looked
<1> QED
  BY <1>0, <1>1, <1>2, <1>3

\* A look that ends without CE pods, with the expiry known: it is not late,
\* and the next look comes before it is.
LEMMA EarlyLook ==
  ASSUME LicenseTypeOK, NEW seen \in Licenses \cup {Nil}, NEW r, Looked(r, seen),
         spec = [edition |-> "EE", fallback |-> TRUE], r.v.lic.expiry # Nil, ~r.v.ce
  PROVE  /\ now < r.v.lic.expiry - SafetyBuffer
         /\ r.after \in Nat /\ r.after > 0
         /\ now + r.after <= r.v.lic.expiry - SafetyBuffer
<1> DEFINE e == r.v.lic.expiry
<1>1. spec.edition = "EE" /\ spec.fallback = TRUE
  OBVIOUS
<1>2. e \in Licenses /\ now \in Nat
  BY DEF Looked, LicenseStatus, LicenseTypeOK
<1>3. r.after = NextLicenseCheck(e, now) /\ ~Late(e, now)
  BY <1>1 DEF Looked, Judged
<1> HIDE DEF e
<1>4. now < e - SafetyBuffer
  BY <1>2, <1>3, LicenseNumbers DEF Late, StageAt
<1>5. NextLicenseCheck(e, now) \in 1..RecheckInterval /\ now + NextLicenseCheck(e, now) <= e - SafetyBuffer
  BY <1>2, <1>4, NextCheck
<1> QED BY <1>3, <1>4, <1>5, LicenseNumbers DEF e

\* The status a look leaves is late only of a late expiry.
LEMMA LookedIsLate ==
  ASSUME LicenseTypeOK, NEW seen, NEW r, Looked(r, seen) PROVE ProblemIsLate(r.v.lic)
<1>1. CASE spec.edition = "CE"
  BY <1>1 DEF Looked, ProblemIsLate, NoLicense
<1>2. CASE spec.edition = "EE"
  <2>1. seen # Nil => r.v.lic.expiry # Nil
    BY <1>2 DEF Looked
  <2> QED BY <1>2, <2>1 DEF Looked, Blind, Judged, ProblemIsLate
<1> QED BY <1>1, <1>2 DEF LicenseTypeOK

\* Until its timer fires, what a look that saw the Secret leaves stays true.
LEMMA LookedLasts ==
  ASSUME LicenseTypeOK, NEW r, Looked(r, secret), NEW t \in Nat, now <= t,
         spec.edition = "EE" => t < now + r.after
  PROVE  LicenseReport(r.v.lic, TemplateFor(r).edition, t)
<1> DEFINE e == r.v.lic.expiry
<1>1. CASE spec.edition = "CE"
  BY <1>1 DEF Looked, LicenseReport
<1>2. CASE spec.edition = "EE"
  <2>1. e \in Licenses \cup {Nil} /\ now \in Nat /\ secret \in Licenses \cup {Nil}
    BY DEF Looked, LicenseStatus, LicenseTypeOK
  <2>2. e # Nil => StageAt(e, t) = StageAt(e, now) /\ (Late(e, t) <=> Late(e, now))
    <3>1. e # Nil => r.after = NextLicenseCheck(e, now)
      BY <1>2 DEF Looked
    <3>2. e # Nil => StageAt(e, t) = StageAt(e, now)
      <4> HIDE DEF e
      <4> QED BY <1>2, <2>1, <3>1, StageKept
    <3> QED BY <3>2 DEF Late
  <2>3. TemplateFor(r).edition = IF r.v.ce THEN "CE" ELSE "EE"
    BY <1>2 DEF TemplateFor
  <2>4. CASE secret = Nil /\ (e = Nil \/ ~Late(e, now))
    <3>1. Blind(r.v.lic, r.v.ce)
      BY <1>2, <2>4 DEF Looked
    <3> QED BY <1>2, <2>2, <2>4, <3>1 DEF LicenseReport, Blind
  <2>5. CASE secret # Nil \/ (e # Nil /\ Late(e, now))
    <3>1. Judged(r.v.lic, r.v.ce, e) /\ e # Nil /\ secret \in {e, Nil}
      BY <1>2, <2>5 DEF Looked
    <3>2. ~(secret = Nil /\ (e = Nil \/ ~Late(e, t)))
      BY <2>2, <2>5, <3>1
    <3>3. /\ r.v.lic.valid = StageAt(e, t)
          /\ r.v.lic.expired = "True" <=> Late(e, t)
          /\ r.v.lic.degraded = "True" <=> Late(e, t) /\ spec.fallback
          /\ TemplateFor(r).edition = "CE" <=> r.v.lic.degraded = "True"
      BY <2>2, <2>3, <3>1 DEF Judged
    <3> QED BY <1>2, <3>1, <3>2, <3>3 DEF LicenseReport
  <2> QED BY <2>1, <2>4, <2>5
<1> QED BY <1>1, <1>2 DEF LicenseTypeOK

-----------------------------------------------------------------------------
(* Faults and delays.                                                      *)

LEMMA DelayRange ==
  ASSUME LicenseTypeOK PROVE Delay \in Nat /\ Delay <= MaxLicenseFaults * RecheckInterval
<1>1. budget.faults \in 0..MaxLicenseFaults
  BY DEF LicenseTypeOK
<1> DEFINE f == budget.faults
           u == MaxLicenseFaults - f
<1>2. u \in Nat /\ f \in Nat /\ MaxLicenseFaults = u + f
  BY <1>1, LicenseNumbers
<1>3. RecheckInterval \in Nat
  BY LicenseNumbers
<1> HIDE DEF u, f
<1>4. \A a, b, c \in Nat : a * c \in Nat /\ (a + b) * c = a * c + b * c /\ b * c >= 0
  OBVIOUS
<1>5. u * RecheckInterval \in Nat /\ u * RecheckInterval <= MaxLicenseFaults * RecheckInterval
  BY <1>2, <1>3, <1>4
<1> QED BY <1>5 DEF Delay, u, f

LEMMA FaultDelays ==
  ASSUME LicenseTypeOK, Fault
  PROVE  Delay' = Delay + RecheckInterval /\ budget' \in [edits : 0..MaxLicenseEdits, faults : 0..MaxLicenseFaults]
<1>1. /\ budget.faults \in 1..MaxLicenseFaults /\ budget'.faults = budget.faults - 1
      /\ budget' \in [edits : 0..MaxLicenseEdits, faults : 0..MaxLicenseFaults]
  BY LicenseNumbers DEF LicenseTypeOK, Fault
<1> DEFINE f == budget.faults
           g == budget'.faults
<1> HIDE DEF f, g
<1>2. /\ f \in Int /\ g = f - 1 /\ MaxLicenseFaults \in Int /\ RecheckInterval \in Int
  BY <1>1, LicenseNumbers DEF f, g
<1>3. (MaxLicenseFaults - g) * RecheckInterval = (MaxLicenseFaults - f) * RecheckInterval + RecheckInterval
  BY <1>2
<1> QED BY <1>1, <1>3 DEF Delay, f, g

-----------------------------------------------------------------------------
(* The steps.                                                              *)

\* The pods that the infrastructure stage writes.
LEMMA TemplateTyped ==
  ASSUME LicenseTypeOK, NEW seen, NEW r, Looked(r, seen)
  PROVE  /\ TemplateFor(r) \in [edition : {"CE", "EE"}, license : Licenses \cup {Nil}]
         /\ TemplateFor(r).license = r.license
         /\ TemplateFor(r).edition = IF r.v.ce THEN "CE" ELSE spec.edition
BY DEF TemplateFor, Looked, LicenseTypeOK

LEMMA LookDone_Inv ==
  ASSUME LicenseInv, NEW seen \in Licenses \cup {Nil}, LookDone(seen)
  PROVE  LicenseInv'
<1> DEFINE r == ReconcileLicense(seen)
<1> USE DEF LicenseInv
<1>1. /\ lic' = r.v.lic /\ pods' = TemplateFor(r) /\ look' = (lic' # lic)
      /\ clean' = (seen = secret) /\ Timer(r.after)
      /\ now' = now /\ secret' = secret /\ spec' = spec /\ edited' = edited
      /\ (seen = secret /\ budget' = budget) \/ (seen = Nil /\ secret # Nil /\ Fault)
  BY DEF LookDone
<1>2. Looked(r, seen)
  BY LookResult
<1> HIDE DEF r
<1>3. r.after \in Nat /\ r.after <= RecheckInterval /\ (spec.edition = "EE" => r.after > 0)
  <2>1. r.after \in 0..RecheckInterval /\ r.v.lic.expiry \in Licenses \cup {Nil}
    BY <1>2 DEF Looked, LicenseStatus
  <2>2. spec.edition = "EE" =>
          r.after = IF r.v.lic.expiry = Nil THEN RecheckInterval ELSE NextLicenseCheck(r.v.lic.expiry, now)
    BY <1>2 DEF Looked
  <2>3. now \in Nat
    BY DEF LicenseTypeOK
  <2> QED BY <2>1, <2>2, <2>3, NextCheck, LicenseNumbers
<1>4. due' \in now..Never /\ (r.after # 0 => due' <= now + r.after)
  BY <1>1, <1>3, TimerSet
<1>5. /\ pods' \in [edition : {"CE", "EE"}, license : Licenses \cup {Nil}]
      /\ pods'.license = r.license /\ pods'.edition = IF r.v.ce THEN "CE" ELSE spec.edition
  BY <1>1, <1>2, TemplateTyped
<1>6. /\ budget' \in [edits : 0..MaxLicenseEdits, faults : 0..MaxLicenseFaults]
      /\ seen # secret => Delay' = Delay + RecheckInterval
      /\ seen = secret => Delay' = Delay
      /\ Delay \in Nat
  <2>1. CASE seen = secret /\ budget' = budget
    BY <2>1, DelayRange DEF Delay, LicenseTypeOK
  <2>2. CASE seen = Nil /\ secret # Nil /\ Fault
    BY <2>2, FaultDelays, DelayRange
  <2> QED BY <1>1, <2>1, <2>2
<1>7. LicenseTypeOK'
  <2>1. lic' \in LicenseStatus
    BY <1>1, <1>2 DEF Looked
  <2> QED BY <1>1, <1>4, <1>5, <1>6, <2>1 DEF LicenseTypeOK, LicenseStatus, Never
<1>8. ProblemIsLate(lic)'
  <2>1. ProblemIsLate(r.v.lic)
    BY <1>2, LookedIsLate
  <2> QED BY <1>1, <2>1 DEF ProblemIsLate, Late, StageAt
<1>9. now \in Nat /\ edited \in Nat /\ due' \in Nat /\ RecheckInterval \in Nat
  BY <1>4, LicenseNumbers DEF LicenseTypeOK, Never
<1>10. UnnamedIsLookedAt'
  <2> SUFFICES ASSUME spec.edition = "EE", secret \notin {Nil, lic'.expiry} PROVE LookBy(edited)'
    BY <1>1 DEF UnnamedIsLookedAt
  <2>1. seen # secret /\ lic'.expiry = lic.expiry
    BY <1>1, <1>2 DEF Looked
  <2>2. LookBy(edited)
    BY <2>1 DEF UnnamedIsLookedAt
  <2>3. now <= edited + Delay' /\ due' <= edited + Delay'
    BY <1>3, <1>4, <1>6, <1>9, <2>1, <2>2 DEF LookBy
  <2> QED BY <1>1, <2>3 DEF LookBy
<1>11. BufferIsLookedAt'
  <2> SUFFICES ASSUME pods'.edition = "EE", spec = [edition |-> "EE", fallback |-> TRUE],
                      lic'.expiry = pods'.license, pods'.license # Nil
               PROVE  LookBy(pods.license - SafetyBuffer)'
    BY <1>1 DEF BufferIsLookedAt
  <2>1. spec.edition = "EE" /\ ~r.v.ce
    BY <1>5
  <2>2. /\ now < lic'.expiry - SafetyBuffer /\ r.after > 0 /\ now + r.after <= lic'.expiry - SafetyBuffer
    BY <1>1, <1>2, <2>1, EarlyLook
  <2>3. lic'.expiry \in Nat /\ SafetyBuffer \in Nat
    BY <1>7, LicenseNumbers DEF LicenseTypeOK
  <2>4. Delay' \in Nat
    BY <1>6, <1>9
  <2>5. now <= (pods'.license - SafetyBuffer) + Delay' /\ due' <= (pods'.license - SafetyBuffer) + Delay'
    BY <1>3, <1>4, <1>9, <2>2, <2>3, <2>4
  <2> QED BY <1>1, <2>5 DEF LookBy
<1>12. ReportLasts'
  <2> SUFFICES ASSUME clean', NEW t \in Nat, now <= t, t < due'
               PROVE  LicenseReport(lic, pods.edition, t)'
    BY <1>1 DEF ReportLasts
  <2>1. seen = secret
    BY <1>1
  <2>2. spec.edition = "EE" => t < now + r.after
    BY <1>3, <1>4, <1>9
  <2>3. LicenseReport(r.v.lic, TemplateFor(r).edition, t)
    BY <1>2, <2>1, <2>2, LookedLasts
  <2> QED BY <1>1, <2>3 DEF LicenseReport, Late, StageAt
<1> QED BY <1>7, <1>8, <1>10, <1>11, <1>12

LEMMA LookFailed_Inv ==
  ASSUME LicenseInv, LookFailed PROVE LicenseInv'
<1> DEFINE r == ReconcileLicense(secret)
<1> USE DEF LicenseInv
<1>1. PICK wait \in 0..RecheckInterval : look' = (wait = 0) /\ Timer(wait)
  BY DEF LookFailed, Retry
<1>2. /\ Fault /\ clean' = FALSE
      /\ now' = now /\ secret' = secret /\ spec' = spec /\ edited' = edited
      /\ \/ lic' = lic /\ pods' = pods
         \/ lic' = r.v.lic /\ pods' = pods
         \/ lic' = lic /\ pods' = TemplateFor(r)
  BY DEF LookFailed
<1>3. secret \in Licenses \cup {Nil}
  BY DEF LicenseTypeOK
<1>4. Looked(r, secret)
  BY <1>3, LookResult
<1> HIDE DEF r
<1>5. /\ pods' \in [edition : {"CE", "EE"}, license : Licenses \cup {Nil}]
      /\ pods' = TemplateFor(r) => pods'.license = r.license /\ pods'.edition = IF r.v.ce THEN "CE" ELSE spec.edition
  BY <1>2, <1>4, TemplateTyped DEF LicenseTypeOK
<1>6. /\ wait \in Nat /\ wait <= RecheckInterval
      /\ due' \in now..Never /\ (~look' => due' <= now + wait)
  <2>1. wait \in Nat /\ wait <= RecheckInterval
    BY LicenseNumbers
  <2>2. due' \in now..Never /\ (wait # 0 => due' <= now + wait)
    BY <1>1, <2>1, TimerSet
  <2> QED BY <1>1, <2>1, <2>2
<1>7. /\ budget' \in [edits : 0..MaxLicenseEdits, faults : 0..MaxLicenseFaults]
      /\ Delay' = Delay + RecheckInterval /\ Delay \in Nat
  BY <1>2, FaultDelays, DelayRange
<1>8. now \in Nat /\ edited \in Nat /\ due' \in Nat /\ RecheckInterval \in Nat
  BY <1>6, LicenseNumbers DEF LicenseTypeOK, Never
<1>9. LicenseTypeOK'
  <2>1. lic' \in LicenseStatus
    BY <1>2, <1>4 DEF Looked, LicenseTypeOK, LicenseStatus
  <2> QED BY <1>1, <1>2, <1>5, <1>6, <1>7, <2>1 DEF LicenseTypeOK, LicenseStatus, Never
<1>10. ProblemIsLate(lic)'
  <2>1. ProblemIsLate(r.v.lic)
    BY <1>4, LookedIsLate
  <2> QED BY <1>2, <2>1 DEF ProblemIsLate, Late, StageAt
<1>11. UnnamedIsLookedAt'
  <2> SUFFICES ASSUME spec.edition = "EE", secret \notin {Nil, lic'.expiry} PROVE LookBy(edited)'
    BY <1>2 DEF UnnamedIsLookedAt
  <2>1. lic'.expiry = lic.expiry
    BY <1>2, <1>4 DEF Looked
  <2>2. LookBy(edited)
    BY <2>1 DEF UnnamedIsLookedAt
  <2>3. LookBy(edited)'
    <3>1. now <= edited + Delay /\ edited \in Int
      BY <1>8, <2>2 DEF LookBy
    <3>2. now <= edited + Delay' /\ (~look' => due' <= edited + Delay')
      BY <1>6, <1>7, <1>8, <3>1
    <3> QED BY <1>2, <3>2 DEF LookBy
  <2> QED BY <2>3
<1>12. BufferIsLookedAt'
  <2> DEFINE b == pods'.license - SafetyBuffer
  <2> SUFFICES ASSUME pods'.edition = "EE", spec = [edition |-> "EE", fallback |-> TRUE],
                      lic'.expiry = pods'.license, pods'.license # Nil, edited <= b
               PROVE  LookBy(pods.license - SafetyBuffer)'
    BY <1>2 DEF BufferIsLookedAt
  <2>0. b \in Int /\ spec.edition = "EE"
    BY <1>5, LicenseNumbers
  <2>1. now <= b + Delay
    <3>1. CASE lic'.expiry = lic.expiry /\ pods' = pods
      BY <3>1 DEF BufferIsLookedAt, LookBy
    <3>2. CASE lic' = r.v.lic /\ pods' = pods /\ lic'.expiry # lic.expiry
      <4>1. secret = lic'.expiry /\ secret # Nil
        BY <1>4, <2>0, <3>2 DEF Looked
      <4>2. LookBy(edited)
        BY <2>0, <3>2, <4>1 DEF UnnamedIsLookedAt
      <4> HIDE DEF b
      <4> QED BY <1>7, <1>8, <2>0, <4>2 DEF LookBy
    <3>3. CASE lic' = lic /\ pods' = TemplateFor(r)
      <4>1. ~r.v.ce /\ r.license = lic.expiry
        BY <1>5, <3>3
      <4>2. r.v.lic.expiry = lic.expiry
        BY <1>4, <2>0, <4>1 DEF Looked
      <4>3. now < r.v.lic.expiry - SafetyBuffer
        BY <1>3, <1>4, <3>3, <4>1, <4>2, EarlyLook
      <4>4. now < b
        BY <3>3, <4>2, <4>3
      <4> HIDE DEF b
      <4> QED BY <1>7, <1>8, <2>0, <4>4
    <3> QED BY <1>2, <3>1, <3>2, <3>3
  <2>2. now <= b + Delay' /\ (~look' => due' <= b + Delay')
    <3> HIDE DEF b
    <3> QED BY <1>6, <1>7, <1>8, <2>0, <2>1
  <2> QED BY <1>2, <2>2 DEF LookBy
<1>13. ReportLasts'
  BY <1>2 DEF ReportLasts
<1> QED BY <1>9, <1>10, <1>11, <1>12, <1>13

\* A step that leaves the look, the timer and what they are for alone, or asks
\* for a look.
LEMMA Restart_Inv ==
  ASSUME LicenseInv, Restart PROVE LicenseInv'
<1> USE DEF LicenseInv
<1>1. /\ Fault /\ due' = Never /\ look' = TRUE
      /\ now' = now /\ secret' = secret /\ spec' = spec /\ lic' = lic /\ pods' = pods
      /\ clean' = clean /\ edited' = edited
  BY DEF Restart
<1>2. /\ budget' \in [edits : 0..MaxLicenseEdits, faults : 0..MaxLicenseFaults]
      /\ Delay' = Delay + RecheckInterval /\ Delay \in Nat /\ RecheckInterval \in Nat
  BY <1>1, FaultDelays, DelayRange, LicenseNumbers
<1>3. now \in Nat /\ edited \in Nat /\ now <= Never /\ Never \in Nat
      /\ pods.license \in Nat /\ SafetyBuffer \in Nat
  BY LicenseNumbers DEF LicenseTypeOK, Never
<1>4. LicenseTypeOK'
  BY <1>1, <1>2, <1>3 DEF LicenseTypeOK, Never
<1>5. \A t \in Int : LookBy(t) => now <= t + Delay'
  BY <1>2, <1>3 DEF LookBy
<1>6. UnnamedIsLookedAt'
  <2>1. spec.edition = "EE" /\ secret \notin {Nil, lic.expiry} => now <= edited + Delay'
    BY <1>3, <1>5 DEF UnnamedIsLookedAt
  <2> QED BY <1>1, <2>1 DEF UnnamedIsLookedAt, LookBy
<1>7. BufferIsLookedAt'
  <2> DEFINE b == pods.license - SafetyBuffer
  <2>1. b \in Int
    BY <1>3
  <2>2. LookBy(b) => now <= b + Delay'
    <3> HIDE DEF b
    <3> QED BY <1>5, <2>1
  <2> QED BY <1>1, <2>2 DEF BufferIsLookedAt, LookBy
<1>8. ProblemIsLate(lic)' /\ ReportLasts'
  BY <1>1 DEF ProblemIsLate, ReportLasts, Late, StageAt
<1> QED BY <1>4, <1>6, <1>7, <1>8

LEMMA Tick_Inv ==
  ASSUME LicenseInv, Tick PROVE LicenseInv'
<1> USE DEF LicenseInv
<1>1. /\ ~look /\ now < due /\ now < Horizon /\ now' = now + 1
      /\ secret' = secret /\ spec' = spec /\ lic' = lic /\ pods' = pods /\ due' = due
      /\ look' = look /\ clean' = clean /\ edited' = edited /\ budget' = budget
  BY DEF Tick
<1>2. /\ now \in Nat /\ edited \in Nat /\ due \in Nat /\ lic.expiry \in Licenses \cup {Nil}
      /\ pods.license \in Nat /\ SafetyBuffer \in Nat /\ Delay \in Nat
  BY LicenseNumbers, DelayRange DEF LicenseTypeOK, Never
<1>3. LicenseTypeOK'
  BY <1>1, <1>2, LicenseNumbers DEF LicenseTypeOK, Never
<1>4. ProblemIsLate(lic)'
  <2>1. lic.degraded = "True" \/ lic.expired = "True" => lic.expiry # Nil /\ Late(lic.expiry, now + 1)
    BY <1>2, LateStays DEF ProblemIsLate
  <2> QED BY <1>1, <2>1 DEF ProblemIsLate, Late, StageAt
<1>5. Delay' = Delay
  BY <1>1 DEF Delay
<1>6. \A t \in Int : LookBy(t) => now + 1 <= t + Delay /\ due <= t + Delay
  BY <1>1, <1>2 DEF LookBy
<1>7. UnnamedIsLookedAt'
  <2>1. spec.edition = "EE" /\ secret \notin {Nil, lic.expiry} => now + 1 <= edited + Delay /\ due <= edited + Delay
    BY <1>2, <1>6 DEF UnnamedIsLookedAt
  <2> QED BY <1>1, <1>5, <2>1 DEF UnnamedIsLookedAt, LookBy
<1>8. BufferIsLookedAt'
  <2> DEFINE b == pods.license - SafetyBuffer
  <2>1. b \in Int
    BY <1>2
  <2>2. LookBy(b) => now + 1 <= b + Delay /\ due <= b + Delay
    <3> HIDE DEF b
    <3> QED BY <1>6, <2>1
  <2> QED BY <1>1, <1>5, <2>2 DEF BufferIsLookedAt, LookBy
<1>9. ReportLasts'
  <2> SUFFICES ASSUME clean, NEW t \in Nat, now + 1 <= t, t < due
               PROVE  LicenseReport(lic, pods.edition, t)'
    BY <1>1 DEF ReportLasts
  <2>1. LicenseReport(lic, pods.edition, t)
    BY <1>1, <1>2 DEF ReportLasts
  <2> QED BY <1>1, <2>1 DEF LicenseReport, Late, StageAt
<1> QED BY <1>3, <1>4, <1>7, <1>8, <1>9

\* The Secret or the spec is edited: a look is due at once.
LEMMA Edit_Inv ==
  ASSUME LicenseInv, Edit, secret' \in Licenses \cup {Nil},
         spec' \in [edition : {"CE", "EE"}, fallback : BOOLEAN]
  PROVE  LicenseInv'
<1> USE DEF LicenseInv
<1>1. /\ budget.edits > 0 /\ budget' = [budget EXCEPT !.edits = @ - 1]
      /\ look' = TRUE /\ edited' = now
      /\ now' = now /\ lic' = lic /\ pods' = pods /\ due' = due /\ clean' = clean
  BY DEF Edit
<1>2. /\ budget' \in [edits : 0..MaxLicenseEdits, faults : 0..MaxLicenseFaults]
      /\ budget'.faults = budget.faults
  BY <1>1, WindowAssumption DEF LicenseTypeOK
<1>3. LicenseTypeOK'
  BY <1>1, <1>2 DEF LicenseTypeOK, Never
<1>4. now \in Nat /\ Delay \in Nat /\ Delay' = Delay /\ pods.license \in Nat /\ SafetyBuffer \in Nat
  BY <1>2, DelayRange, LicenseNumbers DEF LicenseTypeOK, Delay
<1>5. UnnamedIsLookedAt'
  BY <1>1, <1>4 DEF UnnamedIsLookedAt, LookBy
<1>6. BufferIsLookedAt'
  BY <1>1, <1>4 DEF BufferIsLookedAt, LookBy
<1>7. ProblemIsLate(lic)' /\ ReportLasts'
  BY <1>1 DEF ProblemIsLate, ReportLasts, Late, StageAt
<1> QED BY <1>3, <1>5, <1>6, <1>7

LEMMA LicenseInit_Inv == LicenseInit => LicenseInv
<1> SUFFICES ASSUME LicenseInit PROVE LicenseInv
  OBVIOUS
<1>1. lic \in LicenseStatus /\ lic.degraded # "True" /\ lic.expired # "True" /\ lic.expiry = Nil
  BY DEF LicenseInit, NoLicense, LicenseStatus
<1>2. now = 0 /\ edited = 0 /\ look = TRUE /\ due = Never /\ pods.license = Nil /\ clean = FALSE
  BY DEF LicenseInit
<1>3. LicenseTypeOK
  <2>1. budget \in [edits : 0..MaxLicenseEdits, faults : 0..MaxLicenseFaults]
    BY WindowAssumption DEF LicenseInit
  <2>2. pods \in [edition : {"CE", "EE"}, license : Licenses \cup {Nil}]
    BY DEF LicenseInit
  <2>3. spec \in [edition : {"CE", "EE"}, fallback : BOOLEAN] /\ secret \in Licenses \cup {Nil}
    BY DEF LicenseInit
  <2>4. now \in 0..Horizon /\ due \in now..Never /\ edited \in 0..now
    BY <1>2, LicenseNumbers DEF Never
  <2>5. look \in BOOLEAN /\ clean \in BOOLEAN
    BY <1>2
  <2> QED BY <1>1, <2>1, <2>2, <2>3, <2>4, <2>5 DEF LicenseTypeOK, LicenseStatus
<1>4. Delay \in Nat
  BY <1>3, DelayRange
<1>5. UnnamedIsLookedAt /\ BufferIsLookedAt /\ ReportLasts /\ ProblemIsLate(lic)
  BY <1>1, <1>2, <1>4 DEF UnnamedIsLookedAt, BufferIsLookedAt, ReportLasts, ProblemIsLate, LookBy
<1> QED BY <1>3, <1>5 DEF LicenseInv

LEMMA LicenseStep_Inv == LicenseInv /\ [LicenseNext]_license => LicenseInv'
<1> SUFFICES ASSUME LicenseInv, [LicenseNext]_license PROVE LicenseInv'
  OBVIOUS
<1>1. ASSUME NEW s \in Licenses \cup {Nil}, ChangeSecret(s) PROVE LicenseInv'
  BY <1>1, Edit_Inv DEF ChangeSecret, LicenseInv, LicenseTypeOK
<1>2. ASSUME NEW s \in [edition : {"CE", "EE"}, fallback : BOOLEAN], ChangeLicenseSpec(s)
      PROVE LicenseInv'
  BY <1>2, Edit_Inv DEF ChangeLicenseSpec, LicenseInv, LicenseTypeOK
<1>3. ASSUME UNCHANGED license PROVE LicenseInv'
  BY <1>3 DEF license, LicenseInv, LicenseTypeOK, ProblemIsLate, UnnamedIsLookedAt, BufferIsLookedAt,
              ReportLasts, LookBy, Delay, LicenseReport, Late, StageAt
<1> QED
  BY <1>1, <1>2, <1>3, LookDone_Inv, LookFailed_Inv, Restart_Inv, Tick_Inv DEF LicenseNext

\* What the invariant says of the two properties.
LEMMA LicenseInv_Properties == LicenseInv => NoPodOutlivesItsLicense /\ LicenseReportCurrent
<1> SUFFICES ASSUME LicenseInv PROVE NoPodOutlivesItsLicense /\ LicenseReportCurrent
  OBVIOUS
<1> USE DEF LicenseInv
<1>1. NoPodOutlivesItsLicense
  <2> SUFFICES ASSUME LookBy(pods.license - SafetyBuffer) PROVE now < pods.license
    BY DEF NoPodOutlivesItsLicense, BufferIsLookedAt
  <2>1. /\ now \in Nat /\ pods.license \in Nat /\ Delay \in Nat /\ Delay <= MaxLicenseFaults * RecheckInterval
    BY DelayRange, LicenseNumbers DEF LicenseTypeOK
  <2> DEFINE m == MaxLicenseFaults * RecheckInterval
  <2>2. SafetyBuffer > m /\ m \in Nat /\ SafetyBuffer \in Nat /\ Delay <= m
    BY WindowAssumption, <2>1
  <2> HIDE DEF m
  <2> DEFINE n == pods.license
  <2>3. now <= (n - SafetyBuffer) + Delay
    BY DEF LookBy
  <2>4. n \in Nat
    BY <2>1
  <2> HIDE DEF n
  <2>5. now < n
    BY <2>1, <2>2, <2>3, <2>4
  <2> QED BY <2>5 DEF n
<1>2. LicenseReportCurrent
  BY DEF LicenseReportCurrent, ReportLasts, LicenseTypeOK
<1> QED BY <1>1, <1>2

LEMMA OutageStep ==
  LicenseInv /\ [LicenseNext]_license
    => [secret = Nil /\ pods' # pods /\ spec.edition = "EE"
          => /\ pods'.license = pods.license
             /\ pods'.edition = "CE" => lic.expiry # Nil /\ Late(lic.expiry, now)]_license
<1> SUFFICES ASSUME LicenseInv, LicenseNext, secret = Nil, pods' # pods, spec.edition = "EE"
             PROVE  /\ pods'.license = pods.license
                    /\ pods'.edition = "CE" => lic.expiry # Nil /\ Late(lic.expiry, now)
  OBVIOUS
<1> DEFINE r == ReconcileLicense(Nil)
<1>1. pods' = TemplateFor(r)
  <2>1. ASSUME NEW s \in Licenses \cup {Nil}, LookDone(s) PROVE s = Nil /\ pods' = TemplateFor(ReconcileLicense(s))
    BY <2>1 DEF LookDone
  <2>2. ASSUME LookFailed PROVE pods' = TemplateFor(ReconcileLicense(secret))
    BY <2>2 DEF LookFailed
  <2>3. ASSUME NEW s, ChangeSecret(s) \/ ChangeLicenseSpec(s) PROVE FALSE
    BY <2>3 DEF ChangeSecret, ChangeLicenseSpec, Edit
  <2>4. ASSUME Restart \/ Tick PROVE FALSE
    BY <2>4 DEF Restart, Tick
  <2> QED
    BY <2>1, <2>2, <2>3, <2>4 DEF LicenseNext
<1>2. Looked(r, Nil)
  BY LookResult DEF LicenseInv
<1> HIDE DEF r
<1>3. pods'.license = r.license /\ (pods'.edition = "CE" => r.v.ce)
  BY <1>1, <1>2, TemplateTyped DEF LicenseInv
<1> QED
  BY <1>2, <1>3 DEF Looked, Blind, Judged

-----------------------------------------------------------------------------
(* The theorems.                                                           *)

LEMMA LicenseAlwaysInv == LicenseSpec => []LicenseInv
  BY LicenseInit_Inv, LicenseStep_Inv, PTL DEF LicenseSpec

\* Time, Secret, status, pods, timer and bounds keep their types.
THEOREM LicenseTypesHold == LicenseSpec => []LicenseTypeOK
<1>1. LicenseInv => LicenseTypeOK
  BY DEF LicenseInv
<1> QED BY <1>1, LicenseAlwaysInv, PTL

\* With fallbackToCE, EE pods never outlive the license they were rolled with,
\* for every window, recheck interval and set of licenses: a timer fires as the
\* license enters the safety buffer, each failed pass puts the look off by at
\* most the recheck interval, and the buffer is longer than all of them.
THEOREM PodsDoNotOutliveLicenses == LicenseSpec => []NoPodOutlivesItsLicense
  BY LicenseInv_Properties, LicenseAlwaysInv, PTL

\* Between two looks the status tells the stage of the clock, for every window:
\* no stage ends before the timer that the look set (nextLicenseCheck).
THEOREM LicenseReportsAreCurrent == LicenseSpec => []LicenseReportCurrent
  BY LicenseInv_Properties, LicenseAlwaysInv, PTL

\* A pass that cannot read the license Secret rolls no pods to another license,
\* and moves them to CE only when the expiry the status names is inside the
\* safety buffer (reconcileUnreadableLicense), for every window, every set of
\* licenses and any number of edits, faults and restarts.
THEOREM OutagesRollNothing == LicenseSpec => OutageRollsNothing
<1>1. LicenseInv /\ [LicenseNext]_license
        => [secret = Nil /\ pods' # pods /\ spec.edition = "EE"
              => /\ pods'.license = pods.license
                 /\ pods'.edition = "CE" => lic.expiry # Nil /\ Late(lic.expiry, now)]_license
  BY OutageStep
<1> QED
  BY <1>1, LicenseInit_Inv, LicenseStep_Inv, PTL DEF LicenseSpec, OutageRollsNothing

(***************************************************************************)
(* II.  THE ROLLOUT.  A status that tells of no rollout stands for the     *)
(* stored Deployment: its Available is that of pods that were all there    *)
(* (StandsFor).  The stored status does (StoredStands), the copy a pass    *)
(* works on does (CopyStands), and so does what the pass makes of it       *)
(* (JudgedStands): either the pass saw the template that is stored, and    *)
(* what it saw is of that template's rollout (DoneIsSeen), or nothing new  *)
(* was seen and a rollout that is owed is raised.  The one status that     *)
(* does not stand is the stored one while the pass that started a rollout  *)
(* has not ended, and its second write replaces it or is Forgotten.        *)
(***************************************************************************)

Passes ==
  [at : {"idle", "deploy", "finish"}, copy : Status, image : Images,
   mounted : Configs \cup {None}, name : Configs \cup {None}, failed : BOOLEAN, behind : BOOLEAN]

Observations ==
  [dep : Deployment, seen : BOOLEAN, failed : BOOLEAN, refused : BOOLEAN,
   unreconciled : BOOLEAN, started : BOOLEAN]

\* The status tells of no rollout.
Quiet(s) == s.progressing # "True"

\* What s says of the pods is true of the stored Deployment.
StandsFor(s) ==
  /\ depCache.tmpl = dep.tmpl
  /\ s.available = "True" => history.done
  /\ s.available = "RolloutFailed" =>
       history.done \/ (dep.deadline /\ dep.rs = dep.tmpl /\ depCache.deadline)

\* A quiet stored status stands for the Deployment, unless the pass under way
\* is about to say that a rollout has started.
StoredStands ==
  /\ ~history.behind /\ Quiet(stored)
  /\ ~(pass.at = "finish" /\ ~Quiet(pass.copy))
  => StandsFor(stored)

\* So does the copy a pass starts from, which read what is mounted.
CopyStands ==
  pass.at = "deploy" /\ ~history.behind /\ Quiet(pass.copy)
    => StandsFor(pass.copy) /\ pass.mounted = dep.tmpl[1]

\* So does the status a pass ends with.
JudgedStands ==
  pass.at = "finish" /\ ~pass.behind =>
    /\ Quiet(pass.copy) => StandsFor(pass.copy)
    /\ pass.copy.ready = "True" => history.done /\ dep.tmpl[1] = pass.copy.config

\* The pass applies the config that is stored.
CopyOfStored ==
  /\ pass.at # "idle" => pass.copy.config = stored.config
  /\ pass.at = "deploy" => /\ pass.name \in {None, pass.copy.config}
                           /\ pass.copy.valid = "True" => pass.name = pass.copy.config

\* Without a config there is no Deployment.
NothingYet ==
  /\ stored.config = None =>
       dep = NoDeployment /\ depCache = NoDeployment /\ stored.available = "none"
  /\ pass.copy.config = None => pass.copy.available = "none"

\* What the Deployment shows, and the cache shows of the same template, is of
\* that template's rollout once it is observed.
DoneIsSeen ==
  /\ Complete => history.done
  /\ dep.observed => dep.rs = dep.tmpl
  /\ depCache.tmpl = dep.tmpl /\ depCache.observed =>
       /\ depCache.pods = "all" /\ depCache.available => history.done
       /\ depCache.deadline => dep.rs = dep.tmpl /\ (dep.deadline \/ history.done)

MissedIsSeen ==
  /\ dep.deadline => dep.tmpl # NoTemplate
  /\ dep.deadline /\ dep.observed => dep.tmpl \in history.missed
  /\ depCache.deadline /\ depCache.observed => depCache.tmpl \in history.missed
  /\ stored.available = "RolloutFailed" => stored.failedOf \in history.missed
  /\ pass.copy.available = "RolloutFailed" => pass.copy.failedOf \in history.missed

RolloutInv ==
  /\ RolloutTypeOK
  /\ StoredStands /\ CopyStands /\ JudgedStands
  /\ CopyOfStored /\ NothingYet /\ DoneIsSeen /\ MissedIsSeen
  /\ ReadyMeansRolledOut

-----------------------------------------------------------------------------
(* How a pass judges the Deployment.                                       *)

\* The status s as it goes on after r: the fields a rollout is not judged by.
SameInputs(r, s) ==
  r.config = s.config /\ r.valid = s.valid /\ r.plugins = s.plugins /\ r.controlled = s.controlled

SameReport(r, s) ==
  r.progressing = s.progressing /\ r.available = s.available /\ r.failedOf = s.failedOf

\* setGatewayReadiness leaves the conditions alone, and Ready needs them all.
LEMMA Readied ==
  ASSUME NEW s \in Status
  PROVE  /\ WithReadiness(s) \in Status
         /\ SameInputs(WithReadiness(s), s) /\ SameReport(WithReadiness(s), s)
         /\ WithReadiness(s).ready = "True" =>
              ~Broken(s) /\ s.valid = "True" /\ Quiet(s) /\ s.available = "True"
<1> DEFINE a == Readiness(s)[1]
           b == Readiness(s)[2]
<1>1. a \in {"True", "False", "Unknown"} /\ b \in {"Pending", "Deploying", "Running", "Degraded", "Error"}
  BY DEF Readiness, ServingPhase
<1>2. a = "True" => ~Broken(s) /\ s.valid = "True" /\ Quiet(s) /\ s.available = "True"
  <2>1. CASE Broken(s) \/ s.license = "fallback" \/ s.valid = "none"
    BY <2>1 DEF Readiness
  <2>2. CASE s.valid = "Unknown"
    BY <2>2 DEF Readiness
  <2>3. CASE s.progressing = "True" \/ s.available # "True"
    BY <2>3 DEF Readiness
  <2>4. CASE ~Broken(s) /\ s.valid = "False"
    BY <2>4 DEF Broken
  <2> QED BY <2>1, <2>2, <2>3, <2>4 DEF Status, Quiet
<1>3. WithReadiness(s) = [s EXCEPT !.ready = a, !.phase = b]
  BY DEF WithReadiness
<1> HIDE DEF a, b
<1> DEFINE t == [s EXCEPT !.ready = a]
<1>4. t \in Status /\ SameInputs(t, s) /\ SameReport(t, s) /\ t.ready = a
  BY <1>1 DEF Status, SameInputs, SameReport
<1>5. WithReadiness(s) = [t EXCEPT !.phase = b]
  BY <1>3
<1> HIDE DEF t
<1>6. /\ WithReadiness(s) \in Status /\ WithReadiness(s).ready = t.ready
      /\ SameInputs(WithReadiness(s), t) /\ SameReport(WithReadiness(s), t)
  BY <1>1, <1>4, <1>5 DEF Status, SameInputs, SameReport
<1> QED BY <1>2, <1>4, <1>6 DEF SameInputs, SameReport

\* resetRolloutFailedAvailability.
LEMMA Resetting ==
  ASSUME NEW s \in Status, NEW d
  PROVE  LET r == ResetRolloutFailed(s, d)
         IN /\ r \in Status /\ SameInputs(r, s) /\ r.progressing = s.progressing
            /\ \/ s.available # "RolloutFailed" /\ SameReport(r, s)
               \/ s.available = "RolloutFailed" /\ r.available \in {"True", "none"}
<1>1. CASE s.available # "RolloutFailed"
  BY <1>1 DEF ResetRolloutFailed, SameInputs, SameReport
<1>2. CASE s.available = "RolloutFailed"
  <2> DEFINE v == IF d.cond = "True" THEN "True" ELSE "none"
  <2>1. v \in {"True", "none"}
    OBVIOUS
  <2>2. ResetRolloutFailed(s, d) = [s EXCEPT !.available = v, !.failedOf = NoTemplate]
    BY <1>2 DEF ResetRolloutFailed
  <2> HIDE DEF v
  <2> QED BY <1>2, <2>1, <2>2 DEF Status, SameInputs
<1> QED BY <1>1, <1>2

\* raiseOwed.
LEMMA Raising ==
  ASSUME NEW s \in Status, NEW obs
  PROVE  LET r == RaiseOwed(s, obs)
         IN /\ r \in Status /\ SameInputs(r, s)
            /\ r.available = s.available /\ r.failedOf = s.failedOf
            /\ Quiet(r) => Quiet(s) /\ ~Owed(obs)
            /\ ~Quiet(s) => ~Quiet(r)
BY DEF RaiseOwed, Status, Quiet, SameInputs

\* What inspectDeploymentStatus may find, with the Deployment d it judges.
NothingNew(r, s, obs) ==
  r.available = s.available /\ r.failedOf = s.failedOf /\ (Quiet(r) => Quiet(s) /\ ~Owed(obs))

FoundFailed(r, d) ==
  FailedRolloutApplies(d) /\ d.tmpl # NoTemplate /\ r.available = "RolloutFailed" /\ r.failedOf = d.tmpl

FoundDone(r, d, want) == DeploymentConverged(d, want) /\ r.available = "True"

GoesOn(r, s, obs, d, want) ==
  /\ ~(FailedRolloutApplies(d) /\ (obs.seen => d.tmpl = want))
  /\ \/ s.available # "RolloutFailed" /\ r.available = s.available
     \/ s.available = "RolloutFailed" /\ r.available \in {"True", "none"}
  /\ Quiet(r) => Quiet(s) /\ ~RolloutInFlight(obs, want) /\ ~Owed(obs)

LEMMA Inspecting ==
  ASSUME RolloutTypeOK, NEW s \in Status, NEW obs \in Observations, NEW want
  PROVE  LET d == IF obs.seen THEN obs.dep ELSE depCache
             r == InspectDeploymentStatus(s, obs, want)
         IN /\ r \in Status /\ SameInputs(r, s)
            /\ d.tmpl = NoTemplate \/ obs.failed => NothingNew(r, s, obs)
            /\ d.tmpl # NoTemplate /\ ~obs.failed =>
                 \/ FoundFailed(r, d) \/ r.available = "Lost" \/ FoundDone(r, d, want)
                 \/ GoesOn(r, s, obs, d, want)
            /\ obs.seen /\ obs.started /\ d.tmpl # NoTemplate /\ ~obs.failed /\ ~d.observed => ~Quiet(r)
<1> DEFINE d == IF obs.seen THEN obs.dep ELSE depCache
           r == InspectDeploymentStatus(s, obs, want)
           reset  == ResetRolloutFailed(s, d)
           done   == pass.name # None /\ DeploymentConverged(d, want)
           moving == IF done THEN "False"
                     ELSE IF RolloutInFlight(obs, want) THEN "True" ELSE s.progressing
           judged == [reset EXCEPT !.progressing = moving]
           raised == RaiseOwed(judged, obs)
           failed == FailedRolloutApplies(d) /\ (obs.seen => d.tmpl = want)
           lost   == d.cond = "False" /\ (done \/ moving # "True")
<1>0. r = IF d.tmpl = NoTemplate \/ obs.failed THEN RaiseOwed(s, obs)
          ELSE IF failed
            THEN [s EXCEPT !.progressing = "False", !.available = "RolloutFailed", !.failedOf = d.tmpl]
          ELSE IF lost THEN [judged EXCEPT !.available = "Lost"]
          ELSE IF done THEN [raised EXCEPT !.available = "True"]
          ELSE raised
  BY DEF InspectDeploymentStatus
<1>1. d \in Deployment
  BY DEF Observations, RolloutTypeOK
<1>2. /\ reset \in Status /\ SameInputs(reset, s)
      /\ \/ s.available # "RolloutFailed" /\ SameReport(reset, s)
         \/ s.available = "RolloutFailed" /\ reset.available \in {"True", "none"}
  BY Resetting
<1>3. /\ moving \in {"none", "True", "False"}
      /\ ~done /\ moving # "True" => Quiet(s) /\ ~RolloutInFlight(obs, want)
      /\ ~done /\ RolloutInFlight(obs, want) => moving = "True"
  BY DEF Status, Quiet
<1>4. done => DeploymentConverged(d, want)
  OBVIOUS
<1>5. obs.seen /\ obs.started => RolloutInFlight(obs, want)
  BY DEF RolloutInFlight
<1>6. ~d.observed => ~done /\ ~failed
  BY DEF DeploymentConverged, FailedRolloutApplies
<1>7. failed => FailedRolloutApplies(d)
  OBVIOUS
<1> HIDE DEF r, reset, moving, done, d
<1>8. judged \in Status /\ SameInputs(judged, s) /\ judged.progressing = moving
      /\ judged.available = reset.available
  BY <1>2, <1>3 DEF Status, SameInputs
<1> HIDE DEF judged
<1>9. /\ raised \in Status /\ SameInputs(raised, judged)
      /\ raised.available = judged.available
      /\ Quiet(raised) => Quiet(judged) /\ ~Owed(obs)
      /\ ~Quiet(judged) => ~Quiet(raised)
  BY <1>8, Raising
<1> HIDE DEF raised
<1>10. CASE d.tmpl = NoTemplate \/ obs.failed
  <2>1. r = RaiseOwed(s, obs)
    BY <1>0, <1>10
  <2> QED BY <2>1, <1>10, Raising DEF NothingNew, r, d
<1>11. CASE d.tmpl # NoTemplate /\ ~obs.failed
  <2>1. CASE failed
    <3>1. r = [s EXCEPT !.progressing = "False", !.available = "RolloutFailed", !.failedOf = d.tmpl]
      BY <1>0, <1>11, <2>1
    <3>2. r \in Status /\ SameInputs(r, s) /\ r.available = "RolloutFailed" /\ r.failedOf = d.tmpl
      BY <3>1, <1>1 DEF Status, SameInputs, Deployment
    <3> QED BY <3>2, <1>6, <1>7, <1>11, <2>1 DEF FoundFailed, r, d
  <2>2. CASE ~failed /\ lost
    <3>1. r = [judged EXCEPT !.available = "Lost"]
      BY <1>0, <1>11, <2>2
    <3>2. r \in Status /\ SameInputs(r, s) /\ r.available = "Lost" /\ r.progressing = moving
      BY <3>1, <1>8 DEF Status, SameInputs
    <3>3. obs.seen /\ obs.started /\ ~d.observed => moving = "True"
      BY <1>3, <1>5, <1>6
    <3> QED BY <3>2, <3>3, <1>11 DEF r, d, Quiet
  <2>3. CASE ~failed /\ ~lost /\ done
    <3>1. r = [raised EXCEPT !.available = "True"]
      BY <1>0, <1>11, <2>3
    <3>2. r \in Status /\ SameInputs(r, s) /\ r.available = "True"
      BY <3>1, <1>8, <1>9 DEF Status, SameInputs
    <3> QED BY <3>2, <1>4, <1>6, <1>11, <2>3 DEF r, d, FoundDone
  <2>4. CASE ~failed /\ ~lost /\ ~done
    <3>1. r = raised
      BY <1>0, <1>11, <2>4
    <3>2. r \in Status /\ SameInputs(r, s) /\ r.available = reset.available
      BY <3>1, <1>8, <1>9 DEF SameInputs
    <3>3. Quiet(r) => Quiet(s) /\ ~RolloutInFlight(obs, want) /\ ~Owed(obs)
      BY <3>1, <1>3, <1>8, <1>9, <2>4 DEF Quiet
    <3>4. GoesOn(r, s, obs, d, want)
      BY <3>2, <3>3, <1>2, <2>4 DEF GoesOn, SameReport
    <3> QED BY <3>2, <3>3, <3>4, <1>5, <1>11 DEF r, d
  <2> QED BY <2>1, <2>2, <2>3, <2>4
<1> QED BY <1>10, <1>11

-----------------------------------------------------------------------------
(* The history.                                                            *)

LEMMA HistoryStep ==
  ASSUME RolloutTypeOK, History, dep' \in Deployment, dep'.deadline => dep'.tmpl # NoTemplate
  PROVE  /\ history' \in [done : BOOLEAN, missed : SUBSET Templates, behind : BOOLEAN]
         /\ history.done /\ dep'.tmpl[1] = dep.tmpl[1] => history'.done
         /\ Complete' => history'.done
         /\ history.missed \subseteq history'.missed
         /\ dep'.deadline /\ dep'.observed => dep'.tmpl \in history'.missed
         /\ pass.at # "finish" => (history'.behind <=> history.behind)
         /\ pass.at = "finish" /\ Forgotten => history'.behind
         /\ pass.at = "finish" /\ ~Forgotten /\ stored' # stored => (history'.behind <=> pass.behind)
         /\ pass.at = "finish" /\ ~Forgotten /\ stored' = stored => (history'.behind <=> history.behind)
<1> DEFINE dn == \/ history.done /\ dep'.tmpl[1] = dep.tmpl[1]
                 \/ dep'.observed /\ dep'.pods = "all" /\ dep'.available
           add == IF dep'.deadline /\ dep'.observed THEN {dep'.tmpl} ELSE {}
           bh == IF Forgotten THEN TRUE
                 ELSE IF pass.at = "finish" /\ stored' # stored THEN pass.behind ELSE history.behind
<1>1. history' = [done |-> dn, missed |-> history.missed \cup add, behind |-> bh]
  BY DEF History
<1>2. add \subseteq Templates /\ (dep'.deadline /\ dep'.observed => dep'.tmpl \in add)
  BY DEF Deployment
<1>3. bh \in BOOLEAN
  BY DEF RolloutTypeOK
<1>4. dn \in BOOLEAN
  BY DEF RolloutTypeOK, Deployment
<1>5. /\ Forgotten => bh
      /\ pass.at # "finish" => (bh <=> history.behind)
      /\ pass.at = "finish" /\ ~Forgotten /\ stored' # stored => (bh <=> pass.behind)
      /\ pass.at = "finish" /\ ~Forgotten /\ stored' = stored => (bh <=> history.behind)
  BY DEF Forgotten
<1>6. /\ history.done /\ dep'.tmpl[1] = dep.tmpl[1] => dn
      /\ Complete' => dn
  BY DEF Complete
<1> HIDE DEF dn, add, bh
<1> QED BY <1>1, <1>2, <1>3, <1>4, <1>5, <1>6 DEF RolloutTypeOK

\* A step that leaves the Deployment alone.
LEMMA HistoryKept ==
  ASSUME RolloutInv, History, UNCHANGED dep
  PROVE  /\ history' \in [done : BOOLEAN, missed : SUBSET Templates, behind : BOOLEAN]
         /\ history'.done <=> history.done
         /\ history'.missed = history.missed
<1>1. dep' \in Deployment /\ (dep'.deadline => dep'.tmpl # NoTemplate)
  BY DEF RolloutInv, RolloutTypeOK, MissedIsSeen
<1>2. /\ history' \in [done : BOOLEAN, missed : SUBSET Templates, behind : BOOLEAN]
      /\ history.done => history'.done
  BY <1>1, HistoryStep DEF RolloutInv
<1>3. history'.done => history.done
  BY DEF History, RolloutInv, DoneIsSeen, Complete
<1>4. history'.missed = history.missed
  BY DEF History, RolloutInv, MissedIsSeen, RolloutTypeOK
<1> QED BY <1>2, <1>3, <1>4

-----------------------------------------------------------------------------
(* The Deployment controller, the cluster and the informer.                *)

\* What the Deployment controller and the cluster may make of the Deployment.
LEMMA DeployingKeeps ==
  ASSUME RolloutInv, History, NEW d \in Deployment, Deploying(d), upsets' \in 0..MaxUpsets,
         dep # NoDeployment, d.tmpl = dep.tmpl,
         d.deadline => d.tmpl # NoTemplate,
         d.observed => d.rs = d.tmpl,
         dep.rs = dep.tmpl => d.rs = d.tmpl,
         dep.rs = dep.tmpl /\ dep.deadline => d.deadline \/ (d.observed /\ d.pods = "all" /\ d.available)
  PROVE  RolloutInv'
<1> USE DEF RolloutInv
<1>1. dep' = d /\ UNCHANGED <<wanted, depCache, stored, awake, pass>>
  BY DEF Deploying
<1>2. /\ history' \in [done : BOOLEAN, missed : SUBSET Templates, behind : BOOLEAN]
      /\ history.done => history'.done
      /\ Complete' => history'.done
      /\ history.missed \subseteq history'.missed
      /\ dep'.deadline /\ dep'.observed => dep'.tmpl \in history'.missed
      /\ history'.behind => history.behind
      /\ history.behind => history'.behind
  BY <1>1, HistoryStep DEF Forgotten
<1>3. RolloutTypeOK'
  BY <1>1, <1>2 DEF RolloutTypeOK
<1>4. dep.rs = dep.tmpl /\ dep.deadline => dep'.deadline \/ history'.done
  BY <1>1, <1>2 DEF Complete
<1>5. \A s \in {stored, pass.copy} : StandsFor(s) => StandsFor(s)'
  BY <1>1, <1>2, <1>4 DEF StandsFor
<1>6. StoredStands' /\ CopyStands' /\ JudgedStands'
  BY <1>1, <1>2, <1>5 DEF StoredStands, CopyStands, JudgedStands, Quiet, StandsFor
<1>7. CopyOfStored' /\ NothingYet'
  BY <1>1 DEF CopyOfStored, NothingYet
<1>8. DoneIsSeen'
  BY <1>1, <1>2, <1>4 DEF DoneIsSeen
<1>9. MissedIsSeen'
  BY <1>1, <1>2 DEF MissedIsSeen
<1>10. ReadyMeansRolledOut'
  BY <1>1, <1>2 DEF ReadyMeansRolledOut
<1> QED BY <1>3, <1>6, <1>7, <1>8, <1>9, <1>10

LEMMA Upset_Type ==
  ASSUME RolloutTypeOK, Upset \/ UNCHANGED upsets
  PROVE  upsets' \in 0..MaxUpsets
BY RolloutAssumption DEF RolloutTypeOK, Upset

LEMMA ObserveSpec_Inv ==
  ASSUME RolloutInv, ObserveSpec, History
  PROVE  RolloutInv'
<1>1. dep \in Deployment /\ ~dep.observed /\ upsets' \in 0..MaxUpsets /\ (dep.deadline => dep.tmpl # NoTemplate)
  BY Upset_Type DEF RolloutInv, RolloutTypeOK, ObserveSpec, MissedIsSeen
<1>2. dep # NoDeployment
  BY <1>1 DEF NoDeployment
<1>3. CASE dep.rs = dep.tmpl
  <2> DEFINE d == [dep EXCEPT !.observed = TRUE, !.pods = "few"]
  <2>1. Deploying(d)
    BY <1>3 DEF ObserveSpec
  <2>2. d \in Deployment /\ d.tmpl = dep.tmpl /\ d.rs = dep.rs /\ d.deadline = dep.deadline
    BY <1>1 DEF Deployment
  <2> HIDE DEF d
  <2> QED BY <2>1, <2>2, <1>1, <1>2, <1>3, DeployingKeeps
<1>4. CASE dep.rs # dep.tmpl
  <2>1. PICK c \in {"True", "False"} :
          Deploying([dep EXCEPT !.observed = TRUE, !.rs = dep.tmpl, !.available = FALSE,
                       !.pods = IF dep.rs = NoTemplate THEN "few" ELSE "mixed",
                       !.cond = c, !.deadline = FALSE])
    BY <1>4 DEF ObserveSpec
  <2> DEFINE p == IF dep.rs = NoTemplate THEN "few" ELSE "mixed"
             d == [dep EXCEPT !.observed = TRUE, !.rs = dep.tmpl, !.available = FALSE,
                       !.pods = p, !.cond = c, !.deadline = FALSE]
  <2>2. p \in {"few", "mixed"}
    OBVIOUS
  <2>3. Deploying(d)
    BY <2>1
  <2> HIDE DEF p
  <2>4. d \in Deployment /\ d.tmpl = dep.tmpl /\ d.rs = dep.tmpl /\ d.deadline = FALSE
    BY <1>1, <2>2 DEF Deployment
  <2> HIDE DEF d
  <2> QED BY <2>3, <2>4, <1>1, <1>2, <1>4, DeployingKeeps
<1> QED BY <1>3, <1>4

LEMMA CompleteRollout_Inv ==
  ASSUME RolloutInv, CompleteRollout, History
  PROVE  RolloutInv'
<1> DEFINE d == [dep EXCEPT !.pods = "all", !.available = TRUE, !.cond = "True", !.deadline = FALSE]
<1>1. dep \in Deployment /\ dep.tmpl # NoTemplate /\ dep.observed /\ Deploying(d) /\ upsets' \in 0..MaxUpsets
      /\ (dep.observed => dep.rs = dep.tmpl)
  BY Upset_Type DEF RolloutInv, RolloutTypeOK, CompleteRollout, DoneIsSeen
<1>2. dep # NoDeployment
  BY <1>1 DEF NoDeployment
<1>3. d \in Deployment /\ d.tmpl = dep.tmpl /\ d.rs = dep.rs /\ d.observed = dep.observed
      /\ d.pods = "all" /\ d.available
  BY <1>1 DEF Deployment
<1> HIDE DEF d
<1> QED BY <1>1, <1>2, <1>3, DeployingKeeps

LEMMA MissDeadline_Inv ==
  ASSUME RolloutInv, MissDeadline, History
  PROVE  RolloutInv'
<1> DEFINE d == [dep EXCEPT !.deadline = TRUE]
<1>1. dep \in Deployment /\ dep.tmpl # NoTemplate /\ Deploying(d) /\ upsets' \in 0..MaxUpsets
      /\ (dep.observed => dep.rs = dep.tmpl)
  BY Upset_Type DEF RolloutInv, RolloutTypeOK, MissDeadline, DoneIsSeen
<1>2. dep # NoDeployment
  BY <1>1 DEF NoDeployment
<1>3. d \in Deployment /\ d.tmpl = dep.tmpl /\ d.rs = dep.rs /\ d.observed = dep.observed /\ d.deadline
  BY <1>1 DEF Deployment
<1> HIDE DEF d
<1> QED BY <1>1, <1>2, <1>3, DeployingKeeps

LEMMA LosePods_Inv ==
  ASSUME RolloutInv, LosePods, History
  PROVE  RolloutInv'
<1> DEFINE d == [dep EXCEPT !.available = FALSE, !.cond = "False"]
<1>1. dep \in Deployment /\ dep.available /\ Deploying(d) /\ upsets' \in 0..MaxUpsets
      /\ (dep.observed => dep.rs = dep.tmpl) /\ (dep.deadline => dep.tmpl # NoTemplate)
  BY Upset_Type DEF RolloutInv, RolloutTypeOK, LosePods, DoneIsSeen, MissedIsSeen
<1>2. dep # NoDeployment
  BY <1>1 DEF NoDeployment
<1>3. d \in Deployment /\ d.tmpl = dep.tmpl /\ d.rs = dep.rs /\ d.observed = dep.observed
      /\ d.deadline = dep.deadline
  BY <1>1 DEF Deployment
<1> HIDE DEF d
<1> QED BY <1>1, <1>2, <1>3, DeployingKeeps

LEMMA Scale_Inv ==
  ASSUME RolloutInv, Scale, History
  PROVE  RolloutInv'
<1> DEFINE d == [dep EXCEPT !.observed = FALSE]
<1>1. dep \in Deployment /\ dep.tmpl # NoTemplate /\ Deploying(d) /\ upsets' \in 0..MaxUpsets
  BY Upset_Type DEF RolloutInv, RolloutTypeOK, Scale
<1>2. dep # NoDeployment
  BY <1>1 DEF NoDeployment
<1>3. d \in Deployment /\ d.tmpl = dep.tmpl /\ d.rs = dep.rs /\ d.observed = FALSE
      /\ d.deadline = dep.deadline
  BY <1>1 DEF Deployment
<1> HIDE DEF d
<1> QED BY <1>1, <1>2, <1>3, DeployingKeeps

LEMMA DeliverDeployment_Inv ==
  ASSUME RolloutInv, DeliverDeployment, History
  PROVE  RolloutInv'
<1> USE DEF RolloutInv
<1>1. depCache' = dep /\ awake' = TRUE /\ UNCHANGED <<wanted, dep, stored, pass, upsets>>
  BY DEF DeliverDeployment
<1>2. /\ history' \in [done : BOOLEAN, missed : SUBSET Templates, behind : BOOLEAN]
      /\ history'.done <=> history.done
      /\ history'.missed = history.missed
  BY <1>1, HistoryKept
<1>3. history'.behind <=> history.behind
  BY <1>1, HistoryStep DEF Forgotten, RolloutTypeOK, MissedIsSeen
<1>4. RolloutTypeOK'
  BY <1>1, <1>2 DEF RolloutTypeOK
<1>5. \A s \in {stored, pass.copy} : StandsFor(s) => StandsFor(s)'
  BY <1>1, <1>2 DEF StandsFor
<1>6. StoredStands' /\ CopyStands' /\ JudgedStands'
  BY <1>1, <1>2, <1>3, <1>5 DEF StoredStands, CopyStands, JudgedStands, Quiet, StandsFor
<1>7. CopyOfStored' /\ NothingYet'
  BY <1>1 DEF CopyOfStored, NothingYet
<1>8. DoneIsSeen' /\ MissedIsSeen'
  BY <1>1, <1>2 DEF DoneIsSeen, MissedIsSeen, Complete
<1>9. ReadyMeansRolledOut'
  BY <1>1, <1>2, <1>3 DEF ReadyMeansRolledOut
<1> QED BY <1>4, <1>6, <1>7, <1>8, <1>9

LEMMA ChangeWanted_Inv ==
  ASSUME RolloutInv, ChangeWanted, History
  PROVE  RolloutInv'
<1> USE DEF RolloutInv
<1>1. UNCHANGED <<dep, depCache, stored, pass>> /\ upsets' \in 0..MaxUpsets /\ awake' \in BOOLEAN
  BY Upset_Type DEF ChangeWanted, RolloutTypeOK
<1>2. /\ history' \in [done : BOOLEAN, missed : SUBSET Templates, behind : BOOLEAN]
      /\ history'.done <=> history.done
      /\ history'.missed = history.missed
  BY <1>1, HistoryKept
<1>3. history'.behind <=> history.behind
  BY <1>1, HistoryStep DEF Forgotten, RolloutTypeOK, MissedIsSeen
<1>4. wanted' \in [config : Configs, image : Images, license : {"fine", "expired", "fallback"},
                   plugins : BOOLEAN, refused : {"none", "sa", "dep"}]
  BY DEF ChangeWanted, RolloutTypeOK
<1>5. RolloutTypeOK'
  BY <1>1, <1>2, <1>4 DEF RolloutTypeOK
<1>6. \A s \in {stored, pass.copy} : StandsFor(s) <=> StandsFor(s)'
  BY <1>1, <1>2 DEF StandsFor
<1>7. StoredStands' /\ CopyStands' /\ JudgedStands'
  BY <1>1, <1>2, <1>3, <1>6 DEF StoredStands, CopyStands, JudgedStands, Quiet, StandsFor
<1>8. CopyOfStored' /\ NothingYet'
  BY <1>1 DEF CopyOfStored, NothingYet
<1>9. DoneIsSeen' /\ MissedIsSeen'
  BY <1>1, <1>2 DEF DoneIsSeen, MissedIsSeen, Complete
<1>10. ReadyMeansRolledOut'
  BY <1>1, <1>2, <1>3 DEF ReadyMeansRolledOut
<1> QED BY <1>5, <1>7, <1>8, <1>9, <1>10

-----------------------------------------------------------------------------
(* The ends of a pass.                                                     *)

LEMMA IdleRolloutTyped ==
  ASSUME RolloutTypeOK
  PROVE  /\ IdleRollout \in Passes /\ IdleRollout.at = "idle" /\ IdleRollout.copy = stored
         /\ \A t \in Status : LET p == [IdleRollout EXCEPT !.copy = t]
                              IN p \in Passes /\ p.at = "idle" /\ p.copy = t
<1> DEFINE i0 == CHOOSE i \in Images : TRUE
<1>1. i0 \in Images
  BY DEF RolloutTypeOK
<1>2. IdleRollout = [at |-> "idle", copy |-> stored, image |-> i0, mounted |-> None, name |-> None,
                     failed |-> FALSE, behind |-> FALSE]
  BY DEF IdleRollout
<1> HIDE DEF i0
<1>3. IdleRollout \in Passes /\ IdleRollout.at = "idle" /\ IdleRollout.copy = stored
  BY <1>1, <1>2 DEF Passes, RolloutTypeOK
<1> QED BY <1>3 DEF Passes

\* The pass ends, with the status it found or the one it judged.
LEMMA PassOver ==
  ASSUME RolloutInv, History, pass.at # "idle", UNCHANGED <<wanted, dep, depCache>>,
         pass' \in Passes, pass'.at = "idle", pass'.copy = stored',
         awake' \in BOOLEAN, upsets' \in 0..MaxUpsets,
         stored' = stored \/ (pass.at = "finish" /\ stored' = pass.copy)
  PROVE  RolloutInv'
<1> USE DEF RolloutInv
<1>1. /\ history' \in [done : BOOLEAN, missed : SUBSET Templates, behind : BOOLEAN]
      /\ history'.done <=> history.done
      /\ history'.missed = history.missed
  BY HistoryKept
<1>2. dep' \in Deployment /\ (dep'.deadline => dep'.tmpl # NoTemplate)
  BY DEF RolloutTypeOK, MissedIsSeen
<1>3. /\ pass.at # "finish" => (history'.behind <=> history.behind)
      /\ pass.at = "finish" /\ Forgotten => history'.behind
      /\ pass.at = "finish" /\ ~Forgotten /\ stored' # stored => (history'.behind <=> pass.behind)
      /\ pass.at = "finish" /\ ~Forgotten /\ stored' = stored => (history'.behind <=> history.behind)
  BY <1>2, HistoryStep
<1>4. stored' \in Status
  BY DEF RolloutTypeOK, Passes
<1>5. RolloutTypeOK'
  BY <1>1, <1>2, <1>4 DEF RolloutTypeOK, Passes
<1>6. \A s : StandsFor(s) => /\ dep'.deadline = dep.deadline
                             /\ depCache'.tmpl = dep'.tmpl
                             /\ s.available = "True" => history'.done
                             /\ s.available = "RolloutFailed" =>
                                  history'.done \/ (dep'.deadline /\ dep'.rs = dep'.tmpl /\ depCache'.deadline)
  BY <1>1 DEF StandsFor
<1>7. StoredStands' /\ ReadyMeansRolledOut'
  <2>1. CASE stored' = stored
    <3>1. pass.at = "finish" /\ ~Quiet(pass.copy) /\ Quiet(stored) => history'.behind
      BY <2>1, <1>3 DEF Forgotten, Quiet
    <3>2. ~history'.behind => ~history.behind \/ (pass.at = "finish" /\ Forgotten)
      BY <2>1, <1>3 DEF RolloutTypeOK
    <3>3. ~history'.behind => ~history.behind
      BY <3>2, <1>3
    <3>4. ~history'.behind /\ Quiet(stored) => StandsFor(stored)
      BY <3>1, <3>3 DEF StoredStands
    <3>5. StoredStands'
      BY <3>4, <2>1, <1>6 DEF StoredStands, StandsFor, Quiet
    <3>6. ReadyMeansRolledOut'
      BY <3>3, <2>1, <1>1 DEF ReadyMeansRolledOut
    <3> QED BY <3>5, <3>6
  <2>2. CASE stored' # stored
    <3>1. pass.at = "finish" /\ stored' = pass.copy /\ ~Forgotten
      BY <2>2 DEF Forgotten
    <3>2. ~history'.behind => ~pass.behind
      BY <3>1, <2>2, <1>3
    <3>3. /\ ~history'.behind /\ Quiet(pass.copy) => StandsFor(pass.copy)
          /\ ~history'.behind /\ pass.copy.ready = "True" => history.done /\ dep.tmpl[1] = pass.copy.config
      BY <3>1, <3>2 DEF JudgedStands
    <3>4. StoredStands'
      BY <3>1, <3>3, <1>6 DEF StoredStands, StandsFor, Quiet
    <3>5. ReadyMeansRolledOut'
      BY <3>1, <3>3, <1>1 DEF ReadyMeansRolledOut
    <3> QED BY <3>4, <3>5
  <2> QED BY <2>1, <2>2
<1>8. CopyStands' /\ JudgedStands' /\ CopyOfStored'
  BY DEF CopyStands, JudgedStands, CopyOfStored
<1>9. NothingYet'
  BY DEF NothingYet, CopyOfStored
<1>10. DoneIsSeen' /\ MissedIsSeen'
  BY <1>1 DEF DoneIsSeen, MissedIsSeen, Complete
<1> QED BY <1>5, <1>7, <1>8, <1>9, <1>10

LEMMA FinishRollout_Inv ==
  ASSUME RolloutInv, FinishRollout, History
  PROVE  RolloutInv'
<1>1. /\ pass.at = "finish" /\ pass' = [IdleRollout EXCEPT !.copy = stored']
      /\ UNCHANGED <<wanted, dep, depCache>> /\ awake' \in BOOLEAN
      /\ stored' = stored \/ stored' = pass.copy
  BY DEF FinishRollout, RolloutInv, RolloutTypeOK
<1>2. upsets' \in 0..MaxUpsets
  BY Upset_Type DEF FinishRollout, RolloutInv
<1>3. stored' \in Status
  BY <1>1 DEF RolloutInv, RolloutTypeOK
<1>4. pass' \in Passes /\ pass'.at = "idle" /\ pass'.copy = stored'
  BY <1>1, <1>3, IdleRolloutTyped DEF RolloutInv
<1> QED BY <1>1, <1>2, <1>4, PassOver

LEMMA CrashRollout_Inv ==
  ASSUME RolloutInv, CrashRollout, History
  PROVE  RolloutInv'
<1>1. /\ pass.at # "idle" /\ pass' = IdleRollout /\ UNCHANGED <<wanted, dep, depCache, stored>>
      /\ awake' = TRUE /\ upsets' \in 0..MaxUpsets
  BY Upset_Type DEF CrashRollout, RolloutInv
<1>2. pass' \in Passes /\ pass'.at = "idle" /\ pass'.copy = stored'
  BY <1>1, IdleRolloutTyped DEF RolloutInv
<1> QED BY <1>1, <1>2, PassOver

-----------------------------------------------------------------------------
(* The config stage.                                                       *)

\* The copy t differs from the stored status in what the pass read and judged.
LEMMA ReadingTyped ==
  ASSUME RolloutTypeOK
  PROVE  /\ Reading \in Passes /\ Reading.at = "deploy" /\ Reading.mounted = depCache.tmpl[1]
         /\ Reading.name = None
         /\ Reading.copy.config = stored.config /\ Reading.copy.valid = stored.valid
         /\ SameReport(Reading.copy, stored)
<1> DEFINE pl == IF wanted.plugins THEN "True" ELSE "False"
           c1 == [stored EXCEPT !.license = wanted.license]
           c2 == [c1 EXCEPT !.plugins = pl]
           p1 == [IdleRollout EXCEPT !.at = "deploy", !.mounted = depCache.tmpl[1], !.image = wanted.image]
           p2 == [p1 EXCEPT !.copy = c1]
           p3 == [p2 EXCEPT !.copy = c2]
<1>1. /\ IdleRollout \in Passes /\ IdleRollout.copy = stored /\ IdleRollout.name = None
      /\ stored \in Status
      /\ depCache.tmpl[1] \in Configs \cup {None} /\ wanted.image \in Images
      /\ wanted.license \in {"fine", "expired", "fallback"} /\ pl \in {"True", "False"}
  BY IdleRolloutTyped DEF IdleRollout, RolloutTypeOK, Deployment, Templates, NoTemplate
<1> HIDE DEF pl
<1>2. c1 \in Status /\ c1.config = stored.config /\ c1.valid = stored.valid /\ SameReport(c1, stored)
  BY <1>1 DEF Status, SameReport
<1>3. p1 \in Passes /\ p1.at = "deploy" /\ p1.name = None /\ p1.mounted = depCache.tmpl[1] /\ p1.copy = stored
  BY <1>1 DEF Passes
<1>4. Reading = [[p1 EXCEPT !.copy.license = wanted.license] EXCEPT !.copy.plugins = pl]
  BY DEF Reading, pl
<1> HIDE DEF p1
<1>5. [p1 EXCEPT !.copy.license = wanted.license] = p2
  BY <1>3
<1>6. p2 \in Passes /\ p2.at = "deploy" /\ p2.name = None /\ p2.mounted = depCache.tmpl[1] /\ p2.copy = c1
  BY <1>2, <1>3 DEF Passes
<1> HIDE DEF p2, c1
<1>7. [p2 EXCEPT !.copy.plugins = pl] = p3
  BY <1>6
<1>8. c2 \in Status /\ c2.config = c1.config /\ c2.valid = c1.valid /\ SameReport(c2, c1)
  BY <1>1, <1>2 DEF Status, SameReport
<1> HIDE DEF c2
<1>9. p3 \in Passes /\ p3.at = "deploy" /\ p3.name = None /\ p3.mounted = depCache.tmpl[1] /\ p3.copy = c2
  BY <1>6, <1>8 DEF Passes
<1> QED BY <1>2, <1>4, <1>5, <1>7, <1>8, <1>9 DEF SameReport

\* A pass has begun: the stored status is as it was, or says that a rollout is
\* starting.
LEMMA PassBegun ==
  ASSUME RolloutInv, History, pass.at = "idle", UNCHANGED <<wanted, dep, depCache>>,
         pass' \in Passes, pass'.at = "deploy", pass'.mounted = depCache.tmpl[1],
         SameReport(pass'.copy, stored), pass'.copy.config = stored'.config,
         pass'.name \in {None, pass'.copy.config},
         pass'.copy.valid = "True" => pass'.name = pass'.copy.config,
         awake' \in BOOLEAN, upsets' \in 0..MaxUpsets,
         \/ stored' = stored
         \/ /\ stored' \in Status /\ stored'.config # None /\ stored'.progressing = "True"
            /\ stored'.ready # "True" /\ stored'.available = stored.available /\ stored'.failedOf = stored.failedOf
  PROVE  RolloutInv'
<1> USE DEF RolloutInv
<1>1. /\ history' \in [done : BOOLEAN, missed : SUBSET Templates, behind : BOOLEAN]
      /\ history'.done <=> history.done
      /\ history'.missed = history.missed
  BY HistoryKept
<1>2. dep' \in Deployment /\ (dep'.deadline => dep'.tmpl # NoTemplate)
  BY DEF RolloutTypeOK, MissedIsSeen
<1>3. history'.behind <=> history.behind
  BY <1>2, HistoryStep
<1>4. RolloutTypeOK'
  BY <1>1, <1>2 DEF RolloutTypeOK, Passes
<1>5. \A s : SameReport(s, stored) /\ Quiet(s) /\ ~history.behind =>
               Quiet(stored) /\ StandsFor(stored) /\ s.available = stored.available
  BY DEF StoredStands, SameReport, Quiet
<1>6. CopyStands'
  <2>1. ~history.behind /\ Quiet(pass'.copy) => StandsFor(stored) /\ pass'.copy.available = stored.available
    BY <1>5
  <2> QED BY <2>1, <1>1, <1>3 DEF CopyStands, StandsFor, Quiet
<1>7. StoredStands'
  <2>1. CASE stored' = stored
    <3>1. ~history.behind /\ Quiet(stored) => StandsFor(stored)
      BY DEF StoredStands
    <3> QED BY <3>1, <2>1, <1>1, <1>3 DEF StoredStands, StandsFor, Quiet
  <2>2. CASE stored'.progressing = "True"
    BY <2>2 DEF StoredStands, Quiet
  <2> QED BY <2>1, <2>2
<1>8. JudgedStands' /\ CopyOfStored'
  BY DEF JudgedStands, CopyOfStored
<1>9. NothingYet'
  BY DEF NothingYet, SameReport
<1>10. DoneIsSeen'
  BY <1>1 DEF DoneIsSeen, Complete
<1>11. MissedIsSeen'
  BY <1>1 DEF MissedIsSeen, SameReport
<1>12. ReadyMeansRolledOut'
  BY <1>1, <1>3 DEF ReadyMeansRolledOut
<1> QED BY <1>4, <1>6, <1>7, <1>8, <1>9, <1>10, <1>11, <1>12

\* The pass keeps the stored config under the verdict v, or has none to mount.
LEMMA Keeping ==
  ASSUME RolloutInv, History, pass.at = "idle", UNCHANGED <<wanted, dep, depCache, stored>>,
         NEW v \in {"none", "True", "False", "Unknown"}, NEW n \in {None, stored.config}, NEW f \in BOOLEAN,
         v = "True" => n = stored.config,
         pass' = [Reading EXCEPT !.copy.valid = v, !.name = n, !.failed = f],
         awake' \in BOOLEAN, upsets' \in 0..MaxUpsets
  PROVE  RolloutInv'
<1> DEFINE c == [Reading.copy EXCEPT !.valid = v]
           p == [Reading EXCEPT !.copy = c]
<1>1. /\ Reading \in Passes /\ Reading.at = "deploy" /\ Reading.mounted = depCache.tmpl[1]
      /\ Reading.copy.config = stored.config /\ SameReport(Reading.copy, stored)
  BY ReadingTyped DEF RolloutInv
<1>2. c \in Status /\ c.config = stored.config /\ SameReport(c, stored) /\ c.valid = v
  BY <1>1 DEF Passes, Status, SameReport
<1>3. pass' = [p EXCEPT !.name = n, !.failed = f]
  OBVIOUS
<1> HIDE DEF c
<1>4. p \in Passes /\ p.at = "deploy" /\ p.mounted = depCache.tmpl[1] /\ p.copy = c
  BY <1>1, <1>2 DEF Passes
<1>5. n \in Configs \cup {None}
  BY DEF RolloutInv, RolloutTypeOK, Status
<1> HIDE DEF p
<1>6. /\ pass' \in Passes /\ pass'.at = "deploy" /\ pass'.mounted = depCache.tmpl[1] /\ pass'.copy = c
      /\ pass'.name = n
  BY <1>3, <1>4, <1>5 DEF Passes
<1> QED BY <1>2, <1>6, PassBegun

\* recordApplied.
LEMMA Recording ==
  ASSUME RolloutInv, History, pass.at = "idle", UNCHANGED <<wanted, dep, depCache>>,
         LET applied == [Reading.copy EXCEPT !.config = wanted.config, !.valid = "True"]
         IN /\ pass' = [Reading EXCEPT !.copy = applied, !.name = wanted.config]
            /\ stored' = WithReadiness([applied EXCEPT !.progressing = "True"]),
         awake' \in BOOLEAN, upsets' \in 0..MaxUpsets
  PROVE  RolloutInv'
<1> DEFINE c == [Reading.copy EXCEPT !.config = wanted.config, !.valid = "True"]
           t == [c EXCEPT !.progressing = "True"]
<1>1. /\ Reading \in Passes /\ Reading.at = "deploy" /\ Reading.mounted = depCache.tmpl[1]
      /\ SameReport(Reading.copy, stored)
  BY ReadingTyped DEF RolloutInv
<1>2. wanted.config \in Configs /\ wanted.config # None
  BY RolloutAssumption DEF RolloutInv, RolloutTypeOK, None
<1>3. pass' = [Reading EXCEPT !.copy = c, !.name = wanted.config] /\ stored' = WithReadiness(t)
  OBVIOUS
<1>4. c \in Status /\ c.config = wanted.config /\ SameReport(c, stored)
  BY <1>1, <1>2 DEF Passes, Status, SameReport
<1> HIDE DEF c
<1>5. t \in Status /\ t.config = c.config /\ t.progressing = "True" /\ t.available = c.available
      /\ t.failedOf = c.failedOf
  BY <1>4 DEF Status
<1> HIDE DEF t
<1>6. /\ stored' \in Status /\ stored'.config = t.config /\ stored'.progressing = "True"
      /\ stored'.available = t.available /\ stored'.failedOf = t.failedOf /\ stored'.ready # "True"
  BY <1>3, <1>5, Readied DEF SameInputs, SameReport, Quiet
<1>7. /\ pass' \in Passes /\ pass'.at = "deploy" /\ pass'.mounted = depCache.tmpl[1] /\ pass'.copy = c
      /\ pass'.name = wanted.config
  BY <1>1, <1>2, <1>3, <1>4 DEF Passes
<1> QED BY <1>2, <1>4, <1>5, <1>6, <1>7, PassBegun DEF SameReport

LEMMA BeginRollout_Inv ==
  ASSUME RolloutInv, BeginRollout, History
  PROVE  RolloutInv'
<1>1. pass.at = "idle" /\ awake' = FALSE /\ UNCHANGED <<wanted, dep, depCache>>
  BY DEF BeginRollout
<1>2. upsets' \in 0..MaxUpsets
  BY Upset_Type DEF BeginRollout, RolloutInv
<1>3. stored.valid \in {"none", "True", "False", "Unknown"} /\ stored \in Status
  BY DEF RolloutInv, RolloutTypeOK, Status
<1>4. ASSUME NEW v \in {"none", "True", "False", "Unknown"}, NEW f \in BOOLEAN, Keep(v, f)
      PROVE  RolloutInv'
  <2>1. pass' = [Reading EXCEPT !.copy.valid = v, !.name = stored.config, !.failed = f] /\ UNCHANGED stored
    BY <1>4 DEF Keep
  <2> QED BY <2>1, <1>1, <1>2, Keeping
<1>5. CASE \/ Keep("False", FALSE) \/ Keep("True", FALSE) \/ Keep("Unknown", TRUE) \/ Keep(stored.valid, TRUE)
  BY <1>3, <1>4, <1>5
<1>6. CASE pass' = [Reading EXCEPT !.copy.valid = "Unknown", !.failed = TRUE] /\ UNCHANGED stored
  <2> DEFINE c == [Reading.copy EXCEPT !.valid = "Unknown"]
  <2>1. /\ Reading \in Passes /\ Reading.at = "deploy" /\ Reading.mounted = depCache.tmpl[1]
        /\ Reading.copy.config = stored.config /\ SameReport(Reading.copy, stored) /\ Reading.name = None
    BY ReadingTyped DEF RolloutInv
  <2>2. c \in Status /\ c.config = stored.config /\ SameReport(c, stored) /\ c.valid = "Unknown"
    BY <2>1 DEF Passes, Status, SameReport
  <2>3. pass' = [Reading EXCEPT !.copy = c, !.failed = TRUE]
    BY <1>6
  <2> HIDE DEF c
  <2>4. /\ pass' \in Passes /\ pass'.at = "deploy" /\ pass'.mounted = depCache.tmpl[1] /\ pass'.copy = c
        /\ pass'.name = None
    BY <2>1, <2>2, <2>3 DEF Passes
  <2> QED BY <2>2, <2>4, <1>1, <1>2, <1>6, PassBegun
<1>7. CASE LET applied == [Reading.copy EXCEPT !.config = wanted.config, !.valid = "True"]
           IN /\ pass' = [Reading EXCEPT !.copy = applied, !.name = wanted.config]
              /\ stored' = WithReadiness([applied EXCEPT !.progressing = "True"])
  BY <1>1, <1>2, <1>7, Recording
<1> QED BY <1>5, <1>6, <1>7 DEF BeginRollout

-----------------------------------------------------------------------------
(* The infrastructure stage.                                               *)

\* What a pass ends with: judged is the status before Ready is derived.
LEMMA Observing ==
  ASSUME RolloutInv, pass.at = "deploy", NEW obs \in Observations, NEW refused \in BOOLEAN,
         Observed(obs, refused)
  PROVE  LET want == <<pass.copy.config, pass.image>>
             s    == ResourcesControlled(pass.copy, obs, refused)
             r    == InspectDeploymentStatus(s, obs, want)
         IN /\ s \in Status /\ SameReport(s, pass.copy)
            /\ s.config = pass.copy.config /\ s.valid = pass.copy.valid /\ s.plugins = pass.copy.plugins
            /\ refused => s.controlled = "False"
            /\ r \in Status
            /\ pass' \in Passes /\ pass'.at = "finish" /\ pass'.copy = WithReadiness(r)
            /\ pass'.behind <=>
                 ~obs.started /\ (\/ depCache.tmpl # dep.tmpl \/ ~depCache.observed
                                  \/ history.behind /\ ~DeploymentConverged(depCache, want))
<1> DEFINE want == <<pass.copy.config, pass.image>>
           s == ResourcesControlled(pass.copy, obs, refused)
           r == InspectDeploymentStatus(s, obs, want)
           c == IF refused THEN "False" ELSE IF obs.seen THEN "True" ELSE pass.copy.controlled
           b == ~obs.started /\ (\/ depCache.tmpl # dep.tmpl \/ ~depCache.observed
                                 \/ history.behind /\ ~DeploymentConverged(depCache, want))
           f == pass.failed \/ obs.failed \/ obs.unreconciled \/ refused
<1>1. pass \in Passes /\ pass.copy \in Status
  BY DEF RolloutInv, RolloutTypeOK, Passes
<1>2. c \in {"none", "True", "False"} /\ (refused => c = "False")
  BY <1>1 DEF Status
<1>3. s = [pass.copy EXCEPT !.controlled = c]
  BY DEF ResourcesControlled
<1> HIDE DEF c
<1>4. /\ s \in Status /\ SameReport(s, pass.copy) /\ (refused => s.controlled = "False")
      /\ s.config = pass.copy.config /\ s.valid = pass.copy.valid /\ s.plugins = pass.copy.plugins
  BY <1>1, <1>2, <1>3 DEF Status, SameReport
<1> HIDE DEF s
<1>5. r \in Status
  BY <1>4, Inspecting DEF RolloutInv
<1>6. b \in BOOLEAN /\ f \in BOOLEAN
  BY <1>1 DEF Passes, Observations, RolloutInv, RolloutTypeOK, Deployment, DeploymentConverged
<1>7. pass' = [pass EXCEPT !.at = "finish", !.copy = WithReadiness(r), !.behind = b, !.failed = f]
  BY DEF Observed, s
<1>8. WithReadiness(r) \in Status
  BY <1>5, Readied
<1> HIDE DEF r, b, f, want
<1>9. pass' \in Passes /\ pass'.at = "finish" /\ pass'.copy = WithReadiness(r) /\ pass'.behind = b
  BY <1>1, <1>6, <1>7, <1>8 DEF Passes
<1> QED BY <1>4, <1>5, <1>9 DEF b, r, s, want

\* A pass that wrote no Deployment judges the cached one.
LEMMA Unstarted ==
  ASSUME RolloutInv, History, pass.at = "deploy", NEW obs \in Observations, NEW refused \in BOOLEAN,
         Observed(obs, refused), UNCHANGED <<wanted, dep, depCache, stored, awake>>,
         upsets' \in 0..MaxUpsets,
         ~obs.started,
         obs.seen => obs.dep = depCache /\ depCache.tmpl = <<pass.copy.config, pass.image>> /\ pass.copy.config # None,
         obs.refused => refused,
         ~obs.seen /\ ~obs.failed /\ ~obs.unreconciled /\ ~refused =>
           pass.name = None \/ pass.copy.plugins = "False"
  PROVE  RolloutInv'
<1> USE DEF RolloutInv
<1> DEFINE want == <<pass.copy.config, pass.image>>
           s == ResourcesControlled(pass.copy, obs, refused)
           r == InspectDeploymentStatus(s, obs, want)
           d == IF obs.seen THEN obs.dep ELSE depCache
<1>1. /\ s \in Status /\ SameReport(s, pass.copy)
      /\ s.config = pass.copy.config /\ s.valid = pass.copy.valid /\ s.plugins = pass.copy.plugins
      /\ refused => s.controlled = "False"
      /\ r \in Status
      /\ pass' \in Passes /\ pass'.at = "finish" /\ pass'.copy = WithReadiness(r)
      /\ ~pass'.behind => /\ depCache.tmpl = dep.tmpl /\ depCache.observed
                          /\ history.behind => DeploymentConverged(depCache, want)
  BY Observing
<1>2. d = depCache
  OBVIOUS
<1> HIDE DEF s
<1>3. /\ r \in Status /\ SameInputs(r, s)
      /\ depCache.tmpl = NoTemplate \/ obs.failed => NothingNew(r, s, obs)
      /\ depCache.tmpl # NoTemplate /\ ~obs.failed =>
           \/ FoundFailed(r, depCache) \/ r.available = "Lost" \/ FoundDone(r, depCache, want)
           \/ GoesOn(r, s, obs, depCache, want)
  BY <1>1, <1>2, Inspecting
<1> HIDE DEF r, d
<1>4. /\ pass'.copy \in Status /\ SameInputs(pass'.copy, r) /\ SameReport(pass'.copy, r)
      /\ pass'.copy.ready = "True" => ~Broken(r) /\ r.valid = "True" /\ Quiet(r) /\ r.available = "True"
  BY <1>1, <1>3, Readied
<1>5. /\ history' \in [done : BOOLEAN, missed : SUBSET Templates, behind : BOOLEAN]
      /\ history'.done <=> history.done
      /\ history'.missed = history.missed
  BY HistoryKept
<1>6. dep' \in Deployment /\ (dep'.deadline => dep'.tmpl # NoTemplate)
  BY DEF RolloutTypeOK, MissedIsSeen
<1>7. history'.behind <=> history.behind
  BY <1>6, HistoryStep
<1>8. RolloutTypeOK'
  BY <1>1, <1>5, <1>6 DEF RolloutTypeOK, Passes
<1>9. DeploymentConverged(depCache, want) /\ depCache.tmpl = dep.tmpl => history.done /\ dep.tmpl[1] = pass.copy.config
  BY DEF DeploymentConverged, DoneIsSeen
<1>10. ASSUME ~pass'.behind, Quiet(r)
       PROVE  StandsFor(r)
  <2>1. depCache.tmpl = dep.tmpl /\ depCache.observed
    BY <1>1, <1>10
  <2>2. CASE history.done
    BY <2>1, <2>2 DEF StandsFor
  <2>3. CASE ~history.done
    <3>1. ~history.behind /\ ~DeploymentConverged(depCache, want)
      BY <1>1, <1>9, <1>10, <2>1, <2>3
    <3>2. Quiet(s) => StandsFor(s)
      <4>1. Quiet(s) => StandsFor(pass.copy) /\ s.available = pass.copy.available
        BY <3>1, <1>1 DEF CopyStands, Quiet, SameReport
      <4> QED BY <4>1 DEF StandsFor
    <3>3. CASE depCache.tmpl = NoTemplate \/ obs.failed
      <4>1. Quiet(s) /\ r.available = s.available
        BY <3>3, <1>3, <1>10 DEF NothingNew
      <4> QED BY <4>1, <3>2 DEF StandsFor
    <3>4. CASE FoundFailed(r, depCache)
      BY <3>4, <2>1 DEF FoundFailed, FailedRolloutApplies, StandsFor, DoneIsSeen
    <3>5. CASE r.available = "Lost"
      BY <3>5, <2>1 DEF StandsFor
    <3>6. CASE FoundDone(r, depCache, want)
      BY <3>6, <3>1 DEF FoundDone
    <3>7. CASE GoesOn(r, s, obs, depCache, want)
      <4>1. Quiet(s)
        BY <3>7, <1>10 DEF GoesOn
      <4>2. ~(FailedRolloutApplies(depCache) /\ (obs.seen => depCache.tmpl = want))
        BY <3>7 DEF GoesOn
      <4>3. ~depCache.deadline
        BY <4>2, <2>1 DEF FailedRolloutApplies
      <4>4. s.available # "RolloutFailed" /\ r.available = s.available
        BY <4>1, <4>3, <3>2, <2>3, <3>7 DEF StandsFor, GoesOn
      <4> QED BY <4>1, <4>4, <3>2 DEF StandsFor
    <3> QED BY <3>3, <3>4, <3>5, <3>6, <3>7, <1>3
  <2> QED BY <2>2, <2>3 DEF RolloutTypeOK
<1>11. ASSUME ~pass'.behind, pass'.copy.ready = "True"
       PROVE  history.done /\ dep.tmpl[1] = pass.copy.config
  <2>1. depCache.tmpl = dep.tmpl
    BY <1>1, <1>11
  <2>2. ~Broken(r) /\ r.valid = "True" /\ Quiet(r) /\ r.available = "True"
    BY <1>4, <1>11
  <2>3. history.done
    BY <1>10, <1>11, <2>2 DEF StandsFor
  <2>4. /\ s.valid = "True" /\ s.plugins # "False" /\ s.controlled # "False"
        /\ ~refused /\ pass.copy.plugins # "False" /\ pass.copy.valid = "True"
    BY <2>2, <1>1, <1>3 DEF SameInputs, Broken
  <2>5. pass.name = pass.copy.config
    BY <2>4 DEF CopyOfStored
  <2>6. CASE DeploymentConverged(depCache, want)
    BY <2>1, <2>6, <1>9
  <2>7. CASE ~DeploymentConverged(depCache, want) /\ obs.seen
    BY <2>1, <2>3, <2>7
  <2>8. CASE ~DeploymentConverged(depCache, want) /\ ~obs.seen
    <3>1. ~history.behind
      BY <2>8, <1>1, <1>11
    <3>2. Quiet(s) /\ ~Owed(obs)
      <4>1. ~FoundFailed(r, depCache) /\ r.available # "Lost" /\ ~FoundDone(r, depCache, want)
        BY <2>2, <2>8 DEF FoundFailed, FoundDone
      <4>2. NothingNew(r, s, obs) \/ GoesOn(r, s, obs, depCache, want)
        BY <4>1, <1>3
      <4> QED BY <4>2, <2>2 DEF NothingNew, GoesOn
    <3>3. pass.mounted = dep.tmpl[1]
      BY <3>1, <3>2, <1>1 DEF CopyStands, Quiet, SameReport
    <3>4. pass.name \in {None, pass.mounted}
      BY <3>2, <2>4, <2>8 DEF Owed
    <3>5. CASE pass.name = None
      BY <3>5, <2>3, <2>5 DEF CopyOfStored, NothingYet, NoDeployment, NoTemplate
    <3>6. CASE pass.name = pass.mounted
      BY <3>3, <3>6, <2>3, <2>5
    <3> QED BY <3>4, <3>5, <3>6
  <2> QED BY <2>6, <2>7, <2>8
<1>12. JudgedStands'
  <2>1. pass'.copy.config = pass.copy.config /\ pass'.copy.available = r.available /\ pass'.copy.progressing = r.progressing
    BY <1>1, <1>3, <1>4 DEF SameInputs, SameReport
  <2>2. ~pass'.behind /\ Quiet(pass'.copy) => StandsFor(r)
    BY <2>1, <1>10 DEF Quiet
  <2> QED BY <2>1, <2>2, <1>5, <1>11 DEF JudgedStands, StandsFor, Quiet
<1>13. StoredStands'
  <2>1. ~history.behind /\ Quiet(stored) => StandsFor(stored)
    BY DEF StoredStands
  <2> QED BY <2>1, <1>5, <1>7 DEF StoredStands, StandsFor, Quiet
<1>14. CopyStands' /\ CopyOfStored'
  BY <1>1, <1>3, <1>4 DEF CopyStands, CopyOfStored, SameInputs
<1>15. NothingYet'
  <2>1. pass'.copy.config = pass.copy.config /\ pass'.copy.available = r.available
    BY <1>1, <1>3, <1>4 DEF SameInputs, SameReport
  <2>2. pass.copy.config = None => depCache.tmpl = NoTemplate
    BY DEF CopyOfStored, NothingYet, NoDeployment
  <2>3. pass.copy.config = None => r.available = pass.copy.available
    BY <2>2, <1>1, <1>3 DEF NothingNew, SameReport
  <2> QED BY <2>1, <2>3 DEF NothingYet
<1>16. DoneIsSeen' /\ ReadyMeansRolledOut'
  BY <1>5, <1>7 DEF DoneIsSeen, Complete, ReadyMeansRolledOut
<1>17. MissedIsSeen'
  <2>1. r.available = "RolloutFailed" => r.failedOf \in history.missed
    <3>1. s.available = "RolloutFailed" => s.failedOf \in history.missed
      BY <1>1 DEF SameReport, MissedIsSeen
    <3>2. FoundFailed(r, depCache) => r.failedOf \in history.missed
      BY DEF FoundFailed, FailedRolloutApplies, MissedIsSeen
    <3>3. NothingNew(r, s, obs) => r.available = s.available /\ r.failedOf = s.failedOf
      BY DEF NothingNew
    <3>4. FoundDone(r, depCache, want) \/ GoesOn(r, s, obs, depCache, want) => r.available # "RolloutFailed"
      BY DEF FoundDone, GoesOn
    <3> QED BY <3>1, <3>2, <3>3, <3>4, <1>3
  <2>2. pass'.copy.available = r.available /\ pass'.copy.failedOf = r.failedOf
    BY <1>4 DEF SameReport
  <2> QED BY <2>1, <2>2, <1>5 DEF MissedIsSeen
<1> QED BY <1>8, <1>12, <1>13, <1>14, <1>15, <1>16, <1>17

\* A pass that wrote the Deployment says that a rollout is under way.
LEMMA Started ==
  ASSUME RolloutInv, History, pass.at = "deploy", NEW obs \in Observations,
         Observed(obs, FALSE), UNCHANGED <<wanted, depCache, stored, awake, upsets>>,
         pass.copy.config # None, depCache.tmpl # <<pass.copy.config, pass.image>>, depCache = dep,
         dep' = [dep EXCEPT !.tmpl = <<pass.copy.config, pass.image>>, !.observed = FALSE],
         obs.started /\ obs.seen /\ ~obs.failed /\ obs.dep = dep'
  PROVE  RolloutInv'
<1> USE DEF RolloutInv
<1> DEFINE want == <<pass.copy.config, pass.image>>
           s == ResourcesControlled(pass.copy, obs, FALSE)
           r == InspectDeploymentStatus(s, obs, want)
<1>1. want \in Templates /\ want # NoTemplate /\ want[1] = pass.copy.config
  BY DEF RolloutTypeOK, Status, Templates, NoTemplate
<1>2. /\ dep' \in Deployment /\ dep'.tmpl = want /\ ~dep'.observed
      /\ dep'.deadline = dep.deadline
  BY <1>1 DEF RolloutTypeOK, Deployment
<1>3. /\ s \in Status /\ SameReport(s, pass.copy) /\ s.config = pass.copy.config
      /\ pass' \in Passes /\ pass'.at = "finish" /\ pass'.copy = WithReadiness(r)
  BY Observing
<1> HIDE DEF s
<1>4. /\ r \in Status /\ SameInputs(r, s)
      /\ obs.dep.tmpl # NoTemplate =>
           \/ FoundFailed(r, obs.dep) \/ r.available = "Lost" \/ FoundDone(r, obs.dep, want)
           \/ GoesOn(r, s, obs, obs.dep, want)
      /\ obs.dep.tmpl # NoTemplate /\ ~obs.dep.observed => ~Quiet(r)
  BY <1>3, Inspecting
<1> HIDE DEF r, want
<1>5. ~Quiet(r) /\ ~FoundFailed(r, obs.dep)
  BY <1>1, <1>2, <1>4 DEF FoundFailed, FailedRolloutApplies
<1>6. /\ pass'.copy \in Status /\ pass'.copy.ready # "True" /\ ~Quiet(pass'.copy)
      /\ pass'.copy.config = pass.copy.config /\ pass'.copy.available = r.available
  BY <1>3, <1>4, <1>5, Readied DEF SameInputs, SameReport, Quiet
<1>7. r.available # "RolloutFailed"
  BY <1>1, <1>2, <1>4, <1>5 DEF FoundDone, GoesOn
<1>8. /\ history' \in [done : BOOLEAN, missed : SUBSET Templates, behind : BOOLEAN]
      /\ history.done /\ dep'.tmpl[1] = dep.tmpl[1] => history'.done
      /\ history.missed \subseteq history'.missed
      /\ history'.behind <=> history.behind
  BY <1>1, <1>2, HistoryStep
<1>9. RolloutTypeOK'
  BY <1>2, <1>3, <1>8 DEF RolloutTypeOK, Passes
<1>10. StoredStands' /\ CopyStands' /\ JudgedStands'
  BY <1>3, <1>6 DEF StoredStands, CopyStands, JudgedStands
<1>11. CopyOfStored' /\ NothingYet'
  BY <1>3, <1>6 DEF CopyOfStored, NothingYet
<1>12. DoneIsSeen'
  <2>1. depCache'.tmpl # dep'.tmpl
    BY <1>2 DEF want
  <2> QED BY <1>2, <2>1 DEF DoneIsSeen, Complete
<1>13. MissedIsSeen'
  BY <1>1, <1>2, <1>6, <1>7, <1>8 DEF MissedIsSeen
<1>14. ReadyMeansRolledOut'
  BY <1>1, <1>2, <1>8 DEF ReadyMeansRolledOut, CopyOfStored
<1> QED BY <1>9, <1>10, <1>11, <1>12, <1>13, <1>14

LEMMA UnseenTyped ==
  /\ Unseen \in Observations
  /\ ~Unseen.seen /\ ~Unseen.failed /\ ~Unseen.refused /\ ~Unseen.unreconciled /\ ~Unseen.started
BY DEF Unseen, Observations, Deployment, NoDeployment

LEMMA HoldForServiceAccount_Inv ==
  ASSUME RolloutInv, HoldForServiceAccount, History
  PROVE  RolloutInv'
<1>1. pass.at = "deploy" /\ UNCHANGED <<wanted, dep, depCache, stored, awake>> /\ upsets' \in 0..MaxUpsets
  BY Upset_Type DEF HoldForServiceAccount, RolloutInv
<1>2. CASE Observed(Unseen, TRUE)
  BY <1>1, <1>2, UnseenTyped, Unstarted
<1>3. CASE Observed([Unseen EXCEPT !.unreconciled = TRUE], FALSE)
  <2> DEFINE o == [Unseen EXCEPT !.unreconciled = TRUE]
  <2>1. o \in Observations /\ ~o.started /\ ~o.seen /\ ~o.refused /\ o.unreconciled
    BY UnseenTyped DEF Observations
  <2> HIDE DEF o
  <2> QED BY <1>1, <1>3, <2>1, Unstarted DEF o
<1> QED BY <1>2, <1>3 DEF HoldForServiceAccount

LEMMA HoldDeployment_Inv ==
  ASSUME RolloutInv, HoldDeployment, History
  PROVE  RolloutInv'
<1>1. /\ pass.at = "deploy" /\ UNCHANGED <<wanted, dep, depCache, stored, awake>> /\ upsets' \in 0..MaxUpsets
      /\ Observed(Unseen, FALSE) /\ (pass.name = None \/ pass.copy.plugins = "False")
  BY Upset_Type DEF HoldDeployment, RolloutInv
<1> QED BY <1>1, UnseenTyped, Unstarted

LEMMA ReconcileDeployment_Inv ==
  ASSUME RolloutInv, ReconcileDeployment, History
  PROVE  RolloutInv'
<1> DEFINE want  == <<pass.copy.config, pass.image>>
           fresh == [dep EXCEPT !.tmpl = want, !.observed = FALSE]
           Seen(d, started) == [Unseen EXCEPT !.dep = d, !.seen = TRUE, !.started = started]
           failed == [Unseen EXCEPT !.failed = TRUE]
<1>1. /\ pass.at = "deploy" /\ UNCHANGED <<wanted, depCache, stored, awake>> /\ upsets' \in 0..MaxUpsets
      /\ pass.copy.config # None
  BY Upset_Type DEF ReconcileDeployment, RolloutInv, CopyOfStored
<1>2. /\ failed \in Observations /\ ~failed.started /\ ~failed.seen /\ failed.failed /\ ~failed.refused
  BY UnseenTyped DEF Observations
<1>3. \A d \in Deployment, b \in BOOLEAN :
        /\ Seen(d, b) \in Observations /\ Seen(d, b).dep = d /\ Seen(d, b).seen /\ Seen(d, b).started = b
        /\ ~Seen(d, b).failed /\ ~Seen(d, b).refused
  BY UnseenTyped DEF Observations
<1>4. dep \in Deployment /\ depCache \in Deployment /\ fresh \in Deployment
  BY <1>1 DEF RolloutInv, RolloutTypeOK, Deployment, Status, Templates
<1>5. CASE Observed([failed EXCEPT !.refused = TRUE], TRUE) /\ UNCHANGED dep
  <2> DEFINE o == [failed EXCEPT !.refused = TRUE]
  <2>1. o \in Observations /\ ~o.started /\ ~o.seen /\ o.failed
    BY <1>2 DEF Observations
  <2>2. Observed(o, TRUE)
    BY <1>5
  <2> HIDE DEF o
  <2> QED BY <1>1, <1>5, <2>1, <2>2, Unstarted
<1>6. CASE depCache.tmpl = want /\ Observed(Seen(depCache, FALSE), FALSE) /\ UNCHANGED dep
  <2> DEFINE o == Seen(depCache, FALSE)
  <2>1. o \in Observations /\ ~o.started /\ o.dep = depCache /\ ~o.refused /\ o.seen
    BY <1>3, <1>4
  <2>2. Observed(o, FALSE)
    BY <1>6
  <2> HIDE DEF o
  <2> QED BY <1>1, <1>6, <2>1, <2>2, Unstarted
<1>7. CASE /\ depCache.tmpl # want /\ depCache = dep /\ dep' = fresh /\ Observed(Seen(fresh, TRUE), FALSE)
           /\ UNCHANGED upsets
  <2> DEFINE o == Seen(fresh, TRUE)
  <2>1. o \in Observations /\ o.started /\ o.dep = fresh /\ o.seen /\ ~o.failed
    BY <1>3, <1>4
  <2>2. Observed(o, FALSE)
    BY <1>7
  <2> HIDE DEF o
  <2> QED BY <1>1, <1>7, <2>1, <2>2, Started
<1>8. CASE Observed(failed, FALSE) /\ UNCHANGED dep
  <2> HIDE DEF failed
  <2> QED BY <1>1, <1>2, <1>8, Unstarted
<1> QED BY <1>5, <1>6, <1>7, <1>8 DEF ReconcileDeployment

-----------------------------------------------------------------------------
(* The theorems.                                                           *)

LEMMA RolloutInit_Inv == RolloutInit => RolloutInv
<1> SUFFICES ASSUME RolloutInit PROVE RolloutInv
  OBVIOUS
<1>1. (CHOOSE c \in Configs : TRUE) \in Configs /\ (CHOOSE i \in Images : TRUE) \in Images
  BY RolloutAssumption
<1>2. wanted \in [config : Configs, image : Images, license : {"fine", "expired", "fallback"},
                  plugins : BOOLEAN, refused : {"none", "sa", "dep"}]
  BY <1>1 DEF RolloutInit
<1>3. dep = NoDeployment /\ depCache = NoDeployment /\ NoDeployment \in Deployment
  BY DEF RolloutInit, NoDeployment, Deployment
<1>4. /\ stored \in Status /\ stored.config = None /\ stored.available = "none" /\ stored.ready = "Unknown"
  BY DEF RolloutInit, Status
<1>5. /\ pass \in Passes /\ pass.at = "idle" /\ pass.copy = stored
  BY <1>1, <1>4 DEF RolloutInit, IdleRollout, Passes
<1>6. RolloutTypeOK
  BY <1>2, <1>3, <1>4, <1>5, RolloutAssumption DEF RolloutInit, RolloutTypeOK, Passes
<1>7. StoredStands /\ CopyStands /\ JudgedStands
  BY <1>3, <1>4, <1>5 DEF StoredStands, CopyStands, JudgedStands, StandsFor
<1>8. CopyOfStored /\ NothingYet /\ DoneIsSeen /\ MissedIsSeen /\ ReadyMeansRolledOut
  BY <1>3, <1>4, <1>5 DEF CopyOfStored, NothingYet, DoneIsSeen, MissedIsSeen, ReadyMeansRolledOut, Complete, NoDeployment
<1> QED BY <1>6, <1>7, <1>8 DEF RolloutInv

LEMMA RolloutNext_Inv == RolloutInv /\ [RolloutNext]_rollout => RolloutInv'
<1> SUFFICES ASSUME RolloutInv, [RolloutNext]_rollout PROVE RolloutInv'
  OBVIOUS
<1>1. CASE UNCHANGED rollout
  BY <1>1 DEF rollout, RolloutInv, RolloutTypeOK, StoredStands, CopyStands, JudgedStands, StandsFor, Quiet,
     CopyOfStored, NothingYet, DoneIsSeen, MissedIsSeen, ReadyMeansRolledOut, Complete
<1>2. CASE RolloutPass /\ History
  BY <1>2, BeginRollout_Inv, HoldForServiceAccount_Inv, HoldDeployment_Inv, ReconcileDeployment_Inv,
     FinishRollout_Inv DEF RolloutPass
<1>3. CASE RolloutNext /\ ~RolloutPass
  BY <1>3, CrashRollout_Inv, DeliverDeployment_Inv, ChangeWanted_Inv, ObserveSpec_Inv, CompleteRollout_Inv,
     MissDeadline_Inv, LosePods_Inv, Scale_Inv DEF RolloutNext
<1> QED BY <1>1, <1>2, <1>3 DEF RolloutNext

LEMMA RolloutAlwaysInv == RolloutSpec => []RolloutInv
  BY RolloutInit_Inv, RolloutNext_Inv, PTL DEF RolloutSpec

\* Statuses, passes and the history keep their shape.
THEOREM RolloutTypesHold == RolloutSpec => []RolloutTypeOK
<1>1. RolloutInv => RolloutTypeOK
  BY DEF RolloutInv
<1> QED BY <1>1, RolloutAlwaysInv, PTL

\* However often configs, images, licenses and obstacles change, steps fail,
\* status writes are lost and the operator stops: Ready is about pods that were
\* all there, of the config the status names (inspectDeploymentStatus,
\* rolloutInFlight, raiseProgressing), and RolloutFailed about a template whose
\* own deadline passed (failedRolloutApplies).
THEOREM RolloutIsReported == RolloutSpec => []RolloutReported
<1>1. RolloutInv => RolloutReported
  BY DEF RolloutInv, RolloutReported, MissedIsSeen, FailureIsOfItsTemplate
<1> QED BY <1>1, RolloutAlwaysInv, PTL

(***************************************************************************)
(* III.  THE OBJECTS.  A pass leaves the objects of others alone, whatever *)
(* the caches show.  A cached copy that is the gateway's is either of the  *)
(* incarnation that is stored, which the gateway then controlled, or an    *)
(* event of another incarnation is still to come and the UID precondition  *)
(* fails; and a write is accepted only if nothing is to come.              *)
(***************************************************************************)

ObjectsTyped ==
  /\ obj \in [Kinds -> Holdings] /\ cache \in [Kinds -> Holdings]
  /\ lag \in [Kinds -> SUBSET Lags]
  /\ once \in [Kinds -> BOOLEAN]

\* A cache without events to come holds what is stored.
CacheFollows == \A k \in Kinds : lag[k] = {} => cache[k] = obj[k]

\* What the gateway controls it controlled.
OwnOnce == \A k \in Kinds : Own(obj[k]) => once[k]

\* What is stored is the incarnation the cache shows as the gateway's, unless
\* an event of another one is to come.
CachedOwnOnce ==
  \A k \in Kinds : Own(cache[k]) /\ "incarnation" \notin lag[k] /\ obj[k] # "absent" => once[k]

ObjectsInv == ObjectsTyped /\ CacheFollows /\ OwnOnce /\ CachedOwnOnce

\* The object k may become x in a pass.
Gentle(k, x) ==
  /\ x \in Holdings
  /\ Foreign(obj[k]) => ~Own(x)
  /\ obj[k] # "absent" /\ x = "absent" => once[k]

\* What OthersUntouched says of a step of a pass.
Spared ==
  \A k \in Kinds :
    /\ Foreign(obj[k]) => ~Own(obj'[k])
    /\ obj[k] # "absent" /\ obj'[k] = "absent" => once[k]

-----------------------------------------------------------------------------
(* Changes of one object.                                                  *)

\* A change of the stored object keeps the invariant, whoever makes it.
LEMMA BecomesKeeps ==
  ASSUME ObjectsInv, NEW k \in Kinds, NEW x \in Holdings, NEW made \in BOOLEAN,
         Becomes(k, x, made), UNCHANGED cache
  PROVE  ObjectsInv'
<1> USE DEF ObjectsInv, ObjectsTyped
<1> DEFINE new == made \/ (obj[k] = "absent" /\ x # "absent")
           more == (IF new \/ x # obj[k] THEN {"version"} ELSE {})
                     \cup (IF new THEN {"incarnation"} ELSE {})
                     \cup (IF Own(x) /\ x # obj[k] THEN {"own"} ELSE {})
<1>1. /\ obj' = [obj EXCEPT ![k] = x]
      /\ lag' = [lag EXCEPT ![k] = lag[k] \cup more]
      /\ once' = [once EXCEPT ![k] = Own(x) \/ (once[k] /\ ~made /\ x # "absent")]
  BY Zenon DEF Becomes
<1>2. more \subseteq Lags
  BY DEF Lags
<1> HIDE DEF more
<1>3. ObjectsTyped'
  BY <1>1, <1>2 DEF Own
<1>4. \A j \in Kinds \ {k} : obj'[j] = obj[j] /\ lag'[j] = lag[j] /\ once'[j] = once[j] /\ cache'[j] = cache[j]
  BY <1>1
<1>5. /\ obj'[k] = x /\ lag'[k] = lag[k] \cup more /\ cache'[k] = cache[k]
      /\ once'[k] = (Own(x) \/ (once[k] /\ ~made /\ x # "absent"))
  BY <1>1
<1>6. CacheFollows'
  <2>1. lag[k] \cup more = {} => cache[k] = x
    BY DEF CacheFollows, more
  <2> QED BY <1>4, <1>5, <2>1 DEF CacheFollows
<1>7. OwnOnce'
  BY <1>4, <1>5 DEF OwnOnce, Own
<1>8. CachedOwnOnce'
  <2>1. Own(cache[k]) /\ "incarnation" \notin lag[k] \cup more /\ x # "absent"
          => Own(x) \/ (once[k] /\ ~made /\ x # "absent")
    BY DEF CachedOwnOnce, more
  <2> QED BY <1>4, <1>5, <2>1 DEF CachedOwnOnce
<1> QED BY <1>3, <1>6, <1>7, <1>8

\* What a pass may do to one object spares the others' and keeps the invariant.
LEMMA GentleStep ==
  ASSUME ObjectsInv, NEW k \in Kinds, NEW x, Gentle(k, x),
         Becomes(k, x, FALSE), UNCHANGED cache
  PROVE  ObjectsInv' /\ Spared
<1>1. ObjectsInv'
  BY BecomesKeeps DEF Gentle
<1>2. obj' = [obj EXCEPT ![k] = x]
  BY DEF Becomes
<1> QED BY <1>1, <1>2 DEF Spared, Gentle, ObjectsInv, ObjectsTyped, Own, Foreign

\* Where nothing is written, nothing is harmed.
LEMMA IdleStep ==
  ASSUME ObjectsInv, UNCHANGED <<obj, cache, lag, once>>
  PROVE  ObjectsInv' /\ Spared
  BY DEF ObjectsInv, ObjectsTyped, CacheFollows, OwnOnce, CachedOwnOnce, Spared, Own, Foreign

-----------------------------------------------------------------------------
(* The operations of a pass.                                               *)

\* Leaving the object as it is.
LEMMA LeavingIsGentle ==
  ASSUME ObjectsInv, NEW k \in Kinds
  PROVE  Gentle(k, obj[k])
  BY DEF ObjectsInv, ObjectsTyped, Gentle, Own, Foreign

\* applyOwned on the cached copy, behind or not.
LEMMA ApplyOwnedIsGentle ==
  ASSUME ObjectsInv, NEW k \in Kinds
  PROVE  Gentle(k, ApplyOwned(k, cache[k], lag[k] # {}).to)
<1> DEFINE res == ApplyOwned(k, cache[k], lag[k] # {})
<1>1. CASE res.to = obj[k]
  BY <1>1, LeavingIsGentle
<1>2. CASE res.to # obj[k]
  <2>1. res.to = "ours" /\ ~Foreign(obj[k])
    BY <1>2 DEF ApplyOwned, ObjectsInv, ObjectsTyped, CacheFollows, Foreign, Holdings
  <2> QED BY <2>1 DEF Gentle, Holdings
<1> QED BY <1>1, <1>2

\* applyOwned on a copy read from the API server.
LEMMA ApplyReadIsGentle ==
  ASSUME ObjectsInv, NEW k \in Kinds
  PROVE  Gentle(k, ApplyOwned(k, obj[k], FALSE).to)
<1> DEFINE res == ApplyOwned(k, obj[k], FALSE)
<1>1. CASE res.to = obj[k]
  BY <1>1, LeavingIsGentle
<1>2. CASE res.to # obj[k]
  <2>1. res.to = "ours" /\ ~Foreign(obj[k])
    BY <1>2 DEF ApplyOwned, ObjectsInv, ObjectsTyped, Foreign, Holdings
  <2> QED BY <2>1 DEF Gentle, Holdings
<1> QED BY <1>1, <1>2

\* deleteIfControlled on a copy that, if it is the gateway's and of the stored
\* incarnation, is of one the gateway controlled.
LEMMA DeleteIsGentle ==
  ASSUME ObjectsInv, NEW k \in Kinds, NEW x, NEW made \in BOOLEAN,
         Own(x) /\ ~made /\ obj[k] # "absent" => once[k]
  PROVE  Gentle(k, DeleteIfControlled(k, x, made).to)
<1> DEFINE res == DeleteIfControlled(k, x, made)
<1>1. CASE res.to = obj[k]
  BY <1>1, LeavingIsGentle
<1>2. CASE res.to # obj[k]
  <2>1. res.to = "absent" /\ once[k]
    BY <1>2 DEF DeleteIfControlled
  <2> QED BY <2>1 DEF Gentle, Holdings, Own
<1> QED BY <1>1, <1>2

-----------------------------------------------------------------------------
(* The steps of a pass.                                                    *)

\* A step on one object ends as it should, or fails.
LEMMA EndsOrFailsSpares ==
  ASSUME ObjectsInv, NEW k \in Kinds, NEW x, NEW res, NEW next, Gentle(k, res.to),
         EndsOrFails(k, x, res, next), UNCHANGED cache
  PROVE  ObjectsInv' /\ Spared
<1>1. CASE Ends(k, res, next)
  <2>1. Becomes(k, res.to, FALSE)
    BY <1>1 DEF Ends
  <2> QED BY <2>1, GentleStep
<1>2. ASSUME NEW f \in Failures(k, x), Ends(k, f, next)
      PROVE  ObjectsInv' /\ Spared
  <2>1. f.to = obj[k]
    BY DEF Failures
  <2>2. Becomes(k, obj[k], FALSE)
    BY <1>2, <2>1 DEF Ends
  <2> QED BY <2>2, GentleStep, LeavingIsGentle
<1> QED BY <1>1, <1>2 DEF EndsOrFails

LEMMA CoreResourceSpares ==
  ASSUME ObjectsInv, CoreResource PROVE ObjectsInv' /\ Spared
<1>1. /\ work.at \in Kinds /\ UNCHANGED cache
      /\ EndsOrFails(work.at, cache[work.at], ApplyOwned(work.at, cache[work.at], lag[work.at] # {}),
                     IF work.at = "sa" THEN "svc" ELSE "dep")
  BY DEF CoreResource, Around, Kinds
<1> QED BY <1>1, EndsOrFailsSpares, ApplyOwnedIsGentle

LEMMA DeploymentStepSpares ==
  ASSUME ObjectsInv, DeploymentStep PROVE ObjectsInv' /\ Spared
<1>0. UNCHANGED cache
  BY DEF DeploymentStep, Around
<1>1. CASE Skips("hpa")
  BY <1>0, <1>1, IdleStep DEF Skips
<1>2. CASE EndsOrFails("dep", cache["dep"], ApplyOwned("dep", cache["dep"], lag["dep"] # {}), "hpa")
  <2>1. "dep" \in Kinds
    BY DEF Kinds
  <2> QED BY <1>0, <1>2, <2>1, EndsOrFailsSpares, ApplyOwnedIsGentle
<1> QED BY <1>1, <1>2 DEF DeploymentStep

LEMMA HPAStepSpares ==
  ASSUME ObjectsInv, HPAStep PROVE ObjectsInv' /\ Spared
<1>0. UNCHANGED cache /\ "hpa" \in Kinds
  BY DEF HPAStep, Around, Kinds
<1>1. CASE Skips("vs")
  BY <1>0, <1>1, IdleStep DEF Skips
<1>2. CASE EndsOrFails("hpa", cache["hpa"], ApplyOwned("hpa", cache["hpa"], lag["hpa"] # {}), "vs")
  BY <1>0, <1>2, EndsOrFailsSpares, ApplyOwnedIsGentle
<1>3. CASE EndsOrFails("hpa", cache["hpa"],
                       DeleteIfControlled("hpa", cache["hpa"], "incarnation" \in lag["hpa"]), "vs")
  <2> DEFINE made == "incarnation" \in lag["hpa"]
  <2>1. Own(cache["hpa"]) /\ ~made /\ obj["hpa"] # "absent" => once["hpa"]
    BY <1>0 DEF ObjectsInv, CachedOwnOnce
  <2>2. made \in BOOLEAN
    OBVIOUS
  <2>3. Gentle("hpa", DeleteIfControlled("hpa", cache["hpa"], made).to)
    <3> HIDE DEF made
    <3> QED BY <1>0, <2>1, <2>2, DeleteIsGentle
  <2> QED BY <1>0, <1>3, <2>3, EndsOrFailsSpares
<1> QED BY <1>1, <1>2, <1>3 DEF HPAStep

\* Whatever reconcileVirtualService reports, the object becomes res.to.
LEMMA IstioSpares ==
  ASSUME ObjectsInv, NEW c, NEW res, Gentle("vs", res.to), Istio(c, res), UNCHANGED cache
  PROVE  ObjectsInv' /\ Spared
  BY GentleStep DEF Istio, Kinds

LEMMA DeleteOptionalSpares ==
  ASSUME ObjectsInv, NEW c, DeleteOptional(c), UNCHANGED cache
  PROVE  ObjectsInv' /\ Spared
<1> DEFINE x == IF kind.watched THEN cache["vs"] ELSE obj["vs"]
           made == kind.watched /\ "incarnation" \in lag["vs"]
           res == DeleteIfControlled("vs", x, made)
<1>0. "vs" \in Kinds /\ Gentle("vs", obj["vs"])
  BY LeavingIsGentle DEF Kinds
<1>1. Gentle("vs", res.to)
  <2>1. Own(x) /\ ~made /\ obj["vs"] # "absent" => once["vs"]
    BY <1>0 DEF ObjectsInv, OwnOnce, CachedOwnOnce
  <2>2. made \in BOOLEAN
    OBVIOUS
  <2> QED BY <1>0, <2>1, <2>2, DeleteIsGentle
<1>2. \/ Istio(c, [to |-> obj["vs"], verdict |-> "done"])
      \/ Istio(IF res.verdict = "done" THEN c ELSE work.istio, res)
      \/ Istio(work.istio, [res EXCEPT !.to = obj["vs"], !.verdict = "hidden"])
  BY DEF DeleteOptional
<1>3. [to |-> obj["vs"], verdict |-> "done"].to = obj["vs"]
  OBVIOUS
<1>4. [res EXCEPT !.to = obj["vs"], !.verdict = "hidden"].to = obj["vs"]
  BY DEF DeleteIfControlled
<1> HIDE DEF res
<1> QED BY <1>0, <1>1, <1>2, <1>3, <1>4, IstioSpares

LEMMA ApplyOptionalSpares ==
  ASSUME ObjectsInv, ApplyOptional, UNCHANGED cache
  PROVE  ObjectsInv' /\ Spared
<1> DEFINE res == ApplyOwned("vs", obj["vs"], FALSE)
<1>0. "vs" \in Kinds /\ Gentle("vs", obj["vs"]) /\ Gentle("vs", res.to)
  BY LeavingIsGentle, ApplyReadIsGentle DEF Kinds
<1>1. \/ Istio("NoCRD", [to |-> obj["vs"], verdict |-> "done"])
      \/ Istio(IF res.verdict = "done" THEN "True" ELSE work.istio, res)
      \/ \E f \in Failures("vs", obj["vs"]) : Istio(work.istio, f)
  BY DEF ApplyOptional
<1>2. \A f \in Failures("vs", obj["vs"]) : f.to = obj["vs"]
  BY DEF Failures
<1>3. [to |-> obj["vs"], verdict |-> "done"].to = obj["vs"]
  OBVIOUS
<1> HIDE DEF res
<1> QED BY <1>0, <1>1, <1>2, <1>3, IstioSpares

LEMMA VirtualServiceStepSpares ==
  ASSUME ObjectsInv, VirtualServiceStep PROVE ObjectsInv' /\ Spared
<1>0. UNCHANGED cache
  BY DEF VirtualServiceStep, Around
<1> QED BY <1>0, DeleteOptionalSpares, ApplyOptionalSpares DEF VirtualServiceStep

\* Every step of a pass.
LEMMA PassSpares ==
  ASSUME ObjectsInv, ObjectsPass PROVE ObjectsInv' /\ Spared
<1>1. CASE BeginPass
  BY <1>1, IdleStep DEF BeginPass
<1>2. CASE EndPass
  BY <1>2, IdleStep DEF EndPass
<1> QED
  BY <1>1, <1>2, CoreResourceSpares, DeploymentStepSpares, HPAStepSpares, VirtualServiceStepSpares
  DEF ObjectsPass

-----------------------------------------------------------------------------
(* The environment, and the theorem.                                       *)

LEMMA DeliverKeeps ==
  ASSUME ObjectsInv, DeliverObject PROVE ObjectsInv'
<1>1. PICK k \in Kinds : /\ cache' = [cache EXCEPT ![k] = obj[k]]
                         /\ lag' = [lag EXCEPT ![k] = {}]
                         /\ UNCHANGED <<obj, once>>
  BY DEF DeliverObject
<1> QED BY <1>1 DEF ObjectsInv, ObjectsTyped, CacheFollows, OwnOnce, CachedOwnOnce

LEMMA InterfereKeeps ==
  ASSUME ObjectsInv, Interfere PROVE ObjectsInv'
<1>1. PICK k \in Kinds :
        /\ UNCHANGED cache
        /\ \E x \in Holdings, made \in BOOLEAN : Becomes(k, x, made)
  BY DEF Interfere, Holdings
<1> QED BY <1>1, BecomesKeeps

LEMMA RestartKeeps ==
  ASSUME ObjectsInv, RestartOperator PROVE ObjectsInv'
  BY DEF RestartOperator, ObjectsInv, ObjectsTyped, CacheFollows, OwnOnce, CachedOwnOnce

LEMMA ObjectsInit == OwnedInit => ObjectsInv
<1>1. ASSUME OwnedInit PROVE obj \in [Kinds -> Holdings] /\ once \in [Kinds -> BOOLEAN] /\ OwnOnce
  <2>1. CASE NewGateway
    BY <2>1 DEF NewGateway, Kinds, Holdings, OwnOnce, Own
  <2>2. CASE SettledGateway
    <3>1. obj \in [Kinds -> {"absent", "ours"}]
      BY <2>2, Zenon DEF SettledGateway
    <3> QED BY <2>2, <3>1 DEF SettledGateway, Holdings, OwnOnce, Own
  <2> QED BY <1>1, <2>1, <2>2 DEF OwnedInit
<1> QED BY <1>1 DEF OwnedInit, ObjectsInv, ObjectsTyped, CacheFollows, OwnOnce, CachedOwnOnce, Lags

LEMMA ObjectsNext == ObjectsInv /\ [OwnedNext]_owned => ObjectsInv' /\ (work' # work => Spared)
<1> SUFFICES ASSUME ObjectsInv, [OwnedNext]_owned PROVE ObjectsInv' /\ (work' # work => Spared)
  OBVIOUS
<1>1. CASE ObjectsPass
  BY <1>1, PassSpares
<1>2. CASE DeliverObject
  BY <1>2, DeliverKeeps DEF DeliverObject
<1>3. CASE Interfere
  BY <1>3, InterfereKeeps DEF Interfere
<1>4. CASE ChangeAsk \/ InstallKind \/ ExpireAbsent
  BY <1>4, IdleStep DEF ChangeAsk, InstallKind, ExpireAbsent
<1>5. CASE RestartOperator
  <2>1. Spared
    BY <1>5 DEF RestartOperator, Spared, Own, Foreign
  <2> QED BY <1>5, <2>1, RestartKeeps
<1>6. CASE UNCHANGED owned
  BY <1>6, IdleStep DEF owned
<1> QED BY <1>1, <1>2, <1>3, <1>4, <1>5, <1>6 DEF OwnedNext

\* In every behaviour, however far the caches lag and whatever others do, a pass
\* overwrites only what it may take over and deletes only an incarnation of an
\* object that the gateway controlled (applyOwned, deleteIfControlled).
THEOREM OthersAreUntouched == OwnedSpec => OthersUntouched
<1>1. ObjectsInv /\ [OwnedNext]_owned => [work' # work => Spared]_owned
  BY ObjectsNext
<1>2. OwnedSpec => []ObjectsInv
  BY ObjectsInit, ObjectsNext, PTL DEF OwnedSpec
<1>3. []ObjectsInv /\ [][OwnedNext]_owned => [][work' # work => Spared]_owned
  BY <1>1, PTL
<1>4. OthersUntouched <=> [][work' # work => Spared]_owned
  BY PTL DEF OthersUntouched, Spared
<1> QED BY <1>2, <1>3, <1>4, PTL DEF OwnedSpec
=============================================================================

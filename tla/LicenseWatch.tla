---------------------------- MODULE LicenseWatch ----------------------------
(***************************************************************************)
(* How the gateway controller follows an EE gateway's license through time *)
(* (gateway_license.go, util/license/window.go): every look at the license *)
(* reports its stage in the gateway's status, decides whether the pods run *)
(* CE instead, and says when to look again.  Secret changes and spec edits *)
(* arrive as events; the passing of time only through that timer.          *)
(*                                                                         *)
(* A license is named by its NotAfter, which also stands for the checksum  *)
(* of its bytes.  Time is counted in units that are long beside a pass.    *)
(* The CE render is taken to be acceptable: what happens otherwise is the  *)
(* subject of GatewayApply.                                                *)
(***************************************************************************)
EXTENDS Integers, FiniteSetsExt

CONSTANTS
  Warning,         \* expiryWarning
  SafetyBuffer,    \* licenseSafetyBuffer
  RecheckInterval, \* licenseRecheckInterval
  Licenses,        \* the NotAfter of the licenses there are
  Horizon,         \* bound on time
  MaxLicenseEdits, \* bound on changes of the Secret and of the spec
  MaxLicenseFaults \* bound on failed reads, failed passes and restarts

\* The warning is longer than the buffer (license.Window), and the buffer
\* leaves room for the failed passes the bound allows.
ASSUME WindowAssumption ==
  /\ Warning \in Nat /\ SafetyBuffer \in Nat
  /\ Horizon \in Nat /\ MaxLicenseEdits \in Nat /\ MaxLicenseFaults \in Nat
  /\ RecheckInterval \in Nat \ {0}
  /\ Warning > SafetyBuffer
  /\ SafetyBuffer > MaxLicenseFaults * RecheckInterval
  /\ Licenses \subseteq 1..Horizon

VARIABLES
  now,
  secret,    \* the license in the Secret, Nil when it cannot be read
  spec,      \* spec.edition and spec.license.fallbackToCE
  lic,       \* the License* conditions and status.licenseExpiry
  pods,      \* the edition and the license checksum of the pod template
  due,       \* when the timer of the last look fires, Never if not
  look,      \* the gateway is in the work queue
  clean,     \* history: the last look saw the Secret and its pass succeeded
  edited,    \* history: when somebody last changed the Secret or the spec
  budget     \* what is left of the bounds

license == <<now, secret, spec, lic, pods, due, look, clean, edited, budget>>

Nil   == 0
Never == Horizon + 1

LicenseTypeOK ==
  /\ now \in 0..Horizon
  /\ secret \in Licenses \cup {Nil}
  /\ spec \in [edition : {"CE", "EE"}, fallback : BOOLEAN]
  /\ lic \in [valid : {"none", "Valid", "ExpiringSoon", "PreExpiry", "Expired", "Unknown"},
              expired : {"none", "True", "False"}, degraded : {"none", "True", "False"},
              unavailable : {"none", "True", "False"}, expiry : Licenses \cup {Nil}]
  /\ pods \in [edition : {"CE", "EE"}, license : Licenses \cup {Nil}]
  /\ due \in now..Never
  /\ look \in BOOLEAN /\ clean \in BOOLEAN
  /\ edited \in 0..now
  /\ budget \in [edits : 0..MaxLicenseEdits, faults : 0..MaxLicenseFaults]

-----------------------------------------------------------------------------
(* The window.                                                             *)

\* Window.StageAt.
StageAt(notAfter, t) ==
  IF notAfter <= t THEN "Expired"
  ELSE IF notAfter <= t + SafetyBuffer THEN "PreExpiry"
  ELSE IF notAfter <= t + Warning THEN "ExpiringSoon"
  ELSE "Valid"

Late(notAfter, t) == StageAt(notAfter, t) \in {"PreExpiry", "Expired"}

\* Window.NextChange.
NextChange(notAfter, t) ==
  LET later == {b \in {notAfter - Warning, notAfter - SafetyBuffer, notAfter} : b > t}
  IN IF later = {} THEN 0 ELSE Min(later) - t

\* A mutant: the recheck interval alone.
NextLicenseCheckByInterval(notAfter, t) == RecheckInterval

\* nextLicenseCheck.
NextLicenseCheck(notAfter, t) ==
  LET d == NextChange(notAfter, t)
  IN IF 0 < d /\ d < RecheckInterval THEN d ELSE RecheckInterval

-----------------------------------------------------------------------------
(* One look: the status it leaves, whether it falls back, the timer and    *)
(* the license checksum of the template.                                   *)

NoLicense == [valid |-> "none", expired |-> "none", degraded |-> "none",
              unavailable |-> "none", expiry |-> Nil]

\* recoverLicense.
RecoverLicense(s) ==
  IF s.expired = "True" \/ s.degraded = "True"
    THEN [s EXCEPT !.expired = "False", !.degraded = "False"]
    ELSE s

\* expireLicense.
ExpireLicense(s, stage) ==
  [s EXCEPT !.valid = stage, !.expired = "True",
            !.degraded = IF spec.fallback THEN "True"
                         ELSE IF @ # "none" THEN "False" ELSE @]

\* applyLicenseStage: the status, and whether the gateway falls back to CE.
ApplyLicenseStage(s, stage) ==
  IF stage \in {"Valid", "ExpiringSoon"}
    THEN [lic |-> [RecoverLicense(s) EXCEPT !.valid = stage], ce |-> FALSE]
    ELSE [lic |-> ExpireLicense(s, stage), ce |-> spec.fallback]

\* A mutant: a license that cannot be read counts as an expired one.
ReconcileUnreadableLicenseClosed(s) ==
  [v |-> [lic |-> [s EXCEPT !.valid = "Unknown"], ce |-> TRUE],
   after |-> RecheckInterval, license |-> pods.license]

\* A mutant: the last known expiry is not looked at.
ReconcileUnreadableLicenseKeeping(s) ==
  [v |-> [lic |-> [s EXCEPT !.valid = "Unknown"], ce |-> s.degraded = "True"],
   after |-> RecheckInterval, license |-> pods.license]

\* reconcileUnreadableLicense.
ReconcileUnreadableLicense(s) ==
  LET kept == [lic |-> [s EXCEPT !.valid = "Unknown"], ce |-> s.degraded = "True"]
  IN IF s.expiry = Nil
       THEN [v |-> kept, after |-> RecheckInterval, license |-> pods.license]
       ELSE [v |-> IF Late(s.expiry, now) THEN ApplyLicenseStage(s, StageAt(s.expiry, now)) ELSE kept,
             after |-> NextLicenseCheck(s.expiry, now), license |-> pods.license]

\* reconcileLicense when it reads `seen`; forgetLicense for a CE gateway.
ReconcileLicense(seen) ==
  IF spec.edition = "CE"
    THEN [v |-> [lic |-> NoLicense, ce |-> FALSE], after |-> 0, license |-> Nil]
  ELSE IF seen = Nil
    THEN ReconcileUnreadableLicense([lic EXCEPT !.unavailable = "True"])
    ELSE [v |-> ApplyLicenseStage([lic EXCEPT !.unavailable = "False", !.expiry = seen],
                                  StageAt(seen, now)),
          after |-> NextLicenseCheck(seen, now), license |-> seen]

\* What the infrastructure stage writes: EditionFor and checksumFor.
TemplateFor(r) ==
  [edition |-> IF r.v.ce THEN "CE" ELSE spec.edition, license |-> r.license]

-----------------------------------------------------------------------------
(* Passes.                                                                 *)

Fault == budget.faults > 0 /\ budget' = [budget EXCEPT !.faults = @ - 1]

\* The work queue keeps the earlier of two timers.
Timer(after) ==
  LET old == IF due > now THEN due ELSE Never
  IN due' = IF after = 0 THEN old ELSE Min({old, now + after, Never})

\* A pass that succeeds.  Its status write, if there is one, is an event.
LookDone(seen) ==
  LET r == ReconcileLicense(seen)
  IN /\ look \/ now = due
     /\ \/ seen = secret /\ UNCHANGED budget
        \/ seen = Nil /\ secret # Nil /\ Fault
     /\ lic' = r.v.lic /\ pods' = TemplateFor(r)
     /\ look' = (lic' # lic)
     /\ clean' = (seen = secret)
     /\ Timer(r.after)
     /\ UNCHANGED <<now, secret, spec, edited>>

\* The retry of a failed pass waits as long as the rate limiter says, at most
\* the recheck interval (newGatewayRateLimiter).
Retry ==
  \E wait \in 0..RecheckInterval :
    look' = (wait = 0) /\ Timer(wait)

\* A pass that fails: before the look, after the status is stored but with the
\* Deployment not written, or with the status write lost after the Deployment
\* was written.
LookFailed ==
  /\ look \/ now = due
  /\ Fault /\ Retry
  /\ clean' = FALSE
  /\ LET r == ReconcileLicense(secret)
     IN \/ UNCHANGED <<lic, pods>>
        \/ lic' = r.v.lic /\ UNCHANGED pods
        \/ pods' = TemplateFor(r) /\ UNCHANGED lic
  /\ UNCHANGED <<now, secret, spec, edited>>

\* Timers die with the operator, which enqueues every gateway when it starts.
Restart ==
  /\ Fault
  /\ due' = Never /\ look' = TRUE
  /\ UNCHANGED <<now, secret, spec, lic, pods, clean, edited>>

\* Time passes while nothing is due: a pass is short beside a unit of time.
Tick ==
  /\ ~look /\ now < due /\ now < Horizon
  /\ now' = now + 1
  /\ UNCHANGED <<secret, spec, lic, pods, due, look, clean, edited, budget>>

Edit ==
  /\ budget.edits > 0
  /\ budget' = [budget EXCEPT !.edits = @ - 1]
  /\ look' = TRUE /\ edited' = now
  /\ UNCHANGED <<now, lic, pods, due, clean>>

\* The Secret is replaced, broken or removed: licenseSecretToGateway.
ChangeSecret(s) == Edit /\ s # secret /\ secret' = s /\ UNCHANGED spec

\* A user edits the spec.
ChangeLicenseSpec(s) == Edit /\ s # spec /\ spec' = s /\ UNCHANGED secret

LicenseInit ==
  /\ now = 0
  /\ secret \in Licenses \cup {Nil}
  /\ spec \in [edition : {"EE"}, fallback : BOOLEAN]
  /\ lic = NoLicense /\ pods = [edition |-> "EE", license |-> Nil]
  /\ due = Never /\ look = TRUE /\ clean = FALSE /\ edited = 0
  /\ budget = [edits |-> MaxLicenseEdits, faults |-> MaxLicenseFaults]

LicenseNext ==
  \/ \E s \in Licenses \cup {Nil} : LookDone(s) \/ ChangeSecret(s)
  \/ LookFailed \/ Restart \/ Tick
  \/ \E s \in [edition : {"CE", "EE"}, fallback : BOOLEAN] : ChangeLicenseSpec(s)

LicenseSpec == LicenseInit /\ [][LicenseNext]_license

-----------------------------------------------------------------------------
(* Properties.                                                             *)

\* With fallbackToCE, EE pods never outlive the license they were rolled with,
\* readable or not: the look at the safety buffer comes in time, even when
\* passes fail (gateway_license.go:101).  Two things are left out: an edit
\* inside the buffer, and a license the status never came to name because the
\* status write was lost before the Secret vanished.
NoPodOutlivesItsLicense ==
  /\ pods.edition = "EE" /\ spec = [edition |-> "EE", fallback |-> TRUE]
  /\ lic.expiry = pods.license /\ pods.license # Nil
  /\ edited <= pods.license - SafetyBuffer
  => now < pods.license

\* The license status s and the edition of the pods tell the stage at time t,
\* and a valid license, an expiry, a fallback switched on or off and a lost
\* Secret each leave exactly their conditions.
LicenseReport(s, edition, t) ==
  IF spec.edition = "CE" THEN s = NoLicense
  ELSE IF secret = Nil /\ (s.expiry = Nil \/ ~Late(s.expiry, t))
    THEN s.valid = "Unknown" /\ s.expired # "True" /\ s.degraded # "True"
    ELSE /\ secret \in {s.expiry, Nil}
         /\ s.valid = StageAt(s.expiry, t)
         /\ s.expired = "True" <=> Late(s.expiry, t)
         /\ s.degraded = "True" <=> Late(s.expiry, t) /\ spec.fallback
         /\ edition = "CE" <=> s.degraded = "True"

\* Between two looks the status never tells an older stage than the clock: the
\* timer fires at every boundary (a leftover LicenseExpired keeps a healthy
\* gateway out of Ready).
LicenseReportCurrent ==
  ~look /\ now < due /\ clean => LicenseReport(lic, pods.edition, now)

\* An outage of the Secret rolls nothing: a pass that cannot read the license
\* keeps the template's license checksum, and moves the pods to CE only once
\* the last known expiry is inside the safety buffer.
OutageRollsNothing ==
  [][ secret = Nil /\ pods' # pods /\ spec.edition = "EE"
        => /\ pods'.license = pods.license
           /\ pods'.edition = "CE" => lic.expiry # Nil /\ Late(lic.expiry, now) ]_license
=============================================================================

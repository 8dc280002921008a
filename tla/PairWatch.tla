------------------------------ MODULE PairWatch ------------------------------
(***************************************************************************)
(* harnessd's watch over one hybrid CTO (harness/daemon.py,                *)
(* _detect_pair_degradations): when only one of its Claude and Codex       *)
(* halves is alive and specs/tasks.md still has open work, the CEO gets    *)
(* one alert after a grace period; when the cause ends, the unread alert   *)
(* is stamped read again.                                                  *)
(*                                                                         *)
(* The alert lives in the database and survives the daemon; what the       *)
(* daemon knows of the pair (pair_state) lives in its memory and does not. *)
(* Any database call may fail.  Pairs are independent: one is enough.      *)
(***************************************************************************)
EXTENDS Naturals

CONSTANTS
  Grace,        (* PAIR_DEGRADED_GRACE_SEC                                 *)
  MaxGap,       (* bound: the longest time between two scans               *)
  MaxErrors,    (* bound: database errors                                  *)
  MaxRestarts   (* bound: restarts of the daemon                           *)

ASSUME PairAssumption ==
  /\ {Grace, MaxGap} \subseteq Nat \ {0}
  /\ {MaxErrors, MaxRestarts} \subseteq Nat

VARIABLES
  present,      (* the pair is registered                                  *)
  claude, codex,(* which half is alive                                     *)
  open,         (* tasks.md has incomplete tasks                           *)
  alerts,       (* the pair's unread alerts, by the status they report     *)
  status,       (* pair_state: the last status seen, "unknown" if none     *)
  active,       (* pair_state: tasks_active                                *)
  age,          (* pair_state: time since `since`                          *)
  alerted,      (* pair_state: alerted                                     *)
  steady,       (* history: for how long every scan, by this daemon or its *)
                (* predecessor, saw the same half missing with open work   *)
  last,         (* history: what the last scan saw                         *)
  unresolved,   (* history: a failed resolve left an alert unread          *)
  told,         (* history: an alert that names the half missing in this   *)
                (* episode was written, or found unread                    *)
  misnamed,     (* history: the alert found unread names the other half    *)
  unchecked,    (* history: the check for an unread alert failed           *)
  errors, restarts

world == <<present, claude, codex, open>>
memory == <<status, active, age, alerted>>
ghosts == <<steady, last, unresolved, told, misnamed, unchecked, errors,
            restarts>>
pairVars == <<world, alerts, memory, ghosts>>

Partial == {"claude-only", "codex-only"}
Status == Partial \cup {"healthy", "both-down"}

(* _pair_status                                                            *)
PairStatus == IF claude /\ codex THEN "healthy"
              ELSE IF claude THEN "claude-only"
              ELSE IF codex THEN "codex-only" ELSE "both-down"

NoAlert == [s \in Partial |-> 0]
AnyAlert == \E s \in Partial : alerts[s] > 0
Min2(a, b) == IF a <= b THEN a ELSE b

PairTypeOK ==
  /\ {present, claude, codex, open, active, alerted, unresolved,
      told, misnamed, unchecked} \subseteq BOOLEAN
  /\ alerts \in [Partial -> Nat]
  /\ status \in Status \cup {"unknown"}
  /\ age \in 0..Grace /\ steady \in 0..Grace
  /\ last \in Partial \cup {"whole"}
  /\ errors \in 0..MaxErrors /\ restarts \in 0..MaxRestarts

PairInit ==
  /\ present = FALSE /\ claude = FALSE /\ codex = FALSE /\ open = FALSE
  /\ alerts = NoAlert
  /\ status = "unknown" /\ active = FALSE /\ age = 0 /\ alerted = FALSE
  /\ steady = 0 /\ last = "whole"
  /\ unresolved = FALSE /\ told = FALSE /\ misnamed = FALSE /\ unchecked = FALSE
  /\ errors = 0 /\ restarts = 0

-----------------------------------------------------------------------------
(* The pair, its tasks and the CEO.                                        *)

Registers ==
  /\ ~present /\ present' = TRUE
  /\ UNCHANGED <<claude, codex, open, alerts, memory, ghosts>>

(* delete-cto: both halves are closed before the directory goes.           *)
Leaves ==
  /\ present /\ present' = FALSE
  /\ claude' = FALSE /\ codex' = FALSE /\ open' = FALSE
  /\ UNCHANGED <<alerts, memory, ghosts>>

HalfChanges ==
  /\ present
  /\ \/ claude' = ~claude /\ UNCHANGED codex
     \/ codex' = ~codex /\ UNCHANGED claude
  /\ UNCHANGED <<present, open, alerts, memory, ghosts>>

TasksChange ==
  /\ present /\ open' = ~open
  /\ UNCHANGED <<present, claude, codex, alerts, memory, ghosts>>

(* The CEO's inbox is read, pulled or cleared.                             *)
CeoReads ==
  /\ AnyAlert
  /\ alerts' = NoAlert /\ unresolved' = FALSE
  /\ UNCHANGED <<world, memory, steady, last, told, misnamed, unchecked,
                 errors, restarts>>

-----------------------------------------------------------------------------
(* One scan of the pair.                                                   *)

Ok(ok) == /\ ok \/ errors < MaxErrors
          /\ errors' = IF ok THEN errors ELSE errors + 1

(* _resolve_pair_alerts swallows a database error.                         *)
Resolve(ok) ==
  /\ Ok(ok)
  /\ alerts' = IF ok THEN NoAlert ELSE alerts
  /\ unresolved' = IF ok THEN FALSE ELSE AnyAlert

NoResolve == UNCHANGED <<alerts, unresolved, errors>>

(* What scans saw of the pair, whether or not the daemon remembers it.     *)
Saw(s, d) ==
  /\ last' = s
  /\ steady' = IF s # "whole" /\ last = s THEN Min2(steady + d, Grace) ELSE 0

Remember(s, a) ==
  /\ status' = s /\ active' = a /\ age' = 0 /\ alerted' = FALSE
  /\ told' = FALSE /\ misnamed' = FALSE /\ unchecked' = FALSE

(* A pair that left the registry is resolved and forgotten.                *)
ScanGone(ok, d) ==
  /\ ~present /\ status # "unknown"
  /\ Resolve(ok)
  /\ Remember("unknown", FALSE)
  /\ Saw("whole", d)
  /\ UNCHANGED <<world, restarts>>

(* Both halves up or both down: nothing to alert, an old alert is over.    *)
ScanWhole(ok, d) ==
  /\ present /\ PairStatus \notin Partial
  /\ IF status # PairStatus THEN Resolve(ok) ELSE NoResolve
  /\ Remember(PairStatus, FALSE)
  /\ Saw("whole", d)
  /\ UNCHANGED <<world, restarts>>

(* One half with no open work.                                             *)
ScanDone(ok, d) ==
  /\ present /\ PairStatus \in Partial /\ ~open
  /\ IF status # PairStatus \/ active THEN Resolve(ok) ELSE NoResolve
  /\ Remember(PairStatus, FALSE)
  /\ Saw("whole", d)
  /\ UNCHANGED <<world, restarts>>

(* Slip: an episode goes on although the other half is missing now.        *)
ContinuingAnyHalf == active

(* Slip: the remembered tasks_active is compared with the wrong constant.  *)
ContinuingNever == status = PairStatus /\ active /\ ~open

Continuing == status = PairStatus /\ active

(* First sight of this episode.  After a restart the unread alert is kept: *)
(* the daemon before may have written it for this very episode.            *)
ScanNew(ok, d) ==
  /\ present /\ PairStatus \in Partial /\ open /\ ~Continuing
  /\ IF status # "unknown" THEN Resolve(ok) ELSE NoResolve
  /\ Remember(PairStatus, TRUE)
  /\ Saw(PairStatus, d)
  /\ UNCHANGED <<world, restarts>>

Aged(d) == Min2(age + d, Grace)

Persisting(d) ==
  /\ present /\ PairStatus \in Partial /\ open /\ Continuing
  /\ age' = Aged(d)
  /\ Saw(PairStatus, d)
  /\ UNCHANGED <<world, status, active, unresolved, restarts>>

(* Still in the grace period, or already told.                             *)
ScanWaits(d) ==
  /\ Persisting(d)
  /\ Aged(d) < Grace \/ alerted
  /\ UNCHANGED <<alerts, alerted, told, misnamed, unchecked, errors>>

(* _pair_alert_already_unread: an alert of either half counts, and an      *)
(* error counts as "yes, there is one".                                    *)
ScanFindsAlert(ok, d) ==
  /\ Persisting(d)
  /\ Aged(d) >= Grace /\ ~alerted
  /\ ok => AnyAlert
  /\ Ok(ok)
  /\ alerted' = TRUE
  /\ told' = (ok /\ alerts[PairStatus] > 0)
  /\ misnamed' = (ok /\ alerts[PairStatus] = 0)
  /\ unchecked' = ~ok
  /\ UNCHANGED alerts

(* Slip: the INSERT does not look for an alert left unread.                *)
ScanAlertsBlindly(ok, d) ==
  /\ Persisting(d)
  /\ Aged(d) >= Grace /\ ~alerted
  /\ Ok(ok)
  /\ alerted' = ok /\ told' = ok
  /\ alerts' = IF ok THEN [alerts EXCEPT ![PairStatus] = @ + 1] ELSE alerts
  /\ UNCHANGED <<misnamed, unchecked>>

(* The INSERT; when it fails the next scan tries again.                    *)
ScanAlerts(ok, d) ==
  /\ Persisting(d)
  /\ Aged(d) >= Grace /\ ~alerted
  /\ ~AnyAlert
  /\ Ok(ok)
  /\ alerted' = ok /\ told' = ok
  /\ alerts' = IF ok THEN [alerts EXCEPT ![PairStatus] = @ + 1] ELSE alerts
  /\ UNCHANGED <<misnamed, unchecked>>

Restart ==
  /\ restarts < MaxRestarts /\ restarts' = restarts + 1
  /\ status' = "unknown" /\ active' = FALSE /\ age' = 0 /\ alerted' = FALSE
  /\ told' = FALSE /\ misnamed' = FALSE /\ unchecked' = FALSE
  /\ UNCHANGED <<world, alerts, steady, last, unresolved, errors>>

-----------------------------------------------------------------------------
Scan(d) ==
  \/ \E ok \in BOOLEAN :
       \/ ScanGone(ok, d) \/ ScanWhole(ok, d) \/ ScanDone(ok, d)
       \/ ScanNew(ok, d) \/ ScanFindsAlert(ok, d) \/ ScanAlerts(ok, d)
  \/ ScanWaits(d)

PairNext ==
  \/ Registers \/ Leaves \/ HalfChanges \/ TasksChange \/ CeoReads
  \/ \E d \in 1..MaxGap : Scan(d)
  \/ Restart

(* The main loop scans for ever.                                           *)
PairSpec == PairInit /\ [][PairNext]_pairVars /\ WF_pairVars(\E d \in 1..MaxGap : Scan(d))

-----------------------------------------------------------------------------
(* However the halves flap, the daemon restarts and the database fails,    *)
(* the CEO never has two unread alerts of one pair; and once a scan saw    *)
(* the cause gone, none stays unread, also when it was written by an       *)
(* earlier daemon, unless the resolving UPDATE failed.                     *)
UnreadAlertsFit ==
  /\ \A s \in Partial : alerts[s] <= 1
  /\ alerts["claude-only"] = 0 \/ alerts["codex-only"] = 0
  /\ status # "unknown" /\ ~active /\ ~unresolved => ~AnyAlert

(* An alert is written only when every scan of a whole grace period saw    *)
(* the same half missing with open work.                                   *)
AlertAfterGrace ==
  [][\A s \in Partial :
       alerts'[s] > alerts[s] => last' = s /\ steady' >= Grace]_pairVars

(* A lasting loss of one half with open work reaches the CEO by its name,  *)
(* past failed inserts, flapping and restarts, with two exceptions.  An    *)
(* error of the check for an older alert silences the episode ("fail-open  *)
(* to True").  And so does an unread alert that names the other half: one  *)
(* written before a restart after which the other half was found missing,  *)
(* or one whose resolving UPDATE failed.                                   *)
LossIsTold ==
  \A s \in Partial :
    <>[](present /\ PairStatus = s /\ open) => <>[](told \/ misnamed \/ unchecked)

=============================================================================

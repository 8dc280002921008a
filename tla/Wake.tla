-------------------------------- MODULE Wake ---------------------------------
(***************************************************************************)
(* harnessd's wake loop (harness/daemon.py, tick) for one role that is not *)
(* the CEO: unread mail makes the daemon type "/inbox" into the role's     *)
(* terminal, but only after the terminal has looked idle for IdleConfirm,  *)
(* and not again before a cooldown that doubles while the inbox does not   *)
(* drain.  The roles of one tick do not share state, so one role is enough; *)
(* the time the others take is in the gap between two ticks.               *)
(*                                                                         *)
(* A tick reads the mail, then looks at the terminal, then sends: the      *)
(* session and the senders go on between those steps.  Timestamps are kept *)
(* as ages, and an age stops growing at the largest value it is compared   *)
(* with.                                                                   *)
(***************************************************************************)
EXTENDS Naturals

CONSTANTS
  IdleConfirm,  (* IDLE_CONFIRM_SEC                                        *)
  Cooldown,     (* WAKE_COOLDOWN_SEC                                       *)
  MaxBackoff,   (* MAX_WAKE_BACKOFF_SEC                                    *)
  MaxGap,       (* bound: the longest time between two ticks               *)
  MaxUnread,    (* bound: unread rows of the role                          *)
  MaxRestarts   (* bound: restarts of the daemon                           *)

ASSUME WakeAssumption ==
  /\ {IdleConfirm, Cooldown, MaxGap, MaxUnread} \subseteq Nat \ {0}
  /\ MaxBackoff \in Nat /\ Cooldown <= MaxBackoff
  /\ MaxRestarts \in Nat

VARIABLES
  unread,       (* unread rows of the role in the table                    *)
  ceoMail,      (* the CEO has unread rows                                 *)
  ceoFlag,      (* the file inbox-ceo.flag exists                          *)
  sess,         (* the role's terminal: "gone", "shell" (the agent died    *)
                (* under it), "busy" or "idle"                             *)
  phase,        (* the daemon: "asleep", "polling", "sending"              *)
  seen,         (* the unread count this tick works with                   *)
  woken,        (* the role is in last_woken                               *)
  wakeAge,      (* time since last_woken                                   *)
  lastUnread,   (* last_unread                                             *)
  factor,       (* backoff                                                 *)
  confirming,   (* the role is in idle_since                               *)
  idleFor,      (* time since idle_since                                   *)
  samples,      (* history: what the ticks saw since idle_since was set    *)
  quiet,        (* history: time since the last acknowledged wake          *)
  restarts      (* history: restarts so far                                *)

mail == <<unread, ceoMail>>
world == <<unread, ceoMail, sess>>
memory == <<woken, wakeAge, lastUnread, factor, confirming, idleFor>>
ghosts == <<samples, quiet, restarts>>
wakeVars == <<world, ceoFlag, phase, seen, memory, ghosts>>

MaxFactor == MaxBackoff \div Cooldown
Min2(a, b) == IF a <= b THEN a ELSE b

WakeTypeOK ==
  /\ unread \in 0..MaxUnread /\ ceoMail \in BOOLEAN /\ ceoFlag \in BOOLEAN
  /\ sess \in {"gone", "shell", "busy", "idle"}
  /\ phase \in {"asleep", "polling", "sending"}
  /\ seen \in 0..MaxUnread
  /\ woken \in BOOLEAN /\ wakeAge \in 0..MaxBackoff
  /\ lastUnread \in 0..MaxUnread
  /\ factor \in 1..MaxFactor
  /\ confirming \in BOOLEAN /\ idleFor \in 0..IdleConfirm
  /\ samples \subseteq {"gone", "shell", "busy", "idle"}
  /\ quiet \in 0..IdleConfirm
  /\ restarts \in 0..MaxRestarts

Forget ==
  /\ woken' = FALSE /\ wakeAge' = 0 /\ lastUnread' = 0 /\ factor' = 1
  /\ confirming' = FALSE /\ idleFor' = 0

WakeInit ==
  /\ unread = 0 /\ ceoMail = FALSE /\ ceoFlag = FALSE
  /\ sess \in {"gone", "idle"}
  /\ phase = "asleep" /\ seen = 0
  /\ woken = FALSE /\ wakeAge = 0 /\ lastUnread = 0 /\ factor = 1
  /\ confirming = FALSE /\ idleFor = 0
  /\ samples = {} /\ quiet = IdleConfirm
  /\ restarts = 0

-----------------------------------------------------------------------------
(* The world around the daemon.                                            *)

Arrive ==
  /\ unread < MaxUnread
  /\ unread' = unread + 1
  /\ UNCHANGED <<ceoMail, sess, ceoFlag, phase, seen, memory, ghosts>>

(* The session, or a person, runs `harness inbox`: the whole backlog goes.  *)
Drain ==
  /\ unread > 0
  /\ unread' = 0
  /\ UNCHANGED <<ceoMail, sess, ceoFlag, phase, seen, memory, ghosts>>

SessionChanges ==
  /\ sess' \in {"gone", "shell", "busy", "idle"} \ {sess}
  /\ UNCHANGED <<mail, ceoFlag, phase, seen, memory, ghosts>>

CeoMailChanges ==
  /\ ceoMail' = ~ceoMail
  /\ UNCHANGED <<unread, sess, ceoFlag, phase, seen, memory, ghosts>>

-----------------------------------------------------------------------------
(* tick, from its SELECT to its last assignment.                           *)

(* Count the unread rows; a role with none loses its wake state.           *)
Count(d) ==
  /\ phase = "asleep"
  /\ ceoFlag' = ceoMail
  /\ seen' = unread
  /\ quiet' = Min2(quiet + d, IdleConfirm)
  /\ IF unread = 0
       THEN Forget /\ UNCHANGED phase
       ELSE /\ phase' = "polling"
            /\ wakeAge' = IF woken THEN Min2(wakeAge + d, MaxBackoff) ELSE 0
            /\ idleFor' = IF confirming THEN Min2(idleFor + d, IdleConfirm) ELSE 0
            /\ UNCHANGED <<woken, lastUnread, factor, confirming>>
  /\ UNCHANGED <<world, samples, restarts>>

CooldownOf(f) == Min2(Cooldown * f, MaxBackoff)

(* A role never woken has last_woken 0.0, far in the monotonic past.       *)
CoolingDown == woken /\ wakeAge < CooldownOf(factor)

StayQuiet ==
  /\ phase = "polling" /\ CoolingDown
  /\ phase' = "asleep"
  /\ UNCHANGED <<world, ceoFlag, seen, memory, ghosts>>

(* No handle, a dead terminal or a dead agent: skipped, with idle_since    *)
(* left as it was.                                                         *)
SkipAbsent ==
  /\ phase = "polling" /\ ~CoolingDown
  /\ sess \in {"gone", "shell"}
  /\ phase' = "asleep"
  /\ samples' = IF confirming THEN samples \cup {sess} ELSE samples
  /\ UNCHANGED <<world, ceoFlag, seen, memory, quiet, restarts>>

(* Slip: a busy sample does not restart the idle timer.                    *)
SkipBusyKeepsTimer ==
  /\ phase = "polling" /\ ~CoolingDown
  /\ sess = "busy"
  /\ phase' = "asleep"
  /\ samples' = IF confirming THEN samples \cup {sess} ELSE samples
  /\ UNCHANGED <<world, ceoFlag, seen, memory, quiet, restarts>>

SkipBusy ==
  /\ phase = "polling" /\ ~CoolingDown
  /\ sess = "busy"
  /\ phase' = "asleep"
  /\ confirming' = FALSE /\ idleFor' = 0
  /\ samples' = {}
  /\ UNCHANGED <<world, ceoFlag, seen, woken, wakeAge, lastUnread, factor,
                 quiet, restarts>>

(* Slip: idle_since is assigned on every idle sample.                      *)
SeeIdleRestarts ==
  /\ phase = "polling" /\ ~CoolingDown
  /\ sess = "idle"
  /\ confirming' = TRUE /\ idleFor' = 0
  /\ phase' = "asleep"
  /\ samples' = (IF confirming THEN samples ELSE {}) \cup {"idle"}
  /\ UNCHANGED <<world, ceoFlag, seen, woken, wakeAge, lastUnread, factor,
                 quiet, restarts>>

(* idle_since.setdefault; then the age decides.                            *)
SeeIdle ==
  /\ phase = "polling" /\ ~CoolingDown
  /\ sess = "idle"
  /\ confirming' = TRUE
  /\ idleFor' = IF confirming THEN idleFor ELSE 0
  /\ phase' = IF confirming /\ idleFor >= IdleConfirm THEN "sending" ELSE "asleep"
  /\ samples' = (IF confirming THEN samples ELSE {}) \cup {"idle"}
  /\ UNCHANGED <<world, ceoFlag, seen, woken, wakeAge, lastUnread, factor,
                 quiet, restarts>>

(* The send is acknowledged: the backoff grows if the count did not fall.  *)
Wake ==
  /\ phase = "sending"
  /\ phase' = "asleep"
  /\ factor' = IF woken /\ seen >= lastUnread THEN Min2(factor * 2, MaxFactor)
               ELSE 1
  /\ lastUnread' = seen
  /\ woken' = TRUE /\ wakeAge' = 0
  /\ confirming' = FALSE /\ idleFor' = 0
  /\ samples' = {} /\ quiet' = 0
  /\ UNCHANGED <<world, ceoFlag, seen, restarts>>

(* A send that fails or times out changes nothing: the next tick retries.  *)
SendFails ==
  /\ phase = "sending"
  /\ phase' = "asleep"
  /\ UNCHANGED <<world, ceoFlag, seen, memory, ghosts>>

(* The daemon is restarted: what it kept in memory is gone.                *)
Restart ==
  /\ restarts < MaxRestarts
  /\ restarts' = restarts + 1
  /\ phase' = "asleep"
  /\ Forget
  /\ samples' = {}
  /\ UNCHANGED <<world, ceoFlag, seen, quiet>>

-----------------------------------------------------------------------------
Look == StayQuiet \/ SkipAbsent \/ SkipBusy \/ SeeIdle

WakeNext ==
  \/ Arrive \/ Drain \/ SessionChanges \/ CeoMailChanges
  \/ \E d \in 1..MaxGap : Count(d)
  \/ Look \/ Wake \/ SendFails \/ Restart

(* The main loop never stops ticking: every call in it has a timeout.      *)
(* Nothing is assumed of the session, the senders or the sends' success.   *)
WakeFairness ==
  /\ WF_wakeVars(\E d \in 1..MaxGap : Count(d))
  /\ WF_wakeVars(Look)
  /\ WF_wakeVars(Wake \/ SendFails)

WakeSpec == WakeInit /\ [][WakeNext]_wakeVars /\ WakeFairness

-----------------------------------------------------------------------------
(* A wake follows IdleConfirm of watching in which no sample was busy, and *)
(* comes at least IdleConfirm after the last acknowledged one, whatever    *)
(* the cooldown is and also when the daemon was restarted in between.      *)
QuietBeforeWake ==
  phase = "sending" =>
    /\ confirming /\ idleFor >= IdleConfirm /\ "busy" \notin samples
    /\ quiet >= IdleConfirm

(* A session that sits idle on unread mail is woken again and again: the   *)
(* backoff delays wakes and never ends them.                               *)
IdleMailIsNudged ==
  <>[](unread > 0 /\ sess = "idle") => []<>(phase = "sending")

=============================================================================

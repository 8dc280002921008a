------------------------------- MODULE Watches -------------------------------
(***************************************************************************)
(* Directive watches (harness/daemon.py, check_watches, and the part of    *)
(* main's loop around it).  A watch is a file <name>.json holding a shell  *)
(* probe; the daemon runs the probe at most once per interval and tells    *)
(* the addressee when it succeeds or when the watch outlives its ttl; then *)
(* it renames the file, so that a restart does not tell again.             *)
(*                                                                         *)
(* The notice (a row) and the rename (a file) are two steps: the daemon    *)
(* may die between them, either may fail, and an exception out of          *)
(* check_watches skips the wake tick of that iteration.                    *)
(***************************************************************************)
EXTENDS Naturals

CONSTANTS
  MaxWatch,   (* watches 1..MaxWatch, in the order glob's result is sorted *)
  Interval,   (* interval_sec                                              *)
  MaxGap,     (* bound: the longest time between two passes                *)
  MaxRegs,    (* bound: files written under one name                       *)
  MaxFaults   (* bound: failed inserts, failed renames and crashes         *)

ASSUME WatchAssumption ==
  {MaxWatch, Interval, MaxGap, MaxRegs, MaxFaults} \subseteq Nat

Watch == 1..MaxWatch

VARIABLES
  file,       (* watch -> "none", "good", "broken" (bad JSON or field),    *)
              (* or how it ended: "fired", "expired", "bad"                *)
  met,        (* watch -> its probe would succeed now                      *)
  overdue,    (* watch -> the file is older than its ttl                   *)
  regs,       (* watch -> files written under that name so far             *)
  stage,      (* the daemon: "asleep", "pass", "fire", "fired", "expired"  *)
              (* (a notice went out, the rename is next), "tick"           *)
  listed,     (* the rest of this pass's glob                              *)
  read,       (* which registration the current step's spec was read from  *)
  since,      (* watch_state: watch -> time since its last probe; Interval *)
              (* stands for "long enough, or never"                        *)
  notices,    (* history: notices about the file now under the name        *)
  torn,       (* history: a crash or failed rename came after a notice     *)
  swapped,    (* history: the file was written while the daemon was busy   *)
              (* with the one it replaced                                  *)
  faults

files == <<file, met, overdue, regs>>
daemon == <<stage, listed, read, since>>
vars == <<files, daemon, notices, torn, swapped, faults>>

TypeOK ==
  /\ file \in [Watch -> {"none", "good", "broken", "fired", "expired", "bad"}]
  /\ met \in [Watch -> BOOLEAN] /\ overdue \in [Watch -> BOOLEAN]
  /\ regs \in [Watch -> 0..MaxRegs]
  /\ stage \in {"asleep", "pass", "fire", "fired", "expired", "tick"}
  /\ listed \subseteq Watch
  /\ stage \in {"fire", "fired", "expired"} => listed # {}
  /\ since \in [Watch -> 0..Interval]
  /\ notices \in [Watch -> Nat]
  /\ torn \subseteq Watch /\ swapped \subseteq Watch
  /\ read \in 0..MaxRegs
  /\ faults \in 0..MaxFaults

Init ==
  /\ file = [w \in Watch |-> "none"]
  /\ met = [w \in Watch |-> FALSE] /\ overdue = [w \in Watch |-> FALSE]
  /\ regs = [w \in Watch |-> 0]
  /\ stage = "asleep" /\ listed = {}
  /\ since = [w \in Watch |-> Interval]
  /\ notices = [w \in Watch |-> 0]
  /\ torn = {} /\ swapped = {} /\ faults = 0
  /\ read = 0

Live(w) == file[w] \in {"good", "broken"}

-----------------------------------------------------------------------------
(* The CEO session and the world.                                          *)

At(w) == w \in listed /\ \A v \in listed : w <= v

Busy(w) == stage \in {"fire", "fired", "expired"} /\ At(w)

(* A file is written under a free name, or over the one that is there.     *)
Register(w, kind) ==
  /\ regs[w] < MaxRegs
  /\ kind \in {"good", "broken"}
  /\ file' = [file EXCEPT ![w] = kind]
  /\ regs' = [regs EXCEPT ![w] = @ + 1]
  /\ overdue' = [overdue EXCEPT ![w] = FALSE]
  /\ notices' = [notices EXCEPT ![w] = 0]
  /\ torn' = torn \ {w}
  /\ swapped' = IF Busy(w) THEN swapped \cup {w} ELSE swapped \ {w}
  /\ UNCHANGED <<met, daemon, faults>>

Remove(w) ==
  /\ Live(w)
  /\ file' = [file EXCEPT ![w] = "none"]
  /\ UNCHANGED <<met, overdue, regs, daemon, notices, torn, swapped, faults>>

ConditionChanges(w) ==
  /\ met' = [met EXCEPT ![w] = ~@]
  /\ UNCHANGED <<file, overdue, regs, daemon, notices, torn, swapped, faults>>

TtlRunsOut(w) ==
  /\ Live(w) /\ ~overdue[w]
  /\ overdue' = [overdue EXCEPT ![w] = TRUE]
  /\ UNCHANGED <<file, met, regs, daemon, notices, torn, swapped, faults>>

-----------------------------------------------------------------------------
(* One pass over the directory.                                            *)

Fault(ok) == /\ ok \/ faults < MaxFaults
             /\ faults' = IF ok THEN faults ELSE faults + 1

Aged(s, d) == IF s + d <= Interval THEN s + d ELSE Interval

StartPass(d) ==
  /\ stage = "asleep"
  /\ stage' = "pass"
  /\ listed' = {w \in Watch : Live(w)}
  /\ since' = [w \in Watch |-> Aged(since[w], d)]
  /\ UNCHANGED <<files, read, notices, torn, swapped, faults>>

(* The exception leaves check_watches: the rest of the pass and the tick   *)
(* of this iteration are skipped; main logs it and sleeps.                 *)
Raise == stage' = "asleep" /\ listed' = {} /\ read' = 0

Advance(w) == stage' = "pass" /\ listed' = listed \ {w} /\ read' = 0

(* The file went away after the glob: reading it fails, and so does the    *)
(* rename that would quarantine it.                                        *)
Vanished(w) ==
  /\ stage = "pass" /\ At(w) /\ ~Live(w)
  /\ Raise
  /\ UNCHANGED <<files, since, notices, torn, swapped, faults>>

Quarantine(w, ok) ==
  /\ stage = "pass" /\ At(w) /\ file[w] = "broken"
  /\ Fault(ok)
  /\ IF ok THEN Advance(w) /\ file' = [file EXCEPT ![w] = "bad"]
           ELSE Raise /\ UNCHANGED file
  /\ UNCHANGED <<met, overdue, regs, since, notices, torn, swapped>>

(* The notice is about the registration `spec`; one that fails is retried. *)
Notice(w, ok, spec, next) ==
  /\ Fault(ok)
  /\ IF ok THEN /\ stage' = next /\ read' = spec /\ UNCHANGED listed
                /\ notices' = IF spec = regs[w]
                                THEN [notices EXCEPT ![w] = @ + 1] ELSE notices
           ELSE Advance(w) /\ UNCHANGED notices
  /\ UNCHANGED <<files, since, torn, swapped>>

(* Slip: the result of the insert is not looked at.                        *)
NotifyExpiryUnchecked(w, ok) ==
  /\ stage = "pass" /\ At(w) /\ file[w] = "good" /\ overdue[w]
  /\ Fault(ok)
  /\ stage' = "expired" /\ read' = regs[w]
  /\ notices' = IF ok THEN [notices EXCEPT ![w] = @ + 1] ELSE notices
  /\ UNCHANGED <<files, listed, since, torn, swapped>>

(* Slip: an old file is passed over without a word.                        *)
NotifyExpirySkips(w, ok) ==
  /\ stage = "pass" /\ At(w) /\ file[w] = "good" /\ overdue[w]
  /\ ok /\ Advance(w)
  /\ UNCHANGED <<files, since, notices, torn, swapped, faults>>

(* Expiry is decided before the probe would run.                           *)
NotifyExpiry(w, ok) ==
  /\ stage = "pass" /\ At(w) /\ file[w] = "good" /\ overdue[w]
  /\ Notice(w, ok, regs[w], "expired")

Due(w) == file[w] = "good" /\ ~overdue[w]

Throttle(w) ==
  /\ stage = "pass" /\ At(w) /\ Due(w) /\ since[w] < Interval
  /\ Advance(w)
  /\ UNCHANGED <<files, since, notices, torn, swapped, faults>>

(* since restarts before the probe runs; a timeout or an error of the      *)
(* probe counts as "not met".                                              *)
Probe(w, answered) ==
  /\ stage = "pass" /\ At(w) /\ Due(w) /\ since[w] = Interval
  /\ since' = [since EXCEPT ![w] = 0]
  /\ IF answered /\ met[w]
       THEN stage' = "fire" /\ read' = regs[w] /\ UNCHANGED listed
       ELSE Advance(w)
  /\ UNCHANGED <<files, notices, torn, swapped, faults>>

NotifyFired(w, ok) ==
  /\ stage = "fire" /\ At(w)
  /\ Notice(w, ok, read, "fired")

(* The rename ends the watch.  It fails if the file was removed meanwhile. *)
Archive(w, ok) ==
  /\ stage \in {"fired", "expired"} /\ At(w)
  /\ Fault(ok \/ ~Live(w))
  /\ IF ok /\ Live(w)
       THEN /\ Advance(w)
            /\ file' = [file EXCEPT ![w] = stage]
            /\ since' = [since EXCEPT ![w] = Interval]
            /\ UNCHANGED torn
       ELSE /\ Raise
            /\ torn' = torn \cup {w}
            /\ UNCHANGED <<file, since>>
  /\ UNCHANGED <<met, overdue, regs, notices, swapped>>

EndPass ==
  /\ stage = "pass" /\ listed = {}
  /\ stage' = "tick"
  /\ UNCHANGED <<files, listed, read, since, notices, torn, swapped, faults>>

(* main: tick runs, then the loop sleeps.                                  *)
Tick ==
  /\ stage = "tick"
  /\ stage' = "asleep"
  /\ UNCHANGED <<files, listed, read, since, notices, torn, swapped, faults>>

(* The daemon dies and is started again: watch_state is gone.              *)
Crash ==
  /\ Fault(FALSE)
  /\ Raise
  /\ since' = [w \in Watch |-> Interval]
  /\ torn' = IF stage \in {"fired", "expired"}
               THEN torn \cup {w \in Watch : At(w)} ELSE torn
  /\ UNCHANGED <<files, notices, swapped>>

-----------------------------------------------------------------------------
PassStep ==
  \/ \E d \in 1..MaxGap : StartPass(d)
  \/ \E w \in Watch :
       \/ Vanished(w) \/ Throttle(w)
       \/ \E ok \in BOOLEAN :
            \/ Quarantine(w, ok) \/ NotifyExpiry(w, ok) \/ Probe(w, ok)
            \/ NotifyFired(w, ok) \/ Archive(w, ok)
  \/ EndPass \/ Tick

Next ==
  \/ \E w \in Watch :
       \/ \E kind \in {"good", "broken"} : Register(w, kind)
       \/ Remove(w) \/ ConditionChanges(w) \/ TtlRunsOut(w)
  \/ PassStep
  \/ Crash

(* The loop never stops, and a ttl runs out some day.                      *)
Fairness ==
  /\ WF_vars(PassStep)
  /\ \A w \in Watch : WF_vars(TtlRunsOut(w))

Spec == Init /\ [][Next]_vars /\ Fairness

-----------------------------------------------------------------------------
(* A watch is put away as fired or expired only after a notice about it is *)
(* in the message table, unless its file was written while the daemon was  *)
(* between reading the spec it replaced and renaming the file; and it is   *)
(* told once: a second notice takes a crash or a failed rename between a   *)
(* notice and its rename.                                                  *)
ToldThenArchived ==
  \A w \in Watch :
    /\ file[w] \in {"fired", "expired"} => notices[w] > 0 \/ w \in swapped
    /\ notices[w] > 1 => w \in torn

(* Every registered watch comes to an end, whatever happens to the others. *)
WatchEnds == \A w \in Watch : (file[w] = "good") ~> (file[w] # "good")

=============================================================================

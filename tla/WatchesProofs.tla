---------------------------- MODULE WatchesProofs ----------------------------
(***************************************************************************)
(* Theorems about Watches: its types, and that for any number of watches,  *)
(* registrations and faults a watch is put away only after its notice and  *)
(* told once.                                                              *)
(***************************************************************************)
EXTENDS Watches, TLAPS

(* What the module assumes of its constants.                               *)
LEMMA Constants ==
  /\ MaxWatch \in Nat /\ Interval \in Nat /\ MaxGap \in Nat
  /\ MaxRegs \in Nat /\ MaxFaults \in Nat
  BY WatchAssumption

(* The truth values and the rest of the types have a proof each.           *)
Bools == met \in [Watch -> BOOLEAN] /\ overdue \in [Watch -> BOOLEAN]
Rest ==
  /\ file \in [Watch -> {"none", "good", "broken", "fired", "expired", "bad"}]
  /\ regs \in [Watch -> 0..MaxRegs]
  /\ stage \in {"asleep", "pass", "fire", "fired", "expired", "tick"}
  /\ listed \subseteq Watch
  /\ stage \in {"fire", "fired", "expired"} => listed # {}
  /\ since \in [Watch -> 0..Interval]
  /\ notices \in [Watch -> Nat]
  /\ torn \subseteq Watch /\ swapped \subseteq Watch
  /\ read \in 0..MaxRegs
  /\ faults \in 0..MaxFaults

(* The types in two groups.                                                *)
LEMMA TypeParts == TypeOK <=> Bools /\ Rest
  BY DEF TypeOK, Bools, Rest

(* The truth values stay truth values.                                     *)
LEMMA BoolsStep == Bools /\ [Next]_vars => Bools'
<1> SUFFICES ASSUME Bools, [Next]_vars PROVE Bools'
  OBVIOUS
<1> USE DEF Bools
<1>1. ASSUME NEW w \in Watch, NEW kind, Register(w, kind) PROVE Bools'
  BY <1>1 DEF Register
<1>2. ASSUME NEW w \in Watch, Remove(w) PROVE Bools'
  BY <1>2 DEF Remove
<1>3. ASSUME NEW w \in Watch, ConditionChanges(w) PROVE Bools'
  BY <1>3 DEF ConditionChanges
<1>4. ASSUME NEW w \in Watch, TtlRunsOut(w) PROVE Bools'
  BY <1>4 DEF TtlRunsOut
<1>5. CASE PassStep
  BY <1>5 DEF PassStep, StartPass, Vanished, Throttle, Quarantine, NotifyExpiry,
              Notice, Probe, NotifyFired, Archive, EndPass, Tick, files
<1>6. CASE Crash \/ UNCHANGED vars
  BY <1>6 DEF Crash, vars, files
<1> QED
  BY <1>1, <1>2, <1>3, <1>4, <1>5, <1>6 DEF Next

(* Every step keeps the other types.                                       *)
LEMMA RestStep == Rest /\ [Next]_vars => Rest'
<1> SUFFICES ASSUME Rest, [Next]_vars PROVE Rest'
  OBVIOUS
<1> USE Constants DEF Rest
<1>1. ASSUME NEW w \in Watch, NEW kind \in {"good", "broken"}, Register(w, kind)
      PROVE Rest'
  BY <1>1 DEF Register, daemon
<1>2. ASSUME NEW w \in Watch, Remove(w) \/ ConditionChanges(w) \/ TtlRunsOut(w)
      PROVE Rest'
  <2>1. CASE Remove(w)
    BY <2>1 DEF Remove, daemon
  <2>2. CASE ConditionChanges(w)
    BY <2>2 DEF ConditionChanges, daemon
  <2>3. CASE TtlRunsOut(w)
    BY <2>3 DEF TtlRunsOut, daemon
  <2> QED
    BY <1>2, <2>1, <2>2, <2>3
<1>3. ASSUME NEW d \in 1..MaxGap, StartPass(d) PROVE Rest'
  <2>1. [w \in Watch |-> Aged(since[w], d)] \in [Watch -> 0..Interval]
    BY DEF Aged
  <2> QED
    BY <1>3, <2>1 DEF StartPass, files
<1>4. ASSUME NEW w \in Watch, Vanished(w) \/ Throttle(w) PROVE Rest'
  BY <1>4 DEF Vanished, Throttle, Raise, Advance, files
<1>5. ASSUME NEW w \in Watch, NEW ok \in BOOLEAN, Quarantine(w, ok) PROVE Rest'
  <2>1. faults' \in 0..MaxFaults
    BY <1>5 DEF Quarantine, Fault
  <2> QED
    BY <1>5, <2>1 DEF Quarantine, Raise, Advance
<1>6. ASSUME NEW w \in Watch, NEW ok \in BOOLEAN, NEW spec \in 0..MaxRegs,
             NEW next \in {"fired", "expired"}, At(w), Notice(w, ok, spec, next)
      PROVE Rest'
  <2>1. faults' \in 0..MaxFaults
    BY <1>6 DEF Notice, Fault
  <2>2. w \in listed
    BY <1>6 DEF At
  <2> QED
    BY <1>6, <2>1, <2>2 DEF Notice, Advance, files
<1>7. ASSUME NEW w \in Watch, NEW ok \in BOOLEAN, Probe(w, ok) PROVE Rest'
  <2>1. w \in listed
    BY <1>7 DEF Probe, At
  <2> QED
    BY <1>7, <2>1 DEF Probe, Advance, files
<1>8. ASSUME NEW w \in Watch, NEW ok \in BOOLEAN, Archive(w, ok) PROVE Rest'
  <2>1. faults' \in 0..MaxFaults
    BY <1>8 DEF Archive, Fault
  <2> QED
    BY <1>8, <2>1 DEF Archive, Raise, Advance
<1>9. CASE EndPass \/ Tick
  BY <1>9 DEF EndPass, Tick, files
<1>10. CASE Crash
  <2>1. faults' \in 0..MaxFaults
    BY <1>10 DEF Crash, Fault
  <2> QED
    BY <1>10, <2>1 DEF Crash, Raise, files
<1>11. CASE UNCHANGED vars
  BY <1>11 DEF vars, files, daemon
<1>12. CASE PassStep
  <2>1. ASSUME NEW w \in Watch, NEW ok \in BOOLEAN,
               NotifyExpiry(w, ok) \/ NotifyFired(w, ok)
        PROVE Rest'
    <3>1. regs[w] \in 0..MaxRegs /\ read \in 0..MaxRegs
      OBVIOUS
    <3> QED
      BY <1>6, <2>1, <3>1 DEF NotifyExpiry, NotifyFired
  <2> QED
    BY <1>3, <1>4, <1>5, <1>7, <1>8, <1>9, <1>12, <2>1 DEF PassStep
<1> QED
  BY <1>1, <1>2, <1>10, <1>11, <1>12 DEF Next

(* Files, pass and histories stay in their types.                          *)
THEOREM TypeCorrect == Spec => []TypeOK
<1>1. Init => Bools
  BY DEF Init, Bools
<1>2. Init => Rest
  BY Constants DEF Init, Rest
<1> QED
  BY <1>1, <1>2, TypeParts, BoolsStep, RestStep, PTL DEF Spec

-----------------------------------------------------------------------------
(* ToldThenArchived speaks of files that were put away.  It follows them   *)
(* there from the step that read the spec: the daemon works for the file   *)
(* now under the name or that file was swapped in (WorksFor); past the     *)
(* notice that file is told of (Noticed); a file still in use that is told *)
(* of is about to be renamed, or its rename was torn off (TellsOnce); and  *)
(* a probe that succeeded was of a file not yet put away (FiresLive).      *)
Put(w) == file[w] \in {"fired", "expired"}
WorksFor == \A w \in Watch : Busy(w) => read = regs[w] \/ w \in swapped
Noticed ==
  \A w \in Watch : stage \in {"fired", "expired"} /\ At(w)
                     => notices[w] > 0 \/ w \in swapped
TellsOnce ==
  \A w \in Watch : ~Put(w) /\ notices[w] > 0
                     => w \in torn \/ (stage \in {"fired", "expired"} /\ At(w))
FiresLive == \A w \in Watch : stage = "fire" /\ At(w) => ~Put(w)
ToldInv == WorksFor /\ Noticed /\ TellsOnce /\ FiresLive /\ ToldThenArchived

(* The pass works at one watch at a time.                                  *)
LEMMA OneAtATime ==
  ASSUME NEW v \in Watch, NEW w \in Watch, At(v), At(w)
  PROVE  v = w
  BY Constants DEF At, Watch

(* A notice that goes out, or does not, for the watch whose turn it is.    *)
LEMMA NoticeTells ==
  ASSUME Rest, ToldInv, NEW w \in Watch, NEW ok \in BOOLEAN, NEW spec,
         NEW next \in {"fired", "expired"}, At(w), ~Put(w),
         stage \in {"pass", "fire"}, spec = regs[w] \/ w \in swapped,
         Notice(w, ok, spec, next)
  PROVE  ToldInv'
<1> USE DEF ToldInv, WorksFor, Noticed, TellsOnce, FiresLive, Busy, Put, Rest
<1>1. CASE ~ok
  BY <1>1 DEF Notice, Advance, files, At, ToldThenArchived
<1>2. CASE ok
  <2>1. /\ stage' = next /\ read' = spec
        /\ UNCHANGED <<listed, file, regs, torn, swapped>>
        /\ notices' = IF spec = regs[w] THEN [notices EXCEPT ![w] = @ + 1]
                       ELSE notices
    BY <1>2 DEF Notice, files
  <2>2. \A v \in Watch : At(v)' <=> v = w
    BY <2>1, OneAtATime DEF At
  <2>3. \A v \in Watch \ {w} : notices'[v] = notices[v]
    BY <2>1
  <2>4. notices[w] > 0 => w \in torn
    OBVIOUS
  <2>5. notices'[w] > 0 \/ w \in swapped'
    BY <2>1
  <2>6. notices'[w] > 1 => w \in torn'
    BY <2>1, <2>4 DEF ToldThenArchived
  <2>7. WorksFor' /\ Noticed'
    BY <2>1, <2>2, <2>3, <2>5
  <2>8. TellsOnce' /\ FiresLive'
    BY <2>1, <2>2, <2>3
  <2>9. ToldThenArchived'
    BY <2>1, <2>3, <2>6 DEF ToldThenArchived
  <2> QED
    BY <2>7, <2>8, <2>9
<1> QED
  BY <1>1, <1>2

(* Every step keeps the invariant.                                         *)
LEMMA ToldInductive == Rest /\ ToldInv /\ [Next]_vars => ToldInv'
<1> SUFFICES ASSUME Rest, ToldInv, [Next]_vars PROVE ToldInv'
  OBVIOUS
<1> USE DEF ToldInv, WorksFor, Noticed, TellsOnce, FiresLive, Busy, Put, Rest
<1>1. ASSUME NEW w \in Watch, NEW kind \in {"good", "broken"}, Register(w, kind)
      PROVE ToldInv'
  BY <1>1 DEF Register, daemon, At, ToldThenArchived
<1>2. ASSUME NEW w \in Watch, Remove(w) \/ ConditionChanges(w) \/ TtlRunsOut(w)
      PROVE ToldInv'
  BY <1>2 DEF Remove, ConditionChanges, TtlRunsOut, Live, daemon, At,
              ToldThenArchived
<1>3. ASSUME NEW d \in 1..MaxGap, StartPass(d) PROVE ToldInv'
  BY <1>3 DEF StartPass, files, ToldThenArchived
<1>4. ASSUME NEW w \in Watch, Vanished(w) \/ Throttle(w) PROVE ToldInv'
  BY <1>4 DEF Vanished, Throttle, Raise, Advance, files, ToldThenArchived
<1>5. ASSUME NEW w \in Watch, NEW ok \in BOOLEAN, Quarantine(w, ok) PROVE ToldInv'
  BY <1>5 DEF Quarantine, Raise, Advance, ToldThenArchived
<1>6. ASSUME NEW w \in Watch, NEW ok \in BOOLEAN, NotifyExpiry(w, ok) PROVE ToldInv'
  BY <1>6, NoticeTells DEF NotifyExpiry
<1>7. ASSUME NEW w \in Watch, NEW ok \in BOOLEAN, Probe(w, ok) PROVE ToldInv'
  <2>1. \A v \in Watch : At(v) => v = w
    BY <1>7, OneAtATime DEF Probe
  <2> QED
    BY <1>7, <2>1 DEF Probe, Due, Advance, files, At, ToldThenArchived
<1>8. ASSUME NEW w \in Watch, NEW ok \in BOOLEAN, NotifyFired(w, ok) PROVE ToldInv'
  BY <1>8, NoticeTells DEF NotifyFired
(* The rename: the file put away was told of, and nobody else is at it.    *)
<1>9. ASSUME NEW w \in Watch, NEW ok \in BOOLEAN, Archive(w, ok) PROVE ToldInv'
  <2>1. \A v \in Watch : At(v) => v = w
    BY <1>9, OneAtATime DEF Archive
  <2>2. stage' \in {"pass", "asleep"} /\ UNCHANGED <<notices, regs, swapped>>
    BY <1>9 DEF Archive, Advance, Raise
  <2>3. \A v \in Watch \ {w} : file'[v] = file[v] /\ (v \in torn' <=> v \in torn)
    BY <1>9 DEF Archive
  <2>4. \/ file'[w] = stage /\ torn' = torn
        \/ file' = file /\ w \in torn'
    BY <1>9 DEF Archive
  <2>5. stage \in {"fired", "expired"} /\ At(w)
    BY <1>9 DEF Archive
  <2> QED
    BY <2>1, <2>2, <2>3, <2>4, <2>5 DEF ToldThenArchived
<1>10. CASE EndPass \/ Tick
  BY <1>10 DEF EndPass, Tick, files, ToldThenArchived
<1>11. CASE Crash
  BY <1>11 DEF Crash, Raise, files, ToldThenArchived
<1>12. CASE UNCHANGED vars
  BY <1>12 DEF vars, files, daemon, At, ToldThenArchived
<1> QED
  BY <1>1, <1>2, <1>3, <1>4, <1>5, <1>6, <1>7, <1>8, <1>9, <1>10, <1>11, <1>12
     DEF Next, PassStep

(* A watch is put away only after a notice about it, or under a file that  *)
(* was swapped in while the daemon worked for its predecessor; a second    *)
(* notice takes a crash or a failed rename.                                *)
THEOREM ToldBeforeArchived == Spec => []ToldThenArchived
<1>1. Init => ToldInv
  BY DEF Init, ToldInv, WorksFor, Noticed, TellsOnce, FiresLive, Busy, Put,
         ToldThenArchived
<1>2. Init => Rest
  BY Constants DEF Init, Rest
<1>3. ToldInv => ToldThenArchived
  BY DEF ToldInv
<1> QED
  BY <1>1, <1>2, <1>3, RestStep, ToldInductive, PTL DEF Spec

=============================================================================

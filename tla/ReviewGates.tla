----------------------------- MODULE ReviewGates -----------------------------
(***************************************************************************)
(* What it takes to close a [review] of one build.  Two hooks judge it: one*)
(* when the lead completes the task in the task store (a TaskCompleted     *)
(* event, delivered twice), one when somebody ticks the line in tasks.md.  *)
(* They read the same evidence, files other programs leave:                *)
(*                                                                         *)
(*  - the marker skill_announce writes when the reviewer calls a review    *)
(*    skill, against .lastreview, which the task hook alone writes;        *)
(*  - baseline.json and last-check.json of the regression gate, a program  *)
(*    that runs the commands of completed tasks one after the other;       *)
(*  - the sentinel of the task and the waiver of a segment.                *)
(*                                                                         *)
(* A segment is a checkpoint with one development task, whose Run: command *)
(* passes or fails, and one [review].                                      *)
(***************************************************************************)
EXTENDS Naturals

CONSTANTS
  Segs,          (* segments, numbered                                     *)
  Risky,         (* segments whose command is not run again: phase1, risky,*)
                 (* destructive or a duplicate                             *)
  Pytests,       (* segments whose command is a pytest                     *)
  Gates,         (* regression gate processes                              *)
  Deliveries,    (* hook processes judging a completion                    *)
  Waivable,      (* segments whose review the user may waive               *)
  Prompts,       (* turns of the lead in which it completes [review]s      *)
  MaxReviews,    (* bound: review skill calls of the reviewer              *)
  MaxBaselines   (* bound: baselines recorded                              *)

ASSUME ReviewAssumption ==
  /\ Segs \subseteq Nat \ {0} /\ {Risky, Pytests, Waivable} \subseteq SUBSET Segs
  /\ Prompts \subseteq Nat \ {0}
  /\ MaxReviews \in Nat /\ MaxBaselines \in Nat

VARIABLES
  done,        (* segments whose development task is ticked in tasks.md    *)
  boxes,       (* segments whose [review] is ticked in tasks.md            *)
  store,       (* segments whose [review] is completed in the task store   *)
  waived,      (* segments with a waiver file; nothing removes one         *)
  sentinels,   (* segments whose [review] has a verification sentinel      *)
  consumed,    (* [review] -> prompt whose completion was granted (0: none)*)
  fresh,       (* the reviewer's marker is newer than .lastreview          *)
  base,        (* baseline.json, or NoBaseline                              *)
  check,       (* last-check.json, or NoCheck                              *)
  newer,       (* last-check.json was written after baseline.json          *)
  gate,        (* a regression gate process                                *)
  delivery,    (* a delivery under judgement                               *)
  reviews,     (* history: review skill calls of the reviewer              *)
  spent,       (* history: [review] -> prompt that burnt its sentinel, if  *)
               (* no other completion of it has been granted since         *)
  closedOn     (* history: [review] -> the review skill call it was closed *)
               (* on in the store, if it was judged alone (0: not so)      *)

ticks == <<boxes, store, waived, sentinels, consumed, fresh>>
regress == <<base, check, newer, gate>>
history == <<reviews, spent, closedOn>>
reviewVars == <<done, ticks, regress, delivery, history>>

(* Segments whose command may be run again.                                *)
Targets == Segs \ Risky

NoBaseline == [id |-> 0, passed |-> {}]
NoCheck == [id |-> 0]
Idle == [pc |-> "idle"]

(* What baseline.json says, and which baseline it is.                      *)
Baselines == [id : 1..MaxBaselines, passed : SUBSET Segs]

(* What last-check.json says: the regressions.  The rest is history: the   *)
(* baseline it was compared with, and whether a baseline was recorded while *)
(* it ran.                                                                 *)
Checks == [id : {1}, bad : SUBSET Segs, against : 1..MaxBaselines,
           raced : BOOLEAN]

Running == [pc : {"run"}, mode : {"baseline", "check"}, left : SUBSET Segs,
            cmd : Segs \cup {0}, passed : SUBSET Segs, failed : SUBSET Segs,
            base : Baselines \cup {NoBaseline}, raced : BOOLEAN]

Judging == [pc : 0..3, task : Segs, prompt : Prompts, late : BOOLEAN,
            alone : BOOLEAN, review : 0..MaxReviews]

ReviewTypeOK ==
  /\ done \subseteq Segs /\ boxes \subseteq Segs
  /\ store \subseteq Segs /\ waived \subseteq Segs /\ sentinels \subseteq Segs
  /\ consumed \in [Segs -> Prompts \cup {0}] /\ spent \in [Segs -> Prompts \cup {0}]
  /\ reviews \in 0..MaxReviews
  /\ fresh \in BOOLEAN /\ newer \in BOOLEAN
  /\ base \in Baselines \cup {NoBaseline}
  /\ check \in Checks \cup {NoCheck}
  /\ gate \in [Gates -> {Idle} \cup Running]
  /\ delivery \in [Deliveries -> {Idle} \cup Judging]
  /\ closedOn \in [Segs -> 0..MaxReviews]

ReviewInit ==
  /\ done = {} /\ boxes = {} /\ store = {} /\ waived = {}
  /\ sentinels = {} /\ fresh = FALSE
  /\ consumed = [t \in Segs |-> 0] /\ spent = [t \in Segs |-> 0]
  /\ base = NoBaseline /\ check = NoCheck /\ newer = FALSE
  /\ gate = [g \in Gates |-> Idle] /\ delivery = [d \in Deliveries |-> Idle]
  /\ reviews = 0 /\ closedOn = [s \in Segs |-> 0]

----------------------------------------------------------------------------
(* The build goes on.                                                      *)

(* A development task is ticked; only [review] lines are gated.            *)
Develop(s) ==
  /\ s \notin done /\ \A r \in Segs : r < s => r \in done
  /\ done' = done \cup {s}
  /\ UNCHANGED <<ticks, regress, delivery, history>>

(* Whoever owns the task leaves its sentinel.                              *)
Attest(t) ==
  /\ t \in done \ sentinels
  /\ sentinels' = sentinels \cup {t}
  /\ UNCHANGED <<done, boxes, store, waived, consumed, fresh, regress, delivery, history>>

(* The user waives the review of a segment.                                *)
Waive(s) ==
  /\ s \in (Waivable \cap done) \ waived /\ waived' = waived \cup {s}
  /\ UNCHANGED <<done, boxes, store, sentinels, consumed, fresh, regress, delivery, history>>

(* Whose calls are told apart.                                             *)
Callers == {"reviewer", "lead"}

(* skill_announce: a review skill is called.  Every agent has a marker of  *)
(* its own, and the hooks look at the reviewer's.                          *)
ReviewSkill(agent) ==
  /\ reviews < MaxReviews
  /\ fresh' = (fresh \/ agent = "reviewer")
  /\ reviews' = IF agent = "reviewer" THEN reviews + 1 ELSE reviews
  /\ UNCHANGED <<done, boxes, store, waived, sentinels, consumed,
                 regress, delivery, spent, closedOn>>

----------------------------------------------------------------------------
(* regression_gate.                                                        *)

(* select(): completed tasks outside the segment under review that are     *)
(* safe to run again.                                                      *)
Selected(segment) == (done \cap Targets) \ {segment}

(* concurrent_pytest: gates that run a pytest of this build right now.     *)
PytestsOfOthers(g) ==
  {h \in Gates \ {g} : gate[h].pc = "run" /\ gate[h].cmd \in Pytests}

GateRun(g, mode, segment) ==
  [pc |-> "run", mode |-> mode, left |-> Selected(segment), cmd |-> 0,
   passed |-> {}, failed |-> {},
   base |-> IF mode = "check" THEN base ELSE NoBaseline, raced |-> FALSE]

(* Slip: without a baseline a check compares with nothing.                 *)
GateStartsAnyway(g, mode, segment) ==
  /\ gate[g] = Idle /\ Selected(segment) # {}
  /\ Selected(segment) \cap Pytests # {} => PytestsOfOthers(g) = {}
  /\ mode = "baseline" => base.id < MaxBaselines
  /\ gate' = [gate EXCEPT ![g] = GateRun(g, mode, segment)]
  /\ UNCHANGED <<done, ticks, base, check, newer, delivery, history>>

(* Nothing selected: the program says so, with zero regressions, and       *)
(* leaves no file.  A check without a baseline ends at once, and so does a *)
(* run with a pytest while another pytest of the build is going.  Else the *)
(* baseline is read now and the commands run next.                         *)
GateStarts(g, mode, segment) ==
  /\ gate[g] = Idle
  /\ Selected(segment) # {}
  /\ Selected(segment) \cap Pytests # {} => PytestsOfOthers(g) = {}
  /\ mode = "check" => base # NoBaseline
  /\ mode = "baseline" => base.id < MaxBaselines
  /\ gate' = [gate EXCEPT ![g] = GateRun(g, mode, segment)]
  /\ UNCHANGED <<done, ticks, base, check, newer, delivery, history>>

(* run_one: one command, in document order.                                *)
GateBegins(g) ==
  /\ gate[g].pc = "run" /\ gate[g].cmd = 0
  /\ \E s \in gate[g].left :
       /\ \A r \in gate[g].left : s <= r
       /\ gate' = [gate EXCEPT ![g].left = @ \ {s}, ![g].cmd = s]
  /\ UNCHANGED <<done, ticks, base, check, newer, delivery, history>>

(* It passes or fails, as the build is by now and as other commands, and a *)
(* pytest that began after the look above, let it.                         *)
GateRuns(g, passes) ==
  LET s == gate[g].cmd
  IN /\ gate[g].pc = "run" /\ s # 0
     /\ gate' = [gate EXCEPT
          ![g].cmd = 0,
          ![g].passed = IF passes THEN @ \cup {s} ELSE @,
          ![g].failed = IF passes THEN @ ELSE @ \cup {s}]
     /\ UNCHANGED <<done, ticks, base, check, newer, delivery, history>>

(* Passing in the baseline and failing now.                                *)
Regressions(g) == gate[g].failed \cap gate[g].base.passed

Report(g) ==
  IF gate[g].mode = "baseline"
  THEN [id |-> base.id + 1, passed |-> gate[g].passed]
  ELSE [id |-> 1, bad |-> Regressions(g), against |-> gate[g].base.id,
        raced |-> gate[g].raced]

(* A baseline now on disk: every check under way compares with another.    *)
Outdated == [h \in Gates |-> IF gate[h].pc = "run" THEN [gate[h] EXCEPT !.raced = TRUE]
                             ELSE gate[h]]

(* The results replace the state file of the mode (_write_state: a         *)
(* temporary file, renamed; two processes of one mode share its name).     *)
GateEnds(g) ==
  /\ gate[g].pc = "run" /\ gate[g].left = {} /\ gate[g].cmd = 0
  /\ IF gate[g].mode = "baseline"
     THEN /\ base.id < MaxBaselines
          /\ base' = Report(g) /\ newer' = FALSE /\ UNCHANGED check
          /\ gate' = [Outdated EXCEPT ![g] = Idle]
     ELSE /\ check' = Report(g) /\ newer' = TRUE /\ UNCHANGED base
          /\ gate' = [gate EXCEPT ![g] = Idle]
  /\ UNCHANGED <<done, ticks, delivery, history>>

(* Killed, or a timeout of the caller.                                     *)
GateDies(g) ==
  /\ gate[g] # Idle
  /\ gate' = [gate EXCEPT ![g] = Idle]
  /\ UNCHANGED <<done, ticks, base, check, newer, delivery, history>>

(* Slip: the age of the check is not looked at.                            *)
RegressionOkUndated == base # NoBaseline /\ check # NoCheck /\ check.bad = {}

(* regression_missing() finds nothing missing.                             *)
RegressionOk == base # NoBaseline /\ check # NoCheck /\ newer /\ check.bad = {}

(* codereview_missing() finds nothing missing.                             *)
ReviewOk == fresh

----------------------------------------------------------------------------
(* task_completed_verify_gate.                                             *)

Deciding == {d \in Deliveries : delivery[d] # Idle}

(* Everybody under way has company from now on.                            *)
WithCompany(dl) ==
  [e \in Deliveries |-> IF dl[e] = Idle THEN Idle ELSE [dl[e] EXCEPT !.alone = FALSE]]

(* A completion is delivered, the first time in its turn or again later;   *)
(* hooks of two turns on one [review] do not overlap (external: a turn     *)
(* waits for its hooks).  A prompt that was granted is granted again.      *)
Deliver(d, t, p) ==
  /\ delivery[d] = Idle /\ t \in done
  /\ \A e \in Deciding : delivery[e].task = t => delivery[e].prompt = p
  /\ IF consumed[t] = p
     THEN store' = store \cup {t} /\ UNCHANGED delivery
     ELSE /\ UNCHANGED store
          /\ LET dl == [delivery EXCEPT ![d] =
                   [pc |-> 0, task |-> t, prompt |-> p, late |-> spent[t] = p,
                    alone |-> TRUE, review |-> 0]]
             IN delivery' = IF Deciding = {} THEN dl ELSE WithCompany(dl)
  /\ UNCHANGED <<done, boxes, waived, sentinels, consumed, fresh, regress, history>>

(* Nothing is asked of a waived review; its skip token would be ignored.   *)
Exempt(t) == t \in waived

(* Slip: one call of the review skill serves for ever.                     *)
VerifiedOnce(t) == t \in sentinels /\ reviews > 0 /\ RegressionOk

Verified(t) == t \in sentinels /\ ReviewOk /\ RegressionOk

Judge(d) ==
  LET t == delivery[d].task
  IN /\ delivery[d] # Idle /\ delivery[d].pc = 0
     /\ IF ~Exempt(t) /\ Verified(t)
        THEN /\ delivery' = [delivery EXCEPT ![d].pc = 1, ![d].review = reviews]
             /\ UNCHANGED store
        ELSE /\ delivery' = [delivery EXCEPT ![d] = Idle]
             /\ store' = IF Exempt(t) THEN store \cup {t} ELSE store \ {t}
     /\ UNCHANGED <<done, boxes, waived, sentinels, consumed, fresh, regress, history>>

(* Slip: the sentinel is burnt before the grant is recorded.               *)
StepsSwapped == <<"burn", "mark", "stamp">>

(* What a grant does, in this order.                                       *)
Steps == <<"mark", "burn", "stamp">>

At(d, step) ==
  /\ delivery[d] # Idle /\ delivery[d].pc > 0
  /\ Steps[delivery[d].pc] = step
  /\ delivery' = [delivery EXCEPT ![d] =
       IF step = "stamp" THEN Idle ELSE [delivery[d] EXCEPT !.pc = @ + 1]]

(* The grant is recorded under the prompt.                                 *)
Mark(d) ==
  LET t == delivery[d].task  p == delivery[d].prompt
  IN /\ At(d, "mark")
     /\ consumed' = [consumed EXCEPT ![t] = p]
     /\ spent' = [spent EXCEPT ![t] = IF @ = p THEN p ELSE 0]
     /\ UNCHANGED <<done, boxes, store, waived, sentinels, fresh, regress, reviews, closedOn>>

(* The sentinel is removed.                                                *)
Burn(d) ==
  LET t == delivery[d].task
  IN /\ At(d, "burn")
     /\ sentinels' = sentinels \ {t}
     /\ spent' = [spent EXCEPT ![t] = delivery[d].prompt]
     /\ UNCHANGED <<done, boxes, store, waived, consumed, fresh, regress, reviews, closedOn>>

(* A [review] stamps .lastreview, and the task is completed.               *)
Stamp(d) ==
  LET t == delivery[d].task
  IN /\ At(d, "stamp")
     /\ fresh' = FALSE
     /\ store' = store \cup {t}
     /\ closedOn' = [closedOn EXCEPT ![t] =
          IF delivery[d].alone THEN delivery[d].review ELSE 0]
     /\ UNCHANGED <<done, boxes, waived, sentinels, consumed, regress, reviews, spent>>

----------------------------------------------------------------------------
(* tasks_md_review_gate: an edit of tasks.md that ticks [review] lines.    *)
(* The waivers count if the hook can tell which segments the lines belong  *)
(* to.  It runs before the edit and leaves no trace.                       *)
Tick(S, known) ==
  /\ S # {} /\ S \subseteq done \ boxes
  /\ (known /\ S \subseteq waived) \/ (ReviewOk /\ RegressionOk)
  /\ boxes' = boxes \cup S
  /\ UNCHANGED <<done, store, waived, sentinels, consumed, fresh, regress, delivery, history>>

ReviewNext ==
  \/ \E s \in Segs : Develop(s) \/ Waive(s)
  \/ \E t \in Segs : Attest(t)
  \/ \E agent \in Callers : ReviewSkill(agent)
  \/ \E g \in Gates :
       \/ \E mode \in {"baseline", "check"}, s \in Segs : GateStarts(g, mode, s)
       \/ GateBegins(g) \/ (\E passes \in BOOLEAN : GateRuns(g, passes))
       \/ GateEnds(g) \/ GateDies(g)
  \/ \E d \in Deliveries :
       \/ \E t \in Segs, p \in Prompts : Deliver(d, t, p)
       \/ Judge(d) \/ Mark(d) \/ Burn(d) \/ Stamp(d)
  \/ \E S \in SUBSET Segs, known \in BOOLEAN : Tick(S, known)

ReviewSpec == ReviewInit /\ [][ReviewNext]_reviewVars

----------------------------------------------------------------------------
(* One call of the review skill closes one [review] in the task store: two *)
(* closed on the same call were judged at the same time.                   *)
OneReviewPerCall ==
  \A s, t \in Segs : s # t /\ closedOn[s] # 0 => closedOn[s] # closedOn[t]

(* A completion delivered again after its grant burnt the sentinel is not  *)
(* taken back for want of it.                                              *)
RedeliveryReplayed ==
  [][\A d \in Deliveries :
       delivery[d] # Idle /\ delivery'[d] = Idle /\ delivery[d].late
       => delivery[d].task \in store']_reviewVars

(* What both hooks accept as the proof that nothing regressed is a check   *)
(* that compared with the baseline on disk; the one exception is a baseline*)
(* recorded while that check ran.                                          *)
ComparedWithBaseline == RegressionOk => check.against = base.id \/ check.raced
==============================================================================

------------------------------ MODULE TeamGates ------------------------------
(***************************************************************************)
(* The hooks that decide when a CTO's team may be spawned, for one build.  *)
(* They run as separate processes on the lead's events and meet only in    *)
(* files: the draft marker (plan.md is not confirmed yet), the start       *)
(* marker, one O_EXCL claim per role, the nudge counter, the isolation     *)
(* marker, Claude's team config, plan.md and specs/tasks.md.  run.sh       *)
(* add-cto seeds and clears some of them, whether or not a lead is alive;  *)
(* stop-cto and delete-cto clear none.                                     *)
(*                                                                         *)
(* An Agent call is judged by four hooks in parallel and goes ahead only   *)
(* if none refuses; one of the four, the claim, writes while it judges.    *)
(* The prompts are the user's: they come between turns, and the question   *)
(* they answer is whatever the lead's last message asked.                  *)
(***************************************************************************)
EXTENDS Naturals

CONSTANTS
  Calls,       (* Agent calls one message of the lead may hold, as numbers *)
  MaxBlocks,   (* how often Stop is blocked at most (3 in the code)        *)
  DiskFails    (* fault: the start marker may fail to be written           *)

ASSUME TeamAssumption ==
  Calls \subseteq Nat /\ MaxBlocks \in Nat \ {0} /\ DiskFails \in BOOLEAN

Roles == {"planner", "reviewer"}
MaxMates == 2           (* bound: teammates of one role                    *)

(* What a call asks for; "planner!" carries HARNESS_USER_OK=planner, which *)
(* nobody looks at before there is a tasks.md.                             *)
Kinds == {"planner", "planner!", "reviewer"}
RoleOf(kind) == IF kind = "reviewer" THEN "reviewer" ELSE "planner"

VARIABLES
  plan,        (* plan.md exists                                           *)
  tasks,       (* specs/tasks.md exists: the build is decomposed           *)
  dir,         (* the build directory exists                               *)
  draft,       (* plan-draft/<name>.draft exists                           *)
  start,       (* started/<name>.started exists                            *)
  claims,      (* roles with a .claimed file                               *)
  nudges,      (* the Stop hook's counter file                             *)
  isolated,    (* the lead's inbox-isolation marker exists                 *)
  lead,        (* "down", "idle" (at its prompt) or "working" (in a turn)  *)
  team,        (* role -> its live teammates                               *)
  roster,      (* roles some team config of this directory names           *)
  call,        (* call -> what it asks for, the hooks still to judge it,   *)
               (* and whether one refused; NoCall if not under way         *)
  cleared,     (* history: roles whose claim was removed by add-cto or by  *)
               (* a start signal while a teammate or a call of it lived,   *)
               (* and the planner if tasks.md appeared during a call of it *)
  ghosts,      (* history: roles claimed by a call that then spawned       *)
               (* nobody, or whose teammate ended                          *)
  lapse        (* history: the last step was a Stop whose counter failed   *)

files == <<plan, tasks, dir, draft, start, claims, nudges, isolated>>
session == <<lead, team, roster, call>>
vars == <<files, session, cleared, ghosts, lapse>>

NoCall == [kind |-> "none", pending |-> {}, refused |-> FALSE]

TypeOK ==
  /\ plan \in BOOLEAN /\ tasks \in BOOLEAN /\ dir \in BOOLEAN
  /\ draft \in BOOLEAN /\ start \in BOOLEAN /\ isolated \in BOOLEAN
  /\ claims \subseteq Roles /\ roster \subseteq Roles
  /\ cleared \subseteq Roles /\ ghosts \subseteq Roles
  /\ nudges \in 0..MaxBlocks /\ lapse \in BOOLEAN
  /\ lead \in {"down", "idle", "working"}
  /\ team \in [Roles -> 0..MaxMates]
  /\ call \in [Calls -> [kind : Kinds, pending : SUBSET {"gates", "claim"},
                         refused : BOOLEAN] \cup {NoCall}]

(* A name never used before, its directory there or not.                   *)
Init ==
  /\ dir \in BOOLEAN /\ plan \in BOOLEAN /\ tasks \in BOOLEAN
  /\ (plan \/ tasks) => dir
  /\ draft = FALSE /\ start = FALSE /\ isolated = FALSE
  /\ claims = {} /\ nudges = 0
  /\ lead = "down" /\ team = [r \in Roles |-> 0] /\ roster = {}
  /\ call = [c \in Calls |-> NoCall]
  /\ cleared = {} /\ ghosts = {} /\ lapse = FALSE

Alive(r) == team[r] > 0
InFlight(r) == \E c \in Calls : call[c] # NoCall /\ RoleOf(call[c].kind) = r
NoCalls == \A c \in Calls : call[c] = NoCall

----------------------------------------------------------------------------
(* The start signal.                                                       *)

(* Roles whose claim file, if removed now, leaves one unclaimed that lives *)
(* or is on its way.                                                       *)
Exposed == {r \in Roles : Alive(r) \/ InFlight(r)}

(* start_project_gate._start: the marker, and then the claims, whatever    *)
(* became of the marker and whoever holds them.                            *)
Signal ==
  /\ start' \in (IF DiskFails THEN {TRUE, start} ELSE {TRUE})
  /\ claims' = {} /\ ghosts' = {}

NoSignal == UNCHANGED <<start, claims, ghosts>>

TeamClaimed == claims # {}

(* Slip: the start signal is given again on every confirmation.            *)
ConfirmAlways ==
  /\ plan /\ draft
  /\ draft' = FALSE
  /\ Signal

(* plan_readonly_gate on an approved "confirm plan.md?": ignored without a *)
(* plan or outside the draft; a team already claimed is left alone.        *)
Confirm ==
  /\ plan /\ draft
  /\ draft' = FALSE
  /\ IF TeamClaimed THEN NoSignal ELSE Signal

ConfirmIgnored == ~(plan /\ draft) /\ UNCHANGED draft /\ NoSignal

Edit == draft' = TRUE /\ NoSignal

(* What a prompt says yes to, of the questions the lead's last message     *)
(* asked: a short yes, without a no in it.                                 *)
Answers == {"spawn", "confirm", "edit", "nothing"}

(* A prompt is submitted: the three UserPromptSubmit hooks.  The plan hook *)
(* looks for the confirmation first.                                       *)
Prompt(answer) ==
  /\ lead = "idle" /\ lead' = "working"
  /\ isolated' = FALSE
  /\ cleared' = IF answer = "spawn" THEN cleared \cup Exposed ELSE cleared
  /\ CASE answer = "spawn"   -> Signal /\ UNCHANGED draft
       [] answer = "confirm" -> Confirm \/ ConfirmIgnored
       [] answer = "edit"    -> Edit
       [] OTHER              -> NoSignal /\ UNCHANGED draft
  /\ lapse' = FALSE
  /\ UNCHANGED <<plan, tasks, dir, nudges, team, roster, call>>

(* The lead's message asked two things at once: both hooks take the yes.   *)
PromptBoth ==
  /\ lead = "idle" /\ lead' = "working"
  /\ isolated' = FALSE
  /\ plan /\ draft /\ draft' = FALSE
  /\ Signal /\ cleared' = cleared \cup Exposed
  /\ lapse' = FALSE
  /\ UNCHANGED <<plan, tasks, dir, nudges, team, roster, call>>

----------------------------------------------------------------------------
(* Within a turn.                                                          *)

(* inbox_isolation_guard: after `harness inbox` the turn neither writes    *)
(* nor spawns.                                                             *)
IsolationOk == ~isolated

(* Write, Edit or MultiEdit of the build's plan.md by the lead.            *)
WritePlan ==
  /\ lead = "working" /\ dir /\ draft /\ IsolationOk
  /\ ~plan /\ plan' = TRUE
  /\ lapse' = FALSE
  /\ UNCHANGED <<tasks, dir, draft, start, claims, nudges, isolated, session, cleared, ghosts>>

(* The planner decomposes the build, or the lead does.                     *)
WriteTasks ==
  /\ dir /\ (Alive("planner") \/ (lead = "working" /\ IsolationOk))
  /\ ~tasks /\ tasks' = TRUE
  /\ cleared' = IF InFlight("planner") THEN cleared \cup {"planner"} ELSE cleared
  /\ lapse' = FALSE
  /\ UNCHANGED <<plan, dir, draft, start, claims, nudges, isolated, session, ghosts>>

(* `harness inbox` in this turn leaves the isolation marker.               *)
ReadInbox ==
  /\ lead = "working" /\ ~isolated /\ isolated' = TRUE
  /\ lapse' = FALSE
  /\ UNCHANGED <<plan, tasks, dir, draft, start, claims, nudges, session, cleared, ghosts>>

Called(kind) ==
  IF kind = "none" THEN NoCall
  ELSE [kind |-> kind, pending |-> {"gates", "claim"}, refused |-> FALSE]

(* One message of the lead holds one or more Agent calls; the next message *)
(* comes when they are done.  Their order in the message means nothing:    *)
(* planners first.                                                         *)
CallAgents ==
  /\ lead = "working" /\ NoCalls
  /\ \E kinds \in [Calls -> Kinds \cup {"none"}] :
       /\ \A c \in Calls : kinds[c] # "none" => team[RoleOf(kinds[c])] < MaxMates
       /\ \A c \in Calls : kinds[c] = "planner!" => tasks
       /\ \A c, d \in Calls : c < d /\ kinds[c] \in {"none", "reviewer"}
                               => kinds[d] \in {"none", kinds[c]}
       /\ call' = [c \in Calls |-> Called(kinds[c])]
  /\ call' # call
  /\ lapse' = FALSE
  /\ UNCHANGED <<files, lead, team, roster, cleared, ghosts>>

Judged(c, hook, ok) ==
  call' = [call EXCEPT ![c].pending = @ \ {hook}, ![c].refused = @ \/ ~ok]

(* planner_dispatch_gate: no planner after the decomposition, unless the   *)
(* user said so.                                                           *)
DispatchOk(kind) == kind = "planner" => ~tasks

(* start_project_gate: no teammate without the start marker.               *)
StartOk == start

(* The three hooks that only read: start_project_gate,                     *)
(* planner_dispatch_gate and inbox_isolation_guard.                        *)
ReadingGates(c) ==
  /\ "gates" \in call[c].pending
  /\ Judged(c, "gates", StartOk /\ DispatchOk(call[c].kind) /\ IsolationOk)
  /\ lapse' = FALSE
  /\ UNCHANGED <<files, lead, team, roster, cleared, ghosts>>

(* one_teammate_per_role_gate: a call the dispatch gate will refuse takes  *)
(* no claim; any other takes it, or is refused as a duplicate.             *)
Claim(c) ==
  LET r == RoleOf(call[c].kind)
      claiming == DispatchOk(call[c].kind)
  IN /\ "claim" \in call[c].pending
     /\ Judged(c, "claim", claiming => r \notin claims)
     /\ claims' = IF claiming THEN claims \cup {r} ELSE claims
     /\ lapse' = FALSE
     /\ UNCHANGED <<plan, tasks, dir, draft, start, nudges, isolated,
                    lead, team, roster, cleared, ghosts>>

Decided(c) == call[c] # NoCall /\ call[c].pending = {}

Spawn(c) ==
  LET r == RoleOf(call[c].kind)
  IN /\ Decided(c) /\ ~call[c].refused
     /\ team[r] < MaxMates
     /\ team' = [team EXCEPT ![r] = @ + 1]
     /\ roster' = roster \cup {r}
     /\ call' = [call EXCEPT ![c] = NoCall]
     /\ lapse' = FALSE
     /\ UNCHANGED <<files, lead, cleared, ghosts>>

(* Refused, or let through and failed: a claim it took stays.              *)
SpawnNobody(c) ==
  LET r == RoleOf(call[c].kind)
  IN /\ Decided(c)
     /\ call' = [call EXCEPT ![c] = NoCall]
     /\ ghosts' = IF r \in claims THEN ghosts \cup {r} ELSE ghosts
     /\ lapse' = FALSE
     /\ UNCHANGED <<files, lead, team, roster, cleared>>

(* A teammate ends, and leaves the config.                                 *)
TeammateEnds(r) ==
  /\ Alive(r)
  /\ team' = [team EXCEPT ![r] = @ - 1]
  /\ roster' = IF team[r] = 1 THEN roster \ {r} ELSE roster
  /\ ghosts' = ghosts \cup ({r} \cap claims)
  /\ cleared' = IF team[r] = 1 /\ ~InFlight(r) THEN cleared \ {r} ELSE cleared
  /\ lapse' = FALSE
  /\ UNCHANGED <<files, lead, call>>

----------------------------------------------------------------------------
(* The end of a turn: start_project_spawn_nudge.                           *)

(* Slip: the planner is asked for after the decomposition as well.         *)
RequiredBoth == {"planner", "reviewer"}

Required == IF tasks THEN {"reviewer"} ELSE {"planner", "reviewer"}

Satisfied == Required \subseteq roster

(* The hook steps back: no start signal, a turn under isolation, or Orca   *)
(* does not answer and no config settles it.                               *)
StopUnpressed(orca) ==
  /\ ~start \/ isolated \/ (~Satisfied /\ ~orca)
  /\ lead' = "idle" /\ lapse' = FALSE
  /\ UNCHANGED <<start, nudges>>

(* The team is whole and the Codex half alive: marker and counter go, or a *)
(* removal fails, which is swallowed.                                      *)
StopComplete ==
  /\ start /\ ~isolated /\ Satisfied
  /\ start' \in BOOLEAN /\ nudges' \in {nudges, 0}
  /\ lead' = "idle" /\ lapse' = FALSE

Pressing(orca, codex) ==
  /\ start /\ ~isolated
  /\ IF Satisfied THEN ~codex ELSE orca

(* Slip: it is blocked as often as the team is not whole.                  *)
StopPressedForever(orca, codex) ==
  /\ Pressing(orca, codex)
  /\ nudges' = nudges + 1
  /\ lapse' = FALSE
  /\ UNCHANGED <<lead, start>>

(* Stop is blocked: the lead is told to spawn what is missing.             *)
StopPressed(orca, codex) ==
  /\ Pressing(orca, codex) /\ nudges < MaxBlocks
  /\ nudges' = nudges + 1
  /\ lapse' = FALSE
  /\ UNCHANGED <<lead, start>>

(* It is blocked as well when the counter fails: one that cannot be read   *)
(* is a 0, whatever it counted, and a write that fails leaves the old      *)
(* number or, once it has truncated the file, nothing, which is a 0 again. *)
StopMiscounted(orca, codex) ==
  /\ Pressing(orca, codex)
  /\ lapse' = TRUE
  /\ nudges' \in {nudges, 0, 1}
  /\ UNCHANGED <<lead, start>>

(* Slip: at its limit the counter starts again, and so does the blocking.  *)
StopGivenUpAnew(orca, codex) ==
  /\ Pressing(orca, codex) /\ nudges = MaxBlocks
  /\ nudges' = 0
  /\ lapse' = FALSE
  /\ UNCHANGED <<start, lead>>

StopGivenUp(orca, codex) ==
  /\ Pressing(orca, codex) /\ nudges = MaxBlocks
  /\ lead' = "idle" /\ lapse' = FALSE
  /\ UNCHANGED <<start, nudges>>

Stop(orca, codex) ==
  /\ lead = "working" /\ NoCalls
  /\ \/ StopUnpressed(orca)
     \/ codex /\ StopComplete
     \/ StopPressed(orca, codex) \/ StopMiscounted(orca, codex)
     \/ StopGivenUp(orca, codex)
  /\ UNCHANGED <<plan, tasks, dir, draft, claims, isolated, team, roster, call,
                 cleared, ghosts>>

----------------------------------------------------------------------------
(* The world outside the turn.                                             *)

(* /build-project makes the folder, empty or with an earlier plan.         *)
MakeDir ==
  /\ ~dir /\ dir' = TRUE
  /\ plan' \in BOOLEAN /\ tasks' = FALSE
  /\ lapse' = FALSE
  /\ UNCHANGED <<draft, start, claims, nudges, isolated, session, cleared, ghosts>>

BuildNew == ~plan /\ ~tasks

(* run.sh add-cto: a new build is in draft and gets no start marker, any   *)
(* other gets one; the claims go.  A lead that is alive is kept.           *)
AddCto ==
  /\ dir
  /\ draft' = (draft \/ BuildNew)
  /\ start' = (start \/ ~draft')
  /\ claims' = {} /\ ghosts' = {} /\ cleared' = cleared \cup Exposed
  /\ lead' = IF lead = "down" THEN "idle" ELSE lead
  /\ lapse' = FALSE
  /\ UNCHANGED <<plan, tasks, dir, nudges, isolated, team, roster, call>>

(* The lead's process ends and its team with it (stop-cto, a crash, the    *)
(* first half of --fresh); the runtime removes its config.                 *)
LeadEnds ==
  /\ lead' = "down" /\ team' = [r \in Roles |-> 0]
  /\ roster' = {}
  /\ call' = [c \in Calls |-> NoCall]
  /\ cleared' = {} /\ ghosts' = ghosts \cup claims
  /\ lapse' = FALSE

StopCto ==
  /\ lead # "down" /\ LeadEnds
  /\ UNCHANGED files

(* delete-cto: the tree goes, every marker stays.                          *)
DeleteCto ==
  /\ dir /\ dir' = FALSE /\ plan' = FALSE /\ tasks' = FALSE
  /\ LeadEnds
  /\ UNCHANGED <<draft, start, claims, nudges, isolated>>

Turn ==
  \/ \E c \in Calls : ReadingGates(c) \/ Claim(c) \/ Spawn(c) \/ SpawnNobody(c)
  \/ CallAgents
  \/ WritePlan \/ WriteTasks \/ ReadInbox
  \/ \E orca, codex \in BOOLEAN : Stop(orca, codex)

Next ==
  \/ \E answer \in Answers : Prompt(answer)
  \/ PromptBoth
  \/ Turn
  \/ \E r \in Roles : TeammateEnds(r)
  \/ MakeDir \/ AddCto \/ StopCto \/ DeleteCto

(* Hooks that were started end (the runtime waits for them and then acts); *)
(* each runs once per call, so one condition for all of them will do.  And *)
(* a lead that can end its turn again and again tries to.                  *)
Fairness ==
  /\ WF_vars(\E c \in Calls : ReadingGates(c) \/ Claim(c) \/ Spawn(c) \/ SpawnNobody(c))
  /\ SF_vars(\E orca, codex \in BOOLEAN : Stop(orca, codex))

Spec == Init /\ [][Next]_vars /\ Fairness

----------------------------------------------------------------------------
(* Two teammates of one role exist only where add-cto or the user's own    *)
(* start signal removed the claim of one that lived or was on its way:     *)
(* parallel calls, a confirmation of a changed plan, refusals and failed   *)
(* spawns never make a second one.  The one other way: tasks.md appears    *)
(* between the dispatch gate, which then let the call through, and the     *)
(* claim, which then takes it for refused.                                 *)
DuplicateNeedsSignal == \A r \in Roles : team[r] > 1 => r \in cleared

(* The role the Stop hook tells the lead to spawn.                         *)
Demanded(r) == /\ start /\ ~isolated
               /\ lead = "working" /\ NoCalls
               /\ r \in Required \ roster

(* The hooks do not contradict each other: what Stop demands, no gate      *)
(* refuses, but for a claim left by a call that spawned nobody or by a     *)
(* teammate that ended.                                                    *)
NudgeAgreesWithGates ==
  \A r \in Roles : Demanded(r) =>
    /\ r = "planner" => DispatchOk("planner")
    /\ r \in claims => r \in ghosts

(* The lead is not held for ever: whatever the team looks like, its turn   *)
(* ends, unless the counter of the Stop hook fails again and again.  One   *)
(* that can never be written, or never read, blocks Stop without end,      *)
(* against what the hook's docstring says of itself.                       *)
TurnEnds == []<>lapse \/ (lead = "working" ~> lead # "working")

(* What the confirmation promises: from the turn in which the plan is      *)
(* confirmed the team may be spawned, or is there.                         *)
ConfirmOpensTeam ==
  [][draft /\ ~draft' => start' \/ \E r \in Roles : Alive(r)]_vars
==============================================================================

----------------------------- MODULE CodexReview -----------------------------
(***************************************************************************)
(* The two cross-model reviews the CEO can start: codex-review of one      *)
(* build and codex-protocol-review of the harness.  A launch writes the    *)
(* .pending marker of its kind (a fresh launch id and a report path named  *)
(* by the second) and starts a runner in the background.  The runner runs  *)
(* Codex, which writes its last message to the report path; the runner     *)
(* reads it back, shapes it, writes it again with the launch id in front,  *)
(* and sends the CEO a summary.  The CEO then consumes the marker, and     *)
(* trusts the report only if it carries the launch id of the marker.       *)
(*                                                                         *)
(* Markers and reports are plain files without locks: launches of one kind *)
(* replace each other's marker, and two in one second share a report.      *)
(***************************************************************************)
EXTENDS Naturals

CONSTANTS
  Launches,    (* launches, numbered                                       *)
  Kinds,       (* subset of {"review", "protocol"}                         *)
  MaxSecond    (* bound: seconds of the wall clock                         *)

ASSUME ReviewLaunchAssumption ==
  /\ Launches \subseteq Nat \ {0}
  /\ Kinds \subseteq {"review", "protocol"} /\ Kinds # {}
  /\ MaxSecond \in Nat \ {0}

Seconds == 1..MaxSecond

VARIABLES
  now,         (* the second of the wall clock                             *)
  pending,     (* kind -> the launch .pending names, 0: no marker          *)
  runner,      (* launch -> how far its runner is                          *)
  report,      (* <<kind, second>> -> the file under that name             *)
  inbox,       (* launches whose summary was sent to the CEO               *)
  consumer,    (* kind -> the launch a --consume has verified, 0: none     *)
  trusted,     (* launches whose report the CEO was told to trust          *)
  wrote        (* history: launches whose runner wrote its report          *)

vars == <<now, pending, runner, report, inbox, consumer, trusted, wrote>>

NotLaunched == [pc |-> "none"]

(* What Codex may leave: a report in shape, some other text, nothing, or   *)
(* an exit code.                                                           *)
Outcomes == {"shaped", "bare", "nothing", "failed"}

(* A report file: whose Codex run it speaks of, what it is, and the launch *)
(* ids it carries.  A failure report speaks of no run of Codex but of its  *)
(* own runner.                                                             *)
NoFile == [by |-> 0]
Files == [by : Launches, text : {"shaped", "bare", "failure"}, ids : SUBSET Launches]

Runners == [pc : {"started", "asking", "ran", "read", "written", "told", "silent", "killed"},
            kind : Kinds, second : Seconds, outcome : Outcomes \cup {"unknown"},
            text : Files \cup {NoFile}]

TypeOK ==
  /\ now \in Seconds
  /\ pending \in [Kinds -> Launches \cup {0}]
  /\ runner \in [Launches -> {NotLaunched} \cup Runners]
  /\ report \in [Kinds \X Seconds -> Files \cup {NoFile}]
  /\ inbox \subseteq Launches /\ trusted \subseteq Launches /\ wrote \subseteq Launches
  /\ consumer \in [Kinds -> Launches \cup {0}]

Init ==
  /\ now = 1
  /\ pending = [k \in Kinds |-> 0] /\ consumer = [k \in Kinds |-> 0]
  /\ runner = [l \in Launches |-> NotLaunched]
  /\ report = [f \in Kinds \X Seconds |-> NoFile]
  /\ inbox = {} /\ trusted = {} /\ wrote = {}

Launched == {l \in Launches : runner[l] # NotLaunched}
At(l, pc) == runner[l].pc = pc
File(l) == <<runner[l].kind, runner[l].second>>

(* Launches that were given the same report path.                          *)
Sharing(l) == {m \in Launched \ {l} : File(m) = File(l)}

----------------------------------------------------------------------------
(* The launcher, and the CEO's clock.                                      *)

Tick ==
  /\ now < MaxSecond /\ now' = now + 1
  /\ UNCHANGED <<pending, runner, report, inbox, consumer, trusted, wrote>>

(* The marker is written before the runner starts, over any other.         *)
Launch(l, k) ==
  /\ l \notin Launched /\ \A m \in Launches : m < l => m \in Launched
  /\ pending' = [pending EXCEPT ![k] = l]
  /\ runner' = [runner EXCEPT ![l] =
       [pc |-> "started", kind |-> k, second |-> now, outcome |-> "unknown", text |-> NoFile]]
  /\ UNCHANGED <<now, report, inbox, consumer, trusted, wrote>>

(* Arguments that do not resolve to a build with a spec or a plan end      *)
(* before that.                                                            *)
LaunchReview(l) == "review" \in Kinds /\ Launch(l, "review")

LaunchProtocol(l) == "protocol" \in Kinds /\ Launch(l, "protocol")

----------------------------------------------------------------------------
(* The runner.                                                             *)

(* Slip: a failure leaves an empty report.                                 *)
FailureEmpty(l) == [by |-> l, text |-> "", ids |-> {}]

(* build_failure_report: a report with one blocker, about the run itself.  *)
Failure(l) == [by |-> l, text |-> "failure", ids |-> {}]

(* Slip: a failure report is written as it is.                             *)
EmbedReviewsOnly(text, l) ==
  IF text.text = "failure" THEN text ELSE [text EXCEPT !.ids = @ \cup {l}]

(* embed_launch_id: the id goes in front, once.                            *)
Embed(text, l) == [text EXCEPT !.ids = @ \cup {l}]

(* write_report.                                                           *)
Write(l, text) ==
  /\ report' = [report EXCEPT ![File(l)] = Embed(text, l)]
  /\ wrote' = wrote \cup {l}

Goto(l, pc) == runner' = [runner EXCEPT ![l].pc = pc]

Runs(l, k) == At(l, "started") /\ runner[l].kind = k

(* Slip: nobody hears of an invalid context.                               *)
InvalidReviewUntold(l) ==
  /\ Runs(l, "review")
  /\ Goto(l, "silent") /\ UNCHANGED <<report, wrote>>
  /\ UNCHANGED <<now, pending, inbox, consumer, trusted>>

(* The build, its spec or the agent's definition is gone by now: the       *)
(* review reports that as a failure.                                       *)
InvalidReview(l) ==
  /\ Runs(l, "review")
  /\ Write(l, Failure(l)) /\ Goto(l, "written")
  /\ UNCHANGED <<now, pending, inbox, consumer, trusted>>

(* The protocol review just exits.                                         *)
InvalidProtocol(l) ==
  /\ Runs(l, "protocol")
  /\ Goto(l, "silent")
  /\ UNCHANGED <<now, pending, report, inbox, consumer, trusted, wrote>>

(* fail_before_codex: there is no codex binary.                            *)
NoCodex(l) ==
  /\ At(l, "started")
  /\ Write(l, Failure(l)) /\ Goto(l, "written")
  /\ UNCHANGED <<now, pending, inbox, consumer, trusted>>

(* build_prompt: the agent's definition, the paths and what can be learnt  *)
(* of how the build runs; what cannot is left out.  A definition that went *)
(* away since it was looked for ends the runner (Killed).                  *)
Ask(l) ==
  /\ At(l, "started")
  /\ Goto(l, "asking")
  /\ UNCHANGED <<now, pending, report, inbox, consumer, trusted, wrote>>

(* codex exec --output-last-message: the message, if there is one, is      *)
(* written to the report path by Codex itself, without a launch id.  A     *)
(* failed run may have written one too.                                    *)
CodexRuns(l, outcome, text) ==
  /\ At(l, "asking")
  /\ outcome \in {"shaped", "bare"} => text = outcome
  /\ outcome = "nothing" => text = "none"
  /\ report' = IF text = "none" THEN report
               ELSE [report EXCEPT ![File(l)] = [by |-> l, text |-> text, ids |-> {}]]
  /\ runner' = [runner EXCEPT ![l].pc = "ran", ![l].outcome = outcome]
  /\ UNCHANGED <<now, pending, inbox, consumer, trusted, wrote>>

(* ensure_report_shape: no text is a failure, a text without the standard  *)
(* header gets one that says so.                                           *)
Shape(l, file) == IF file = NoFile THEN Failure(l) ELSE file

(* read_report, or the failure report of a run that failed.                *)
ReadBack(l) ==
  /\ At(l, "ran")
  /\ runner' = [runner EXCEPT ![l].pc = "read",
       ![l].text = IF runner[l].outcome = "failed" THEN Failure(l)
                   ELSE Shape(l, report[File(l)])]
  /\ UNCHANGED <<now, pending, report, inbox, consumer, trusted, wrote>>

WriteBack(l) ==
  /\ At(l, "read")
  /\ Write(l, runner[l].text) /\ Goto(l, "written")
  /\ UNCHANGED <<now, pending, inbox, consumer, trusted>>

(* send_to_ceo; without a harness binary, or if it fails, the report lies  *)
(* there unannounced.                                                      *)
Tell(l) ==
  /\ At(l, "written")
  /\ Goto(l, "told") /\ inbox' = inbox \cup {l}
  /\ UNCHANGED <<now, pending, report, consumer, trusted, wrote>>

TellFails(l) ==
  /\ At(l, "written")
  /\ Goto(l, "silent")
  /\ UNCHANGED <<now, pending, report, inbox, consumer, trusted, wrote>>

(* The runner is killed, or never started.                                 *)
Killed(l) ==
  /\ l \in Launched /\ runner[l].pc \notin {"told", "silent", "killed"}
  /\ Goto(l, "killed")
  /\ UNCHANGED <<now, pending, report, inbox, consumer, trusted, wrote>>

----------------------------------------------------------------------------
(* consume(), at any time; the CEO should on the summary's arrival.        *)

(* Slip: the report only has to be there.                                  *)
CarriesAny(l, file) == file # NoFile

Carries(l, file) == file # NoFile /\ l \in file.ids

(* The marker is read, then the report; every rejection leaves the marker. *)
Verify(k) ==
  /\ pending[k] # 0 /\ consumer[k] = 0
  /\ Carries(pending[k], report[File(pending[k])])
  /\ consumer' = [consumer EXCEPT ![k] = pending[k]]
  /\ UNCHANGED <<now, pending, runner, report, inbox, trusted, wrote>>

(* pending.unlink(): the marker that lies there now.                       *)
Unlink(k) ==
  /\ consumer[k] # 0
  /\ pending' = [pending EXCEPT ![k] = 0]
  /\ consumer' = [consumer EXCEPT ![k] = 0]
  /\ trusted' = trusted \cup {consumer[k]}
  /\ UNCHANGED <<now, runner, report, inbox, wrote>>

----------------------------------------------------------------------------
RunnerStep(l) ==
  \/ NoCodex(l) \/ Ask(l)
  \/ \E outcome \in Outcomes, text \in {"shaped", "bare", "none"} : CodexRuns(l, outcome, text)
  \/ ReadBack(l) \/ WriteBack(l)
  \/ Tell(l) \/ TellFails(l)

(* The two runners, their main from the first line to the last.            *)
ReviewRunner(l) ==
  l \in Launched /\ runner[l].kind = "review" /\ (InvalidReview(l) \/ RunnerStep(l))

ProtocolRunner(l) ==
  l \in Launched /\ runner[l].kind = "protocol" /\ (InvalidProtocol(l) \/ RunnerStep(l))

Consume(k) == Verify(k) \/ Unlink(k)
ConsumeReview == "review" \in Kinds /\ Consume("review")
ConsumeProtocol == "protocol" \in Kinds /\ Consume("protocol")

Next ==
  \/ Tick
  \/ \E l \in Launches : \/ LaunchReview(l) \/ LaunchProtocol(l)
                         \/ ReviewRunner(l) \/ ProtocolRunner(l) \/ Killed(l)
  \/ ConsumeReview \/ ConsumeProtocol

(* A running process goes on; Codex ends (external).                       *)
Fairness == \A l \in Launches : WF_vars(ReviewRunner(l) \/ ProtocolRunner(l))

Spec == Init /\ [][Next]_vars /\ Fairness

----------------------------------------------------------------------------
(* A report is trusted only when the runner of the launch in the marker    *)
(* has written it, and it is about that launch's own run: never what Codex *)
(* has just dumped there, nor the report of a launch since replaced.  Two  *)
(* launches within one second share the file, and lose this.               *)
TrustedIsFinal ==
  \A k \in Kinds : consumer[k] # 0 =>
    LET l == consumer[k]
    IN Sharing(l) = {} => l \in wrote /\ report[File(l)].by = l

(* When the summary of a launch has reached the CEO and the launch is the  *)
(* one its marker names, consuming works: the report is there and carries  *)
(* the id, failures included, so no review stays pending for ever.         *)
ToldIsConsumable ==
  \A l \in inbox : Sharing(l) = {} => Carries(l, report[File(l)])

(* Every review that is started is told of, whatever Codex does and        *)
(* whatever is missing, unless its runner is killed, the message cannot be *)
(* sent or the protocol review finds its context invalid.                  *)
OutcomeTold ==
  \A l \in Launches :
    At(l, "started") ~>
      \/ l \in inbox
      \/ At(l, "killed") \/ (At(l, "silent") /\ l \in wrote)
      \/ At(l, "silent") /\ runner[l].kind = "protocol"
==============================================================================

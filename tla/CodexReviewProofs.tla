-------------------------- MODULE CodexReviewProofs --------------------------
(***************************************************************************)
(* Theorems about CodexReview: its types, and what a report the CEO was    *)
(* told of, or trusts, is, for any number of launches and seconds.         *)
(***************************************************************************)
EXTENDS CodexReview, TLAPS

(* A launch that has a report path to itself: the file there is its own,   *)
(* the id in it was put there by its runner, what the runner read back is  *)
(* about its own run, and once it has written, the file carries the id.    *)
Settled(l) ==
  /\ report[File(l)] = NoFile \/ report[File(l)].by = l
  /\ Carries(l, report[File(l)]) => l \in wrote
  /\ At(l, "read") => runner[l].text.by = l
  /\ At(l, "written") \/ At(l, "told") => Carries(l, report[File(l)])
  /\ \A k \in Kinds : consumer[k] = l => l \in wrote /\ report[File(l)] # NoFile

(* What was read back is a report, never nothing.                          *)
ReadText == \A l \in Launches : At(l, "read") => runner[l].text \in Files

(* Markers name launches that took place.                                  *)
Named == \A k \in Kinds : /\ pending[k] # 0 => pending[k] \in Launched
                          /\ consumer[k] # 0 => consumer[k] \in Launched

(* Nothing lies under a name nobody was given.                             *)
Placed == \A f \in Kinds \X Seconds : report[f] # NoFile => \E l \in Launched : File(l) = f

ToldOnly == \A l \in inbox : At(l, "told")
AllSettled == \A l \in Launched : Sharing(l) = {} => Settled(l)
IInv == TypeOK /\ ReadText /\ Named /\ Placed /\ ToldOnly /\ AllSettled

-----------------------------------------------------------------------------
(* Launches and the files they were given.                                 *)

(* What the module assumes of its constants.                               *)
LEMMA Constants ==
  /\ Launches \subseteq Nat \ {0} /\ 0 \notin Launches
  /\ MaxSecond \in Nat \ {0} /\ Seconds \subseteq Nat /\ 1 \in Seconds
  BY ReviewLaunchAssumption DEF Seconds

(* A missing report is no report.                                          *)
LEMMA NoFileIsNone == NoFile \notin Files
  BY Constants DEF NoFile, Files

(* A launch has a runner from its start.                                   *)
LEMMA LaunchedIs ==
  ASSUME TypeOK, NEW l \in Launches
  PROVE  l \in Launched <=> runner[l] \in Runners
<1>1. NotLaunched \notin Runners
  BY DEF NotLaunched, Runners
<1> QED BY <1>1 DEF TypeOK, Launched

(* Its report has a name of its kind and second.                           *)
LEMMA FileTyped ==
  ASSUME TypeOK, NEW l \in Launched
  PROVE  File(l) \in Kinds \X Seconds /\ report[File(l)] \in Files \cup {NoFile}
<1>1. runner[l] \in Runners
  BY LaunchedIs DEF Launched
<1> QED BY <1>1 DEF TypeOK, Runners, File

(* A launch keeps the path it was given.                                   *)
LEMMA SamePaths ==
  ASSUME TypeOK, NEW l \in Launched, NEW r \in Runners,
         r.kind = runner[l].kind, r.second = runner[l].second,
         runner' = [runner EXCEPT ![l] = r]
  PROVE  /\ Launched' = Launched
         /\ \A m \in Launches : m # l => runner'[m] = runner[m]
         /\ runner'[l] = r
         /\ \A m \in Launches : File(m)' = File(m) /\ Sharing(m)' = Sharing(m)
<1>1. /\ runner'[l] = r /\ l \in Launches
      /\ \A m \in Launches : m # l => runner'[m] = runner[m]
  BY DEF TypeOK, Launched
<1>2. r # NotLaunched
  BY DEF NotLaunched, Runners
<1>3. Launched' = Launched
  BY <1>1, <1>2 DEF Launched
<1>4. \A m \in Launches : File(m)' = File(m)
  BY <1>1 DEF File
<1>5. \A m \in Launches : Sharing(m)' = Sharing(m)
  BY <1>3, <1>4 DEF Sharing, Launched
<1> QED BY <1>1, <1>3, <1>4, <1>5

-----------------------------------------------------------------------------
(* A step of the runner of l: its record becomes r and its file `file'.    *)
Advances(l, r, file) ==
  /\ r.kind = runner[l].kind /\ r.second = runner[l].second
  /\ runner' = [runner EXCEPT ![l] = r]
  /\ report' = [report EXCEPT ![File(l)] = file]
  /\ wrote' \in {wrote, wrote \cup {l}} /\ inbox' \in {inbox, inbox \cup {l}}
  /\ UNCHANGED <<now, pending, consumer, trusted>>

(* What the step has to see to for the invariant to survive it.            *)
Keeps(l, r, file) ==
  /\ file = NoFile => report[File(l)] = NoFile
  /\ r.pc = "read" => r.text \in Files
  /\ l \in inbox' => r.pc = "told"
  /\ Sharing(l) = {} =>
       /\ file = NoFile \/ file.by = l
       /\ Carries(l, file) => l \in wrote'
       /\ r.pc = "read" => r.text.by = l
       /\ r.pc \in {"written", "told"} => Carries(l, file)

(* A runner that advances, at its own report, keeps the invariant.         *)
LEMMA AdvanceInductive ==
  ASSUME IInv, NEW l \in Launched, NEW r \in Runners, NEW file \in Files \cup {NoFile},
         Advances(l, r, file), Keeps(l, r, file)
  PROVE  IInv'
<1>1. TypeOK /\ l \in Launches /\ File(l) \in Kinds \X Seconds
  BY FileTyped DEF IInv, Launched
<1>2. /\ Launched' = Launched /\ runner'[l] = r
      /\ \A m \in Launches : m # l => runner'[m] = runner[m]
      /\ \A m \in Launches : File(m)' = File(m) /\ Sharing(m)' = Sharing(m)
  BY <1>1, SamePaths DEF Advances
<1>3. /\ report'[File(l)] = file
      /\ \A f \in Kinds \X Seconds : f # File(l) => report'[f] = report[f]
  BY <1>1 DEF Advances, TypeOK
<1>4. TypeOK'
  BY <1>1 DEF TypeOK, Advances
<1>5. ReadText'
  BY <1>1, <1>2 DEF IInv, ReadText, Keeps, At
<1>6. Named'
  BY <1>2 DEF IInv, Named, Advances
<1>7. Placed'
  BY <1>1, <1>2, <1>3 DEF IInv, Placed, Keeps, Launched
<1>8. ToldOnly'
  <2> SUFFICES ASSUME NEW m \in inbox' PROVE runner'[m].pc = "told"
    BY DEF ToldOnly, At
  <2>1. CASE m = l
    BY <2>1, <1>2 DEF Keeps
  <2>2. CASE m # l
    BY <2>2, <1>1, <1>2 DEF Advances, IInv, ToldOnly, At, TypeOK
  <2> QED BY <2>1, <2>2
<1>9. AllSettled'
  <2> SUFFICES ASSUME NEW m \in Launched, Sharing(m) = {} PROVE Settled(m)'
    BY <1>2 DEF AllSettled, Launched
  <2>0. Settled(m) /\ m \in Launches /\ File(m)' = File(m) /\ File(m) \in Kinds \X Seconds
    BY <1>1, <1>2, FileTyped DEF IInv, AllSettled, Launched
  <2>1. CASE m = l
    <3>1. report'[File(l)'] = file
      BY <2>0, <2>1, <1>3
    <3>2. \A k \in Kinds : consumer'[k] = l => l \in wrote' /\ file # NoFile
      BY <2>0, <2>1 DEF Settled, Advances, Keeps
    <3> QED BY <2>1, <3>1, <3>2, <1>2 DEF Settled, Keeps, At, Carries
  <2>2. CASE m # l
    <3>1. File(m) # File(l)
      BY <2>2, <2>0, <1>1 DEF Sharing, Launched
    <3>2. report'[File(m)'] = report[File(m)] /\ runner'[m] = runner[m]
      BY <2>0, <2>2, <3>1, <1>2, <1>3
    <3>3. (m \in wrote' <=> m \in wrote) /\ consumer' = consumer
      BY <2>2 DEF Advances
    <3> QED BY <2>0, <3>2, <3>3 DEF Settled, At, Carries
  <2> QED BY <2>1, <2>2
<1> QED BY <1>4, <1>5, <1>6, <1>7, <1>8, <1>9 DEF IInv

-----------------------------------------------------------------------------
(* The steps of a runner, each as an Advances that Keeps.                  *)

Running == {"started", "asking", "ran", "read", "written", "told", "silent", "killed"}

(* A runner that goes on changes its place only.                           *)
LEMMA Moved ==
  ASSUME TypeOK, NEW l \in Launched, NEW pc \in Running
  PROVE  LET r == [runner[l] EXCEPT !.pc = pc]
         IN  /\ r \in Runners /\ r.pc = pc /\ r.text = runner[l].text
             /\ r.kind = runner[l].kind /\ r.second = runner[l].second
             /\ Goto(l, pc) => runner' = [runner EXCEPT ![l] = r]
  BY LaunchedIs DEF Launched, Runners, Running, Goto

(* A step that only moves on, to where the invariant asks nothing.         *)
LEMMA GoesOn ==
  ASSUME IInv, NEW l \in Launched, NEW pc \in {"asking", "silent", "killed"},
         Goto(l, pc), ~At(l, "told"), wrote' = wrote,
         UNCHANGED <<now, pending, report, inbox, consumer, trusted>>
  PROVE  IInv'
<1> DEFINE r == [runner[l] EXCEPT !.pc = pc]
<1>1. TypeOK /\ pc \in Running /\ l \in Launches
  BY DEF IInv, Running, Launched
<1>2. /\ r \in Runners /\ r.pc = pc /\ r.text = runner[l].text
      /\ r.kind = runner[l].kind /\ r.second = runner[l].second
      /\ runner' = [runner EXCEPT ![l] = r]
  BY <1>1, Moved
<1> HIDE DEF r
<1>3. PICK file \in Files \cup {NoFile} : file = report[File(l)]
  BY <1>1, FileTyped
<1>4. Advances(l, r, file)
  BY <1>1, <1>2, <1>3 DEF Advances, TypeOK
<1>5. Keeps(l, r, file)
  BY <1>1, <1>2, <1>3 DEF Keeps, IInv, AllSettled, Settled, ToldOnly
<1> QED BY <1>2, <1>4, <1>5, AdvanceInductive

(* write_report, with what is about the launch's own run.                  *)
LEMMA Writes ==
  ASSUME IInv, NEW l \in Launched, NEW text \in Files, Write(l, text), Goto(l, "written"),
         Sharing(l) = {} => text.by = l, ~At(l, "told"),
         UNCHANGED <<now, pending, inbox, consumer, trusted>>
  PROVE  IInv'
<1> DEFINE r == [runner[l] EXCEPT !.pc = "written"]
           file == Embed(text, l)
<1>1. TypeOK /\ "written" \in Running /\ l \in Launches
  BY DEF IInv, Running, Launched
<1>2. /\ r \in Runners /\ r.pc = "written"
      /\ r.kind = runner[l].kind /\ r.second = runner[l].second
      /\ runner' = [runner EXCEPT ![l] = r]
  BY <1>1, Moved
<1>3. file \in Files /\ file.by = text.by /\ l \in file.ids
  BY <1>1 DEF Embed, Files
<1>4. report' = [report EXCEPT ![File(l)] = file] /\ wrote' = wrote \cup {l}
  BY DEF Write
<1> HIDE DEF r, file
<1>5. file # NoFile
  BY <1>3, NoFileIsNone
<1>6. Advances(l, r, file)
  BY <1>2, <1>4 DEF Advances
<1>7. Keeps(l, r, file)
  BY <1>1, <1>2, <1>3, <1>4, <1>5 DEF Keeps, Carries, IInv, ToldOnly
<1> QED BY <1>2, <1>3, <1>6, <1>7, AdvanceInductive

(* The report of a failure is a report of its own launch.                  *)
LEMMA FailureTyped ==
  ASSUME NEW l \in Launches
  PROVE  Failure(l) \in Files /\ Failure(l).by = l
  BY DEF Failure, Files

(* Codex may leave any text, or none: the runner has yet to read it back.  *)
LEMMA CodexStep ==
  ASSUME IInv, NEW l \in Launched, NEW outcome \in Outcomes,
         NEW text \in {"shaped", "bare", "none"}, CodexRuns(l, outcome, text)
  PROVE  IInv'
<1> DEFINE r == [runner[l] EXCEPT !.pc = "ran", !.outcome = outcome]
           file == IF text = "none" THEN report[File(l)]
                   ELSE [by |-> l, text |-> text, ids |-> {}]
<1>1. TypeOK /\ l \in Launches /\ runner[l] \in Runners /\ File(l) \in Kinds \X Seconds
  BY LaunchedIs, FileTyped DEF IInv, Launched
<1>2. /\ r \in Runners /\ r.pc = "ran"
      /\ r.kind = runner[l].kind /\ r.second = runner[l].second
      /\ runner' = [runner EXCEPT ![l] = r]
  BY <1>1 DEF CodexRuns, Runners
<1>3. file \in Files \cup {NoFile}
  BY <1>1, FileTyped DEF Files
<1>4. report' = [report EXCEPT ![File(l)] = file]
  BY <1>1 DEF CodexRuns, TypeOK
<1>5. Keeps(l, r, file)
  <2>1. CASE text = "none"
    <3>1. file = report[File(l)]
      BY <2>1
    <3> QED BY <1>1, <1>2, <3>1
        DEF Keeps, CodexRuns, At, IInv, AllSettled, Settled, ToldOnly
  <2>2. CASE text # "none"
    <3>1. file = [by |-> l, text |-> text, ids |-> {}]
      BY <2>2
    <3>2. file \in Files /\ file # NoFile /\ file.by = l /\ ~Carries(l, file)
      BY <1>1, <2>2, <3>1, NoFileIsNone DEF Files, Carries
    <3> QED BY <1>1, <1>2, <3>2 DEF Keeps, CodexRuns, At, IInv, ToldOnly
  <2> QED BY <2>1, <2>2
<1> HIDE DEF r, file
<1>6. Advances(l, r, file)
  BY <1>2, <1>4 DEF Advances, CodexRuns
<1> QED BY <1>2, <1>3, <1>5, <1>6, AdvanceInductive

(* What is read back is the launch's own, or says that its run failed.     *)
LEMMA ReadStep ==
  ASSUME IInv, NEW l \in Launched, ReadBack(l)
  PROVE  IInv'
<1> DEFINE text == IF runner[l].outcome = "failed" THEN Failure(l)
                   ELSE Shape(l, report[File(l)])
           r == [runner[l] EXCEPT !.pc = "read", !.text = text]
<1>1. TypeOK /\ l \in Launches /\ runner[l] \in Runners /\ File(l) \in Kinds \X Seconds
  BY LaunchedIs, FileTyped DEF IInv, Launched
<1>2. text \in Files /\ (Sharing(l) = {} => text.by = l)
  BY <1>1, FailureTyped, FileTyped DEF Shape, IInv, AllSettled, Settled
<1>3. runner' = [runner EXCEPT ![l] = r]
  BY <1>1 DEF ReadBack
<1> HIDE DEF text
<1>4. /\ r \in Runners /\ r.pc = "read" /\ r.text = text
      /\ r.kind = runner[l].kind /\ r.second = runner[l].second
  BY <1>1, <1>2 DEF Runners
<1> HIDE DEF r
<1>5. PICK file \in Files \cup {NoFile} : file = report[File(l)]
  BY FileTyped, <1>1
<1>6. Advances(l, r, file)
  BY <1>1, <1>3, <1>4, <1>5 DEF Advances, ReadBack, TypeOK
<1>7. Keeps(l, r, file)
  BY <1>1, <1>2, <1>4, <1>5 DEF Keeps, ReadBack, At, IInv, AllSettled, Settled, ToldOnly
<1> QED BY <1>4, <1>6, <1>7, AdvanceInductive

(* The summary goes out after the report is in its place.                  *)
LEMMA TellStep ==
  ASSUME IInv, NEW l \in Launched, Tell(l)
  PROVE  IInv'
<1> DEFINE r == [runner[l] EXCEPT !.pc = "told"]
<1>1. TypeOK /\ "told" \in Running /\ l \in Launches
  BY DEF IInv, Running, Launched
<1>2. /\ r \in Runners /\ r.pc = "told"
      /\ r.kind = runner[l].kind /\ r.second = runner[l].second
      /\ runner' = [runner EXCEPT ![l] = r]
  BY <1>1, Moved DEF Tell
<1> HIDE DEF r
<1>3. PICK file \in Files \cup {NoFile} : file = report[File(l)]
  BY <1>1, FileTyped
<1>4. Advances(l, r, file)
  BY <1>1, <1>2, <1>3 DEF Advances, Tell, TypeOK
<1>5. Keeps(l, r, file)
  BY <1>1, <1>2, <1>3 DEF Keeps, Tell, At, IInv, AllSettled, Settled
<1> QED BY <1>2, <1>4, <1>5, AdvanceInductive

(* Every step of a runner, and its kill, keeps the invariant.              *)
LEMMA RunnersStep ==
  ASSUME IInv, NEW l \in Launches, ReviewRunner(l) \/ ProtocolRunner(l) \/ Killed(l)
  PROVE  IInv'
<1>1. l \in Launched
  BY DEF ReviewRunner, ProtocolRunner, Killed
<1>2. CASE InvalidReview(l) \/ NoCodex(l)
  BY <1>1, <1>2, Writes, FailureTyped DEF InvalidReview, NoCodex, Runs, At
<1>3. CASE InvalidProtocol(l) \/ Ask(l) \/ TellFails(l) \/ Killed(l)
  BY <1>1, <1>3, GoesOn DEF InvalidProtocol, Ask, TellFails, Killed, Runs, At
<1>4. CASE WriteBack(l)
  <2>1. runner[l].text \in Files
    BY <1>4 DEF WriteBack, IInv, ReadText
  <2>2. Sharing(l) = {} => runner[l].text.by = l
    BY <1>1, <1>4 DEF WriteBack, IInv, AllSettled, Settled
  <2> QED BY <1>1, <1>4, <2>1, <2>2, Writes DEF WriteBack, At
<1> QED
  BY <1>1, <1>2, <1>3, <1>4, CodexStep, ReadStep, TellStep
  DEF ReviewRunner, ProtocolRunner, RunnerStep

-----------------------------------------------------------------------------
(* The launcher, the CEO and the clock.                                    *)

(* A new launch either shares a path, or finds nothing under its own.      *)
LEMMA LaunchStep ==
  ASSUME IInv, NEW l \in Launches, NEW k \in Kinds, Launch(l, k)
  PROVE  IInv'
<1> DEFINE r == [pc |-> "started", kind |-> k, second |-> now, outcome |-> "unknown",
                 text |-> NoFile]
<1>1. TypeOK /\ l \notin Launched /\ l # 0
  BY Constants DEF IInv, Launch
<1>2. r \in Runners /\ r # NotLaunched
  BY <1>1 DEF Runners, NotLaunched, TypeOK
<1>3. r.pc = "started" /\ r.kind = k /\ r.second = now /\ k \in Kinds /\ now \in Seconds
  BY <1>1 DEF TypeOK
<1>4. runner' = [runner EXCEPT ![l] = r]
  BY DEF Launch
<1> HIDE DEF r
<1>5. runner'[l] = r /\ \A m \in Launches : m # l => runner'[m] = runner[m]
  BY <1>1, <1>4 DEF TypeOK
<1>6. Launched' = Launched \cup {l}
  BY <1>2, <1>5 DEF Launched
<1>7. File(l)' = <<k, now>> /\ \A m \in Launched : m # l /\ File(m)' = File(m)
  BY <1>1, <1>3, <1>5 DEF File, Launched
<1>8. UNCHANGED <<now, report, inbox, consumer, trusted, wrote>>
  BY DEF Launch
<1>9. TypeOK'
  BY <1>1, <1>2, <1>4, <1>8 DEF Launch, TypeOK
<1>10. ReadText'
  BY <1>3, <1>5 DEF IInv, ReadText, At
<1>11. Named'
  BY <1>1, <1>6, <1>8 DEF IInv, Named, Launch, TypeOK
<1>12. Placed'
  BY <1>6, <1>7, <1>8 DEF IInv, Placed
<1>13. ToldOnly'
  <2>1. \A m \in inbox : m # l
    <3>1. runner[l] = NotLaunched
      BY <1>1 DEF Launched
    <3> QED BY <3>1 DEF IInv, ToldOnly, At, NotLaunched
  <2> QED BY <1>1, <1>5, <1>8, <2>1 DEF IInv, ToldOnly, At, TypeOK
<1>14. AllSettled'
  <2> SUFFICES ASSUME NEW m \in Launched \cup {l}, Sharing(m)' = {} PROVE Settled(m)'
    BY <1>6 DEF AllSettled
  <2>1. CASE m = l
    <3>1. \A n \in Launched : File(n) # <<k, now>>
      BY <2>1, <1>6, <1>7 DEF Sharing
    <3>2. report'[File(l)'] = NoFile
      BY <3>1, <1>3, <1>7, <1>8 DEF IInv, Placed
    <3>3. \A j \in Kinds : consumer'[j] # l
      BY <1>1, <1>8 DEF IInv, Named
    <3> QED BY <2>1, <3>2, <3>3, <1>3, <1>5 DEF Settled, At, Carries
  <2>2. CASE m # l
    <3>1. m \in Launched /\ m \in Launches /\ File(m)' = File(m)
      BY <2>2, <1>7 DEF Launched
    <3>2. Sharing(m) = {}
      BY <3>1, <1>6, <1>7 DEF Sharing
    <3>3. Settled(m) /\ runner'[m] = runner[m]
      BY <2>2, <3>1, <3>2, <1>5 DEF IInv, AllSettled
    <3> QED BY <3>1, <3>3, <1>8 DEF Settled, At, Carries
  <2> QED BY <2>1, <2>2
<1> QED BY <1>9, <1>10, <1>11, <1>12, <1>13, <1>14 DEF IInv

(* Only what carries the id of the marker is verified.                     *)
LEMMA VerifyStep ==
  ASSUME IInv, NEW k \in Kinds, Verify(k)
  PROVE  IInv'
<1>1. TypeOK /\ pending[k] \in Launched /\ UNCHANGED <<now, pending, runner, report, inbox,
      trusted, wrote>>
  BY DEF Verify, IInv, Named
<1>2. consumer' = [consumer EXCEPT ![k] = pending[k]]
  BY DEF Verify
<1>3. /\ Launched' = Launched
      /\ \A m \in Launches : File(m)' = File(m) /\ Sharing(m)' = Sharing(m)
  BY <1>1 DEF Launched, File, Sharing
<1>4. TypeOK'
  BY <1>1, <1>2 DEF TypeOK
<1>5. ReadText' /\ Placed' /\ ToldOnly'
  BY <1>1, <1>3 DEF IInv, ReadText, Placed, ToldOnly, At, Launched
<1>6. Named'
  BY <1>1, <1>2, <1>3 DEF IInv, Named, TypeOK
<1>7. AllSettled'
  <2> SUFFICES ASSUME NEW m \in Launched, Sharing(m) = {} PROVE Settled(m)'
    BY <1>3 DEF AllSettled, Launched
  <2>1. Settled(m) /\ File(m)' = File(m)
    BY <1>3 DEF IInv, AllSettled, Launched
  <2>2. m = pending[k] => Carries(m, report[File(m)])
    BY DEF Verify
  <2>3. \A j \in Kinds : consumer'[j] = m => m \in wrote /\ report[File(m)] # NoFile
    BY <1>1, <1>2, <2>1, <2>2 DEF Settled, Carries, TypeOK
  <2> QED BY <1>1, <2>1, <2>3 DEF Settled, At, Carries
<1> QED BY <1>4, <1>5, <1>6, <1>7 DEF IInv

(* So does the removal of a marker.                                        *)
LEMMA UnlinkStep ==
  ASSUME IInv, NEW k \in Kinds, Unlink(k)
  PROVE  IInv'
<1>1. TypeOK /\ UNCHANGED <<now, runner, report, inbox, wrote>>
  BY DEF Unlink, IInv
<1>2. /\ \A j \in Kinds : consumer'[j] \in {0, consumer[j]}
      /\ \A j \in Kinds : pending'[j] \in {0, pending[j]}
  BY <1>1 DEF Unlink, TypeOK
<1>3. /\ Launched' = Launched
      /\ \A m \in Launches : File(m)' = File(m) /\ Sharing(m)' = Sharing(m)
  BY <1>1 DEF Launched, File, Sharing
<1>4. TypeOK'
  BY <1>1 DEF TypeOK, Unlink
<1>5. ReadText' /\ Placed' /\ ToldOnly' /\ Named'
  BY <1>1, <1>2, <1>3 DEF IInv, ReadText, Placed, ToldOnly, At, Launched, Named
<1>6. AllSettled'
  <2> SUFFICES ASSUME NEW m \in Launched, Sharing(m) = {} PROVE Settled(m)'
    BY <1>3 DEF AllSettled, Launched
  <2>1. Settled(m) /\ File(m)' = File(m) /\ m # 0
    BY <1>3, Constants DEF IInv, AllSettled, Launched
  <2> QED BY <1>1, <1>2, <2>1 DEF Settled, At, Carries
<1> QED BY <1>4, <1>5, <1>6 DEF IInv

(* Every action by itself, in the order of Next.                           *)
LEMMA Inductive == IInv /\ [Next]_vars => IInv'
<1> SUFFICES ASSUME IInv, [Next]_vars PROVE IInv'
  OBVIOUS
<1>1. CASE Tick \/ UNCHANGED vars
  <2>1. UNCHANGED <<pending, runner, report, inbox, consumer, trusted, wrote>>
    BY <1>1 DEF Tick, vars
  <2>2. TypeOK'
    BY <1>1, <2>1, Constants DEF Tick, vars, IInv, TypeOK, Seconds
  <2>3. /\ Launched' = Launched
        /\ \A m \in Launches : File(m)' = File(m) /\ Sharing(m)' = Sharing(m)
    BY <2>1 DEF Launched, File, Sharing
  <2> QED BY <2>1, <2>2, <2>3
      DEF IInv, ReadText, Named, Placed, ToldOnly, AllSettled, Settled, At, Carries, Launched
<1>2. ASSUME NEW l \in Launches, LaunchReview(l) \/ LaunchProtocol(l) PROVE IInv'
  BY <1>2, LaunchStep DEF LaunchReview, LaunchProtocol
<1>3. ASSUME NEW l \in Launches, ReviewRunner(l) \/ ProtocolRunner(l) \/ Killed(l) PROVE IInv'
  BY <1>3, RunnersStep
<1>4. CASE ConsumeReview \/ ConsumeProtocol
  BY <1>4, VerifyStep, UnlinkStep DEF ConsumeReview, ConsumeProtocol, Consume
<1> QED BY <1>1, <1>2, <1>3, <1>4 DEF Next

(* The invariant holds at first.                                           *)
LEMMA InitHolds == Init => IInv
<1> SUFFICES ASSUME Init PROVE IInv
  OBVIOUS
<1>1. TypeOK
  BY Constants DEF Init, TypeOK
<1>2. Launched = {}
  BY DEF Init, Launched
<1> QED BY <1>1, <1>2 DEF Init, IInv, ReadText, Named, Placed, ToldOnly, AllSettled, At,
                          NotLaunched

(* It holds always: reports, runners and markers of any number of launches *)
(* fit together.                                                           *)
THEOREM Invariance == Spec => []IInv
  BY InitHolds, Inductive, PTL DEF Spec

(* Markers, runners and reports keep their types, for any number of        *)
(* launches and seconds.                                                   *)
THEOREM TypeCorrect == Spec => []TypeOK
<1>1. IInv => TypeOK
  BY DEF IInv
<1> QED BY <1>1, Invariance, PTL

(* What a consume has verified was written by that launch's runner, about  *)
(* that launch's run, unless two launches were given one path.             *)
THEOREM TrustIsFinal == Spec => []TrustedIsFinal
<1>1. IInv => TrustedIsFinal
  <2> SUFFICES ASSUME IInv, NEW k \in Kinds, consumer[k] # 0, Sharing(consumer[k]) = {}
               PROVE  consumer[k] \in wrote /\ report[File(consumer[k])].by = consumer[k]
    BY DEF TrustedIsFinal
  <2>1. consumer[k] \in Launched
    BY DEF IInv, Named
  <2> QED BY <2>1 DEF IInv, AllSettled, Settled
<1> QED BY <1>1, Invariance, PTL

(* A review the CEO heard of can be consumed, a failed one too.            *)
THEOREM ToldCanBeConsumed == Spec => []ToldIsConsumable
<1>1. IInv => ToldIsConsumable
  <2> SUFFICES ASSUME IInv, NEW l \in inbox, Sharing(l) = {} PROVE Carries(l, report[File(l)])
    BY DEF ToldIsConsumable
  <2>1. At(l, "told") /\ l \in Launches
    BY DEF IInv, ToldOnly, TypeOK
  <2>2. l \in Launched
    BY <2>1 DEF Launched, At, NotLaunched
  <2> QED BY <2>1, <2>2 DEF IInv, AllSettled, Settled
<1> QED BY <1>1, Invariance, PTL
=============================================================================

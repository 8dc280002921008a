------------------------------- MODULE GitPanel -------------------------------
(***************************************************************************)
(* The git panel of the dashboard (dashboard/backend/main.py): exclude an  *)
(* entry from what a commit carries, include it again, stage, unstage,     *)
(* commit, push, set the remote.  Unlike the controls of a session, these  *)
(* requests take no lock: each runs a few git commands and file operations *)
(* with other requests, agents and the user in between.                    *)
(*                                                                         *)
(* A top-level entry of the build has a version on disk, in the index and  *)
(* in HEAD, 0 where it is absent.  A line of .gitignore is the set of the  *)
(* entries it covers: the line the panel writes for e is {e}, a line of    *)
(* the user may cover several.  Negated lines are left out.  The version   *)
(* of a directory is that of all its files: where it differs from the one  *)
(* in the index, there may be files that git does not know.                *)
(***************************************************************************)
EXTENDS Naturals, SequencesExt

CONSTANTS
  Entries,      (* top-level files and directories of one build            *)
  Dirs,         (* those that are directories                              *)
  Broad,        (* the lines a user writes, each a set of several entries  *)
  Threads,      (* threads of the backend                                  *)
  Rounds,       (* the most lines one include deletes (10 in the code)     *)
  MaxVersion, MaxRules, MaxRequests, MaxEdits, MaxFaults (* bounds         *)

ASSUME GitPanelAssumption ==
  /\ Dirs \subseteq Entries
  /\ \A b \in Broad : b \subseteq Entries /\ \A e \in Entries : b # {e}
  /\ {Rounds, MaxVersion} \subseteq Nat \ {0}
  /\ {MaxRules, MaxRequests, MaxEdits, MaxFaults} \subseteq Nat

VARIABLES
  disk, index, head,  (* entry -> version                                  *)
  born,         (* HEAD has a commit                                       *)
  rules,        (* the lines of .gitignore                                 *)
  outside,      (* entries some other ignore file covers                   *)
  remote,       (* origin is set                                           *)
  ahead,        (* a commit was not pushed                                 *)
  locked,       (* a killed git left its index.lock behind                 *)
  req,          (* thread -> the request it serves and how far it is       *)
  word,         (* history: entry -> what the panel last answered of it,   *)
                (* "out" or "in", as long as nobody asked for otherwise    *)
  asked, edits, faults  (* bounded                                         *)

repo == <<disk, index, head, born, outside>>
origin == <<remote, ahead>>
git == <<locked, faults>>
bounds == <<asked, edits>>
vars == <<repo, rules, origin, git, req, word, bounds>>

Line(e) == {e}
Ignored(e) == e \in outside \/ \E i \in DOMAIN rules : e \in rules[i]

(* The two halves of the panel's list.                                     *)
GoesUp(e) == index[e] # 0 \/ (disk[e] # 0 /\ ~Ignored(e))
NotUp(e) == index[e] = 0 /\ disk[e] # 0 /\ Ignored(e)

Idle == [op |-> "none", at |-> "idle"]
Running(t) == req[t].at \notin {"idle", "answered"}

TypeOK ==
  /\ {disk, index, head} \subseteq [Entries -> 0..MaxVersion]
  /\ {born, remote, ahead, locked} \subseteq BOOLEAN
  /\ ahead => born
  /\ ~born => \A e \in Entries : head[e] = 0
  /\ rules \in Seq(SUBSET Entries) /\ outside \subseteq Entries
  /\ \A t \in Threads :
       /\ req[t].at \in {"idle", "read", "list", "uncache", "append", "blind",
                         "check", "edit", "write", "go", "reset", "send", "answered"}
       /\ req[t].at = "write" /\ req[t].op = "include" =>
            /\ req[t].hit \in DOMAIN req[t].lines
            /\ req[t].lines[req[t].hit] = req[t].pattern
            /\ req[t].rounds < Rounds
  /\ word \in [Entries -> {"none", "in", "out"}]
  /\ asked \in 0..MaxRequests /\ edits \in 0..MaxEdits /\ faults \in 0..MaxFaults

Init ==
  /\ disk = [e \in Entries |-> 1]
  /\ born \in BOOLEAN
  /\ head = [e \in Entries |-> IF born THEN 1 ELSE 0] /\ index = head
  /\ rules \in {<<>>} \cup {<<b>> : b \in Broad}
               \cup {<<Line(e), b>> : e \in Entries, b \in Broad}
  /\ outside \in {{}} \cup {{e} : e \in Entries}
  /\ remote = FALSE /\ ahead = born /\ locked = FALSE
  /\ req = [t \in Threads |-> Idle]
  /\ word = [e \in Entries |-> "none"]
  /\ asked = 0 /\ edits = 0 /\ faults = 0

-----------------------------------------------------------------------------
(* Requests.  A request is alone as long as nobody else changed a file,    *)
(* the index or .gitignore since it began.                                 *)

Disturbing(T) ==
  [u \in Threads |-> IF u \in T /\ Running(u) THEN [req[u] EXCEPT !.alone = FALSE]
                     ELSE req[u]]

Goes(t, r) == req' = [req EXCEPT ![t] = r]
Writes(t, r) == req' = [Disturbing(Threads \ {t}) EXCEPT ![t] = r]
At(t, op, pc) == req[t].op = op /\ req[t].at = pc
To(t, pc) == [req[t] EXCEPT !.at = pc]
Answer(t, ok) == [To(t, "answered") EXCEPT !.ok = ok]

Ask(t) ==
  /\ ~Running(t) /\ asked < MaxRequests
  /\ asked' = asked + 1
  /\ \/ \E op \in {"stage", "unstage", "commit", "push", "remote"} :
          Goes(t, [op |-> op, at |-> "go", ok |-> FALSE, alone |-> TRUE,
                   unborn |-> FALSE])
     \/ \E e \in Entries :
          Goes(t, [op |-> "exclude", at |-> "read", e |-> e, ok |-> FALSE,
                   alone |-> TRUE])
     \/ \E e \in Entries :
          Goes(t, [op |-> "include", at |-> "list", e |-> e, ok |-> FALSE,
                   alone |-> TRUE, listed |-> {}, freed |-> {}, rounds |-> 0,
                   hit |-> 0, pattern |-> {}, also |-> {}, lines |-> <<>>])
  /\ UNCHANGED <<repo, rules, origin, git, word, edits>>

(* A git command that writes fails on the lock file, or by itself; killed  *)
(* at its timeout it may leave the lock file behind.                       *)
Works == ~locked /\ UNCHANGED git
Breaks == \/ locked /\ UNCHANGED git
          \/ /\ faults < MaxFaults /\ faults' = faults + 1
             /\ locked' \in {locked, TRUE}

Refuse(t) == Goes(t, Answer(t, FALSE)) /\ UNCHANGED <<index, head, born, rules, word>>

(* A write of .gitignore fails before it touched the file, or leaves one   *)
(* of the contents `left` behind: nobody knows what those lines cover.     *)
Spoils(t, left) ==
  /\ faults < MaxFaults /\ faults' = faults + 1
  /\ rules' \in {rules} \cup left
  /\ word' = IF rules' = rules THEN word ELSE [e \in Entries |-> "none"]
  /\ Writes(t, Answer(t, FALSE))
  /\ UNCHANGED <<repo, locked>>

(* What is there of a file that was being written, its last line cut: it   *)
(* may cover anything, a cut *.log is a star.                              *)
CutLines == SUBSET Entries
CutOff(lines) ==
  LET Begin(n) == SubSeq(lines, 1, n) IN
  {Begin(n) : n \in 0..Len(lines)}
    \cup {Append(Begin(n - 1), c) : n \in DOMAIN lines, c \in CutLines}

-----------------------------------------------------------------------------
(* _gitignore_add                                                          *)

(* A line that is there already is answered before the lists are read.     *)
ExcludeReads(t) ==
  /\ At(t, "exclude", "read")
  /\ Goes(t, IF Contains(rules, Line(req[t].e)) THEN Answer(t, TRUE)
             ELSE To(t, "list"))
  /\ UNCHANGED <<repo, rules, origin, git, word, bounds>>

(* Slip: a tracked entry is only given its line.                           *)
ExcludeListsIgnoringIndex(t) ==
  /\ At(t, "exclude", "list")
  /\ Goes(t, IF GoesUp(req[t].e) THEN To(t, "append") ELSE Answer(t, FALSE))
  /\ UNCHANGED <<repo, rules, origin, git, word, bounds>>

ExcludeLists(t) ==
  /\ At(t, "exclude", "list")
  /\ Goes(t, IF index[req[t].e] # 0 THEN To(t, "uncache")
             ELSE IF GoesUp(req[t].e) THEN To(t, "append") ELSE Answer(t, FALSE))
  /\ UNCHANGED <<repo, rules, origin, git, word, bounds>>

(* The entry is or holds a file that git lists as untracked.               *)
Untracked(e) ==
  /\ disk[e] # 0 /\ ~Ignored(e)
  /\ index[e] # 0 => e \in Dirs /\ disk[e] # index[e]

(* One of the two listings, or each, times out and counts as empty.        *)
(* Without the tracked files a directory that holds untracked ones as well *)
(* gets its line while its tracked files stay in the index.                *)
ExcludeBlind(t) ==
  /\ At(t, "exclude", "list")
  /\ faults < MaxFaults /\ faults' = faults + 1
  /\ LET e == req[t].e IN
       \/ Goes(t, Answer(t, FALSE))
       \/ index[e] # 0 /\ Goes(t, To(t, "uncache"))
       \/ Untracked(e) /\ Goes(t, To(t, IF index[e] = 0 THEN "append" ELSE "blind"))
  /\ UNCHANGED <<repo, rules, origin, locked, word, bounds>>

(* git rm --cached refuses an entry whose staged content is found neither  *)
(* on disk nor in HEAD.                                                    *)
Uncacheable(e) == disk[e] # 0 => index[e] \in {disk[e], head[e]}

Uncache(t) ==
  /\ At(t, "exclude", "uncache")
  /\ LET e == req[t].e IN
       \/ /\ index[e] # 0 /\ Uncacheable(e) /\ Works
          /\ index' = [index EXCEPT ![e] = 0]
          /\ Writes(t, To(t, "append"))
          /\ UNCHANGED <<head, born, rules, word>>
       \/ Breaks /\ Refuse(t) /\ UNCHANGED index
       \/ (index[e] = 0 \/ ~Uncacheable(e)) /\ UNCHANGED git /\ Refuse(t)
  /\ UNCHANGED <<disk, outside, origin, bounds>>

(* The line is appended to whatever the file holds by now.  A write that   *)
(* fails leaves the entry out of the index all the same.                   *)
AddLine(t) ==
  /\ At(t, "exclude", "append") \/ At(t, "exclude", "blind")
  /\ LET e == req[t].e
         out == req[t].alone /\ req[t].at = "append"
     IN \/ /\ rules' = Append(rules, Line(e))
           /\ Writes(t, Answer(t, TRUE))
           /\ word' = [word EXCEPT ![e] = IF out THEN "out" ELSE "none"]
           /\ UNCHANGED <<repo, git>>
        \/ Spoils(t, {Append(rules, c) : c \in CutLines})
  /\ UNCHANGED <<origin, bounds>>

-----------------------------------------------------------------------------
(* _gitignore_remove: while a line covers the entry, delete the one git    *)
(* names.                                                                  *)

IncludeLists(t) ==
  /\ At(t, "include", "list")
  /\ \/ /\ Goes(t, IF NotUp(req[t].e)
                     THEN [To(t, "check") EXCEPT !.listed = {f \in Entries : NotUp(f)}]
                     ELSE Answer(t, FALSE))
        /\ UNCHANGED <<repo, rules, git, word>>
     \/ /\ faults < MaxFaults /\ faults' = faults + 1
        /\ Refuse(t) /\ UNCHANGED <<disk, outside, locked>>
  /\ UNCHANGED <<origin, bounds>>

(* git check-ignore names the last line, and none for a tracked entry.     *)
Hit(f) == IF index[f] # 0 THEN 0
          ELSE SelectLastInSeq(rules, LAMBDA r : f \in r)

(* After Rounds deletions the answer is an error, without another look.    *)
IncludeChecks(t) ==
  /\ At(t, "include", "check")
  /\ LET e == req[t].e
         clear == index[e] # 0 \/ ~Ignored(e)
     IN \/ /\ req[t].rounds = Rounds \/ (~clear /\ Hit(e) = 0)
           /\ Refuse(t)
        \/ /\ req[t].rounds < Rounds /\ clear
           /\ Goes(t, Answer(t, TRUE))
           /\ word' = [word EXCEPT ![e] =
                         IF req[t].alone /\ req[t].rounds > 0 THEN "in" ELSE @]
           /\ UNCHANGED <<index, head, born, rules>>
        \/ /\ req[t].rounds < Rounds /\ Hit(e) # 0
           /\ Goes(t, [To(t, "edit") EXCEPT
                         !.hit = Hit(e), !.pattern = rules[Hit(e)],
                         !.also = {f \in req[t].listed \ {e} : Hit(f) = Hit(e)}])
           /\ UNCHANGED <<index, head, born, rules, word>>
  /\ UNCHANGED <<disk, outside, origin, git, bounds>>

(* A check that times out names no line: the include ends, as a success.   *)
IncludeBlind(t) ==
  /\ At(t, "include", "check") /\ req[t].rounds < Rounds
  /\ faults < MaxFaults /\ faults' = faults + 1
  /\ Goes(t, Answer(t, TRUE))
  /\ UNCHANGED <<repo, rules, origin, locked, word, bounds>>

(* Slip: the line at that number is taken without a look at it.            *)
IncludeReadsUnverified(t) ==
  /\ At(t, "include", "edit")
  /\ Goes(t, [To(t, "write") EXCEPT !.lines = rules, !.freed = @ \cup req[t].also])
  /\ UNCHANGED <<repo, rules, origin, git, word, bounds>>

(* Slip: only the last deleted line's entries are told.                    *)
IncludeReadsForgetting(t) ==
  /\ At(t, "include", "edit")
  /\ LET hit == req[t].hit IN
       IF hit \in DOMAIN rules /\ rules[hit] = req[t].pattern
         THEN Goes(t, [To(t, "write") EXCEPT !.lines = rules, !.freed = req[t].also])
         ELSE Goes(t, Answer(t, FALSE))
  /\ UNCHANGED <<repo, rules, origin, git, word, bounds>>

IncludeReads(t) ==
  /\ At(t, "include", "edit")
  /\ LET hit == req[t].hit IN
       IF hit \in DOMAIN rules /\ rules[hit] = req[t].pattern
         THEN Goes(t, [To(t, "write") EXCEPT !.lines = rules,
                                             !.freed = @ \cup req[t].also])
         ELSE Goes(t, Answer(t, FALSE))
  /\ UNCHANGED <<repo, rules, origin, git, word, bounds>>

(* The whole file is truncated and written again: a line added since it    *)
(* was read is lost and one deleted since is back, whatever was answered   *)
(* about them, and a write that fails may lose any number of lines.        *)
IncludeWrites(t) ==
  /\ At(t, "include", "write")
  /\ LET e == req[t].e
         lines == RemoveAt(req[t].lines, req[t].hit)
     IN \/ /\ rules' = lines
           /\ Writes(t, [To(t, "check") EXCEPT !.rounds = @ + 1])
           /\ word' = [f \in Entries |->
                         IF rules # req[t].lines \/ f = e THEN "none" ELSE word[f]]
           /\ UNCHANGED <<repo, git>>
        \/ Spoils(t, CutOff(lines))
  /\ UNCHANGED <<origin, bounds>>

-----------------------------------------------------------------------------
(* _stage, _unstage, _commit, _push, _remote_set                           *)

(* git add -A                                                              *)
Stage(t) ==
  /\ At(t, "stage", "go")
  /\ \/ /\ Works
        /\ index' = [e \in Entries |-> IF GoesUp(e) THEN disk[e] ELSE 0]
        /\ Writes(t, Answer(t, TRUE))
        /\ UNCHANGED <<head, born, rules, word>>
     \/ Breaks /\ Refuse(t)
  /\ UNCHANGED <<disk, outside, origin, bounds>>

(* A look that times out sees no staged change, or no commit.              *)
UnstageLooks(t) ==
  /\ At(t, "unstage", "go")
  /\ \E seen, changed \in BOOLEAN :
       /\ seen => born
       /\ changed => index # head
       /\ Goes(t, IF seen \/ changed THEN [To(t, "reset") EXCEPT !.unborn = ~seen]
                  ELSE Answer(t, TRUE))
       /\ IF seen = born /\ (seen \/ changed = (index # head))
            THEN UNCHANGED faults
            ELSE faults < MaxFaults /\ faults' = faults + 1
  /\ UNCHANGED <<repo, rules, origin, locked, word, bounds>>

(* git reset, or git rm -r --cached . where there seems to be no commit.   *)
UnstageResets(t) ==
  /\ At(t, "unstage", "reset")
  /\ \/ /\ Works
        /\ req[t].unborn => /\ \E e \in Entries : index[e] # 0
                            /\ \A e \in Entries : index[e] # 0 => Uncacheable(e)
        /\ index' = IF req[t].unborn THEN [e \in Entries |-> 0] ELSE head
        /\ word' = [e \in Entries |->
                      IF word[e] = "out" /\ index'[e] # 0 THEN "none" ELSE word[e]]
        /\ Writes(t, Answer(t, TRUE))
        /\ UNCHANGED <<head, born, rules>>
     \/ Breaks /\ Refuse(t)
     \/ /\ req[t].unborn /\ UNCHANGED git
        /\ \/ \A e \in Entries : index[e] = 0
           \/ \E e \in Entries : index[e] # 0 /\ ~Uncacheable(e)
        /\ Refuse(t)
  /\ UNCHANGED <<disk, outside, origin, bounds>>

CommitLooks(t) ==
  /\ At(t, "commit", "go")
  /\ Goes(t, IF index = head THEN Answer(t, FALSE) ELSE To(t, "write"))
  /\ UNCHANGED <<repo, rules, origin, git, word, bounds>>

CommitWrites(t) ==
  /\ At(t, "commit", "write")
  /\ \/ /\ Works /\ index # head
        /\ head' = index /\ born' = TRUE /\ ahead' = TRUE
        /\ Writes(t, Answer(t, TRUE))
        /\ UNCHANGED <<index, rules, word>>
     \/ Breaks /\ Refuse(t) /\ UNCHANGED ahead
     \/ index = head /\ UNCHANGED <<git, ahead>> /\ Refuse(t)
  /\ UNCHANGED <<disk, outside, remote, bounds>>

PushLooks(t) ==
  /\ At(t, "push", "go")
  /\ Goes(t, IF remote /\ born THEN To(t, "send") ELSE Answer(t, FALSE))
  /\ UNCHANGED <<repo, rules, origin, git, word, bounds>>

PushSends(t) ==
  /\ At(t, "push", "send")
  /\ \E ok \in BOOLEAN : Goes(t, Answer(t, ok)) /\ ahead' = (ahead /\ ~ok)
  /\ UNCHANGED <<repo, rules, remote, git, word, bounds>>

(* An address of another form than the four allowed is refused.            *)
RemoteSet(t) ==
  /\ At(t, "remote", "go")
  /\ \E valid \in BOOLEAN : Goes(t, Answer(t, valid)) /\ remote' = (remote \/ valid)
  /\ UNCHANGED <<repo, rules, ahead, git, word, bounds>>

-----------------------------------------------------------------------------
(* Agents and the user.                                                    *)

Edit ==
  /\ edits < MaxEdits /\ edits' = edits + 1
  /\ \E e \in Entries, v \in 0..MaxVersion : disk' = [disk EXCEPT ![e] = v]
  /\ req' = Disturbing(Threads)
  /\ UNCHANGED <<index, head, born, outside, rules, origin, git, word, asked>>

ForceAdd ==
  /\ edits < MaxEdits /\ edits' = edits + 1 /\ ~locked
  /\ \E e \in Entries :
       /\ disk[e] # 0 /\ index' = [index EXCEPT ![e] = disk[e]]
       /\ word' = [word EXCEPT ![e] = "none"]
  /\ req' = Disturbing(Threads)
  /\ UNCHANGED <<disk, head, born, outside, rules, origin, git, asked>>

EditRules ==
  /\ edits < MaxEdits /\ edits' = edits + 1
  /\ \/ Len(rules) < MaxRules /\ \E b \in Broad : rules' = Append(rules, b)
     \/ \E i \in DOMAIN rules : rules' = RemoveAt(rules, i)
  /\ word' = [e \in Entries |-> "none"]
  /\ req' = Disturbing(Threads)
  /\ UNCHANGED <<repo, origin, git, asked>>

Unlock ==
  /\ locked /\ locked' = FALSE
  /\ UNCHANGED <<repo, rules, origin, faults, req, word, bounds>>

Step(t) ==
  \/ ExcludeReads(t) \/ ExcludeLists(t) \/ ExcludeBlind(t) \/ Uncache(t) \/ AddLine(t)
  \/ IncludeLists(t) \/ IncludeChecks(t) \/ IncludeBlind(t) \/ IncludeReads(t)
  \/ IncludeWrites(t)
  \/ Stage(t) \/ UnstageLooks(t) \/ UnstageResets(t)
  \/ CommitLooks(t) \/ CommitWrites(t) \/ PushLooks(t) \/ PushSends(t)
  \/ RemoteSet(t)

Next ==
  \/ \E t \in Threads : Ask(t) \/ Step(t)
  \/ Edit \/ ForceAdd \/ EditRules \/ Unlock

Spec == Init /\ [][Next]_vars

-----------------------------------------------------------------------------
(* What the panel answered about an entry stays true through staging,      *)
(* unstaging, commits and every request about other entries: an excluded   *)
(* entry is in no later commit, an included one goes up while it is on     *)
(* disk. Some answers give no word. One is that of a request others        *)
(* disturbed; one that nothing was to be done: the line is there already,  *)
(* whatever the index holds, or no rule was found; and one of a listing    *)
(* that timed out. An exclude of a directory whose ls-files timed out      *)
(* leaves the tracked files in the index, where its docstring takes them   *)
(* out first, and an include whose check-ignore timed out ends with rules  *)
(* left; both answer ok. The word ends where somebody asks for otherwise   *)
(* (the opposite button, unstage for an entry HEAD has, a forced add, an   *)
(* edit of .gitignore), where an include overwrites a file changed since   *)
(* it was read, and where a write of the file fails half-way.              *)
AnswersHold ==
  \A e \in Entries :
    /\ word[e] = "out" => index[e] = 0 /\ Ignored(e)
    /\ word[e] = "in" /\ disk[e] # 0 => GoesUp(e)

(* Every listed entry that an undisturbed include freed along with the one *)
(* asked for is named in its answer, however many lines it deleted.        *)
FreedIsTold ==
  [][\A t \in Threads :
       /\ At(t, "include", "check") /\ req'[t].at = "answered"
       /\ req'[t].ok /\ req[t].alone
       => {f \in req[t].listed \ {req[t].e} : ~Ignored(f)} \subseteq req'[t].freed]_vars

=============================================================================

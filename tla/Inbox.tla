-------------------------------- MODULE Inbox --------------------------------
(***************************************************************************)
(* The message bus as the code runs it: one SQLite table `msg`             *)
(* (harness/db.py), written by `harness send` and `harness inbox`          *)
(* (harness/cli.py), by the dashboard's inbox buttons                      *)
(* (dashboard/backend/main.py), by run.sh when a CTO is restarted fresh or *)
(* deleted, and by the daemon's own notices.  Every writer is a process of *)
(* its own; what they share is the table and SQLite's single write lock.   *)
(*                                                                         *)
(* A statement outside a transaction runs in autocommit mode: it needs the *)
(* write lock for one instant.  `harness inbox` is the only multi-step     *)
(* transaction, so it is modelled step by step and may die at any step.    *)
(***************************************************************************)
EXTENDS Naturals

CONSTANTS
  Projects,   (* names of CTO projects                                  *)
  NoName,     (* the name of a role that belongs to no project          *)
  Roles,      (* the roles that take part, a subset of Role             *)
  Sessions,   (* the roles whose agents run `harness inbox`             *)
  Readers,    (* processes that may run it                              *)
  Serves,     (* reader -> the roles it may be started for              *)
  NoReader,   (* the write lock is free                                 *)
  MaxMsg      (* bound: rows ever inserted                              *)

PairKinds == {"codex-cto", "designer-cto"}

Role == [kind : {"ceo", "harnessd"}, name : {NoName}]
          \cup [kind : {"cto"} \cup PairKinds, name : Projects]

Ceo == [kind |-> "ceo", name |-> NoName]
Harnessd == [kind |-> "harnessd", name |-> NoName]
Cto(p) == [kind |-> "cto", name |-> p]

ASSUME InboxAssumption ==
  /\ Roles \subseteq Role
  /\ {Ceo, Harnessd} \subseteq Roles
  /\ Ceo \in Sessions /\ Sessions \subseteq Roles
  /\ NoReader \notin Readers
  /\ Serves \in [Readers -> SUBSET Sessions]
  /\ MaxMsg \in Nat

VARIABLES
  next,      (* rows inserted so far: AUTOINCREMENT never reuses an id   *)
  from, to,  (* the two role columns                                     *)
  row,       (* "absent", "unread" (read_at NULL), "read" or "deleted"   *)
  writer,    (* the reader inside BEGIN IMMEDIATE, or NoReader           *)
  pc,        (* where each `harness inbox` process is                    *)
  me,        (* the role that process reads for                          *)
  batch,     (* the rows it selected and has not printed yet             *)
  pulled,    (* rows a dashboard pull stamped and has not injected yet   *)
  copies,    (* history: how often a row was handed to its addressee     *)
  lost,      (* history: rows given up after they were stamped read      *)
  marker,    (* roles whose inbox-isolation marker file exists           *)
  exposed    (* history: roles shown a body by a command still trusted   *)
             (* to leave the marker, since their last prompt             *)

table == <<next, from, to, row>>
reading == <<writer, pc, me, batch>>
history == <<copies, lost>>
turn == <<marker, exposed>>
vars == <<table, reading, pulled, history, turn>>

Ids == 1..MaxMsg

TypeOK ==
  /\ next \in 0..MaxMsg
  /\ from \in [Ids -> Roles] /\ to \in [Ids -> Roles]
  /\ row \in [Ids -> {"absent", "unread", "read", "deleted"}]
  /\ writer \in Readers \cup {NoReader}
  /\ pc \in [Readers -> {"idle", "waiting", "begun", "selected", "printing",
                         "peeking"}]
  /\ me \in [Readers -> Sessions]
  /\ batch \in [Readers -> SUBSET Ids]
  /\ pulled \in SUBSET Ids
  /\ copies \in [Ids -> Nat]
  /\ lost \in SUBSET Ids
  /\ marker \in SUBSET Sessions
  /\ exposed \in SUBSET Sessions

Init ==
  /\ next = 0
  /\ from = [i \in Ids |-> Harnessd] /\ to = [i \in Ids |-> Ceo]
  /\ row = [i \in Ids |-> "absent"]
  /\ writer = NoReader
  /\ pc = [r \in Readers |-> "idle"]
  /\ me = [r \in Readers |-> Ceo]
  /\ batch = [r \in Readers |-> {}]
  /\ pulled = {}
  /\ copies = [i \in Ids |-> 0]
  /\ lost = {}
  /\ marker = {} /\ exposed = {}

-----------------------------------------------------------------------------
(* Writing rows: every statement here commits on its own.                  *)

LockFree == writer = NoReader

Present(i) == row[i] \in {"unread", "read"}

(* Slip: ORDER BY id DESC LIMIT 1, only the newest row is claimed.         *)
NewestUnreadFor(ro) ==
  {i \in Ids : /\ row[i] = "unread" /\ to[i] = ro
               /\ \A j \in Ids : row[j] = "unread" /\ to[j] = ro => j <= i}

UnreadFor(ro) == {i \in Ids : row[i] = "unread" /\ to[i] = ro}

(* _assert_send_route: either end a codex or designer CTO means the other  *)
(* end is the CTO of the same project.                                     *)
RouteOk(f, t) ==
  \A k \in PairKinds :
    /\ f.kind = k => t.kind = "cto" /\ t.name = f.name
    /\ f.kind # k /\ t.kind = k => f.kind = "cto" /\ f.name = t.name

Insert(f, t) ==
  /\ LockFree
  /\ next < MaxMsg
  /\ next' = next + 1
  /\ from' = [from EXCEPT ![next + 1] = f]
  /\ to' = [to EXCEPT ![next + 1] = t]
  /\ row' = [row EXCEPT ![next + 1] = "unread"]
  /\ UNCHANGED <<reading, pulled, history, turn>>

(* `harness send`: the discovery check only refuses, --to-unknown skips it. *)
Send(f, t) == RouteOk(f, t) /\ Insert(f, t)

(* The daemon writes its notices (pair alert, fired watch) past the route. *)
Notify(t) == Insert(Harnessd, t)

(* The daemon stamps its own unread alerts once their cause is gone.       *)
Resolve(S) ==
  /\ LockFree
  /\ S # {}
  /\ \A i \in S : row[i] = "unread" /\ from[i] = Harnessd /\ to[i] = Ceo
  /\ row' = [i \in Ids |-> IF i \in S THEN "read" ELSE row[i]]
  /\ lost' = lost \cup S
  /\ UNCHANGED <<next, from, to, reading, pulled, copies, turn>>

Delete(S) ==
  /\ LockFree
  /\ \E i \in S : Present(i)
  /\ row' = [i \in Ids |-> IF i \in S /\ Present(i) THEN "deleted" ELSE row[i]]
  /\ UNCHANGED <<next, from, to, reading, pulled, history, turn>>

WithCeo(i) == Ceo \in {from[i], to[i]}
Between(A, B) == {i \in Ids : from[i] \in A /\ to[i] \in B}
PairOf(p) == {ro \in Roles : ro.name = p /\ ro.kind \in {"cto", "codex-cto"}}
HelpersOf(p) == {ro \in Roles : ro.name = p /\ ro.kind \in PairKinds}

InboxDelete(i) == WithCeo(i) /\ Delete({i})
InboxClear == Delete({i \in Ids : from[i] # Harnessd /\ WithCeo(i)})
SystemClear == Delete(Between({Harnessd}, {Ceo}))
CtoInboxDelete(p, i) == i \in Between(PairOf(p), PairOf(p)) /\ Delete({i})
CtoInboxClear(p) == Delete(Between(PairOf(p), PairOf(p)))

(* run.sh add-cto --fresh: the talk inside the trio goes, the CEO's stays. *)
PurgeFresh(p) ==
  Delete(Between({Cto(p)}, HelpersOf(p)) \cup Between(HelpersOf(p), {Cto(p)}))

(* run.sh delete-cto: every row the CTO wrote or was to read.              *)
PurgeCto(p) == Delete({i \in Ids : Cto(p) \in {from[i], to[i]}})

-----------------------------------------------------------------------------
(* harness inbox: BEGIN IMMEDIATE, SELECT, UPDATE, COMMIT, print, marker.  *)

(* An ended process has no role; Ceo stands for that.                      *)
End(r) ==
  /\ pc' = [pc EXCEPT ![r] = "idle"]
  /\ me' = [me EXCEPT ![r] = Ceo]

(* Slip: the role gate is gone and the process reads under no session.     *)
InvokeUngated(r, ro) ==
  /\ pc[r] = "idle"
  /\ pc' = [pc EXCEPT ![r] = "waiting"]
  /\ me' = [me EXCEPT ![r] = Harnessd]
  /\ UNCHANGED <<table, writer, batch, pulled, history, turn>>

Invoke(r, ro) ==
  /\ pc[r] = "idle"
  /\ pc' = [pc EXCEPT ![r] = "waiting"]
  /\ me' = [me EXCEPT ![r] = ro]
  /\ UNCHANGED <<table, writer, batch, pulled, history, turn>>

(* Slip: a plain BEGIN, which takes no write lock before the SELECT.       *)
BeginDeferred(r) ==
  /\ pc[r] = "waiting"
  /\ pc' = [pc EXCEPT ![r] = "begun"]
  /\ UNCHANGED <<table, writer, me, batch, pulled, history, turn>>

Begin(r) ==
  /\ pc[r] = "waiting"
  /\ LockFree
  /\ writer' = r
  /\ pc' = [pc EXCEPT ![r] = "begun"]
  /\ UNCHANGED <<table, me, batch, pulled, history, turn>>

(* Slip: no busy_timeout, a locked-out command waits for as long as it takes. *)
BeginForever(r) == FALSE /\ UNCHANGED vars

(* busy_timeout ran out while another process held the write lock.         *)
BeginTimeout(r) ==
  /\ pc[r] = "waiting"
  /\ ~LockFree
  /\ End(r)
  /\ UNCHANGED <<table, writer, batch, pulled, history, turn>>

(* An empty inbox commits at once and leaves no marker.                    *)
Select(r) ==
  /\ pc[r] = "begun"
  /\ batch' = [batch EXCEPT ![r] = UnreadFor(me[r])]
  /\ IF UnreadFor(me[r]) = {}
       THEN End(r) /\ writer' = NoReader
       ELSE pc' = [pc EXCEPT ![r] = "selected"] /\ UNCHANGED <<writer, me>>
  /\ UNCHANGED <<table, pulled, history, turn>>

(* UPDATE then COMMIT: nobody sees the stamps before the COMMIT, so the two *)
(* statements are one step; an error in either is a Rollback.              *)
Commit(r) ==
  /\ pc[r] = "selected"
  /\ row' = [i \in Ids |-> IF i \in batch[r] /\ row[i] = "unread"
                             THEN "read" ELSE row[i]]
  /\ writer' = NoReader
  /\ pc' = [pc EXCEPT ![r] = "printing"]
  /\ UNCHANGED <<next, from, to, me, batch, pulled, history, turn>>

(* A statement of the transaction raises: ROLLBACK, and the command fails. *)
Rollback(r) ==
  /\ pc[r] \in {"begun", "selected"}
  /\ writer' = NoReader
  /\ End(r)
  /\ batch' = [batch EXCEPT ![r] = {}]
  /\ UNCHANGED <<table, pulled, history, turn>>

(* --peek reads a snapshot: no lock, no stamp.                             *)
Peek(r, ro) ==
  /\ pc[r] = "idle"
  /\ UnreadFor(ro) # {}
  /\ pc' = [pc EXCEPT ![r] = "peeking"]
  /\ me' = [me EXCEPT ![r] = ro]
  /\ batch' = [batch EXCEPT ![r] = UnreadFor(ro)]
  /\ UNCHANGED <<table, writer, pulled, history, turn>>

Printing(r) == pc[r] \in {"printing", "peeking"}

(* Slip: the loop leaves after the first row.                              *)
PrintFirstOnly(r, i) ==
  /\ Printing(r)
  /\ i \in batch[r] /\ \A j \in batch[r] : i <= j
  /\ batch' = [batch EXCEPT ![r] = {}]
  /\ copies' = IF pc[r] = "peeking" THEN copies
               ELSE [copies EXCEPT ![i] = @ + 1]
  /\ exposed' = exposed \cup {me[r]}
  /\ UNCHANGED <<table, writer, pc, me, pulled, lost, marker>>

(* Rows are printed in id order, from the list the process holds.          *)
PrintRow(r, i) ==
  /\ Printing(r)
  /\ i \in batch[r] /\ \A j \in batch[r] : i <= j
  /\ batch' = [batch EXCEPT ![r] = @ \ {i}]
  /\ copies' = IF pc[r] = "peeking" THEN copies
               ELSE [copies EXCEPT ![i] = @ + 1]
  /\ exposed' = exposed \cup {me[r]}
  /\ UNCHANGED <<table, writer, pc, me, pulled, lost, marker>>

(* Slip: --peek returns before it leaves the marker.                       *)
FinishPeekUnmarked(r, touched) ==
  /\ Printing(r)
  /\ batch[r] = {}
  /\ End(r)
  /\ marker' = IF touched /\ pc[r] = "printing" THEN marker \cup {me[r]}
               ELSE marker
  /\ exposed' = IF touched THEN exposed ELSE exposed \ {me[r]}
  /\ UNCHANGED <<table, writer, batch, pulled, history>>

(* _set_inbox_isolation_marker: an error while touching the file is        *)
(* swallowed, and then nothing vouches for the role's exposure.            *)
Finish(r, touched) ==
  /\ Printing(r)
  /\ batch[r] = {}
  /\ End(r)
  /\ marker' = IF touched THEN marker \cup {me[r]} ELSE marker
  /\ exposed' = IF touched THEN exposed ELSE exposed \ {me[r]}
  /\ UNCHANGED <<table, writer, batch, pulled, history>>

(* The process is killed: SQLite rolls an open transaction back, and a     *)
(* committed batch is gone with the process that held it.                  *)
Crash(r) ==
  /\ pc[r] # "idle"
  /\ End(r)
  /\ batch' = [batch EXCEPT ![r] = {}]
  /\ writer' = IF writer = r THEN NoReader ELSE writer
  /\ lost' = IF pc[r] = "printing" THEN lost \cup batch[r] ELSE lost
  /\ exposed' = IF Printing(r) THEN exposed \ {me[r]} ELSE exposed
  /\ UNCHANGED <<table, pulled, copies, marker>>

-----------------------------------------------------------------------------
(* The dashboard's pull button: stamp one row, then tell the CEO session.  *)

(* Slip: the UPDATE loses its AND read_at IS NULL.                         *)
PullAgain(i) ==
  /\ LockFree
  /\ Present(i) /\ to[i] = Ceo
  /\ row' = [row EXCEPT ![i] = "read"]
  /\ pulled' = pulled \cup {i}
  /\ UNCHANGED <<next, from, to, reading, history, turn>>

Pull(i) ==
  /\ LockFree
  /\ row[i] = "unread" /\ to[i] = Ceo
  /\ row' = [row EXCEPT ![i] = "read"]
  /\ pulled' = pulled \cup {i}
  /\ UNCHANGED <<next, from, to, reading, history, turn>>

(* _inject_ceo may fail; the row keeps its stamp either way.               *)
Inject(i, ok) ==
  /\ i \in pulled
  /\ pulled' = pulled \ {i}
  /\ copies' = IF ok THEN [copies EXCEPT ![i] = @ + 1] ELSE copies
  /\ lost' = IF ok THEN lost ELSE lost \cup {i}
  /\ UNCHANGED <<table, reading, turn>>

(* The user's next prompt: the UserPromptSubmit hook drops the marker.     *)
Prompt(ro) ==
  /\ marker' = marker \ {ro}
  /\ exposed' = exposed \ {ro}
  /\ UNCHANGED <<table, reading, pulled, history>>

-----------------------------------------------------------------------------
Purge ==
  \/ \E i \in Ids : InboxDelete(i) \/ \E p \in Projects : CtoInboxDelete(p, i)
  \/ InboxClear \/ SystemClear
  \/ \E p \in Projects : CtoInboxClear(p) \/ PurgeFresh(p) \/ PurgeCto(p)

Step(r) ==
  \/ Begin(r) \/ BeginTimeout(r) \/ Select(r) \/ Commit(r)
  \/ \E i \in Ids : PrintRow(r, i)
  \/ \E touched \in BOOLEAN : Finish(r, touched)

Next ==
  \/ \E f, t \in Roles \ {Harnessd} : Send(f, t)
  \/ \E t \in Roles \ {Harnessd} : Notify(t)
  \/ \E S \in SUBSET Ids : Resolve(S)
  \/ Purge
  \/ \E r \in Readers :
       \/ \E ro \in Serves[r] : Invoke(r, ro) \/ Peek(r, ro)
       \/ Step(r) \/ Rollback(r) \/ Crash(r)
  \/ \E i \in Ids : Pull(i) \/ \E ok \in BOOLEAN : Inject(i, ok)
  \/ \E ro \in Sessions : Prompt(ro)

(* A started command keeps running; nobody has to start one.               *)
Fairness == \A r \in Readers : WF_vars(Step(r))

Spec == Init /\ [][Next]_vars /\ Fairness

-----------------------------------------------------------------------------
(* No message is handed over twice, whoever races for it: two `harness     *)
(* inbox` of one role, a dashboard pull against a reader, a purge between  *)
(* COMMIT and print ("a row is claimed by exactly one reader").            *)
AtMostOnce == \A i \in Ids : copies[i] <= 1

(* Every row stamped read is accounted for: it was handed over, is in the  *)
(* hands of exactly the process that stamped it, or was given up by a      *)
(* crash, a failed injection or the daemon's own resolution.               *)
NoSilentLoss ==
  \A i \in Ids : row[i] = "read" =>
    \/ copies[i] = 1 \/ i \in lost \/ i \in pulled
    \/ \E r \in Readers : pc[r] = "printing" /\ i \in batch[r]

(* A claim takes the whole backlog, so no message of a role other than the *)
(* CEO is stamped read while an older one of the same role still waits     *)
(* (the CEO's pull button takes single rows out of order).                 *)
NoOvertaking ==
  \A i, j \in Ids :
    (i < j /\ to[i] = to[j] /\ to[i] # Ceo /\ row[j] = "read") => row[i] # "unread"

(* Once a command that showed bodies has ended, the isolation marker of    *)
(* its role stands until the next prompt, even if several commands and     *)
(* prompts interleave, unless touching the marker failed or it was killed. *)
ExposureMarked ==
  \A ro \in exposed :
    ro \in marker \/ \E r \in Readers : Printing(r) /\ me[r] = ro

(* A waiting command ends: it gets the lock, or busy_timeout gives up.     *)
CommandEnds ==
  \A r \in Readers : (pc[r] = "waiting") ~> (pc[r] = "idle")

-----------------------------------------------------------------------------
(* The table with its readers implements the abstract mailbox.             *)
Where(i) == CASE row[i] = "absent"  -> "absent"
              [] row[i] = "unread"  -> "waiting"
              [] row[i] = "read"    -> "taken"
              [] row[i] = "deleted" -> "gone"

Box == [i \in Ids |-> Where(i)]
Owed == pulled \cup UNION {batch[r] : r \in {q \in Readers : pc[q] = "printing"}}
Handed == {i \in Ids : copies[i] > 0}

Abstract == INSTANCE Mailbox WITH box <- Box, owed <- Owed, handed <- Handed

(* What the abstract mailbox promises holds of the table: every step of    *)
(* every writer is a post, a take, a hand-over, a drop or an erasure.      *)
ImplementsMailbox == Abstract!MailboxSpec

=============================================================================

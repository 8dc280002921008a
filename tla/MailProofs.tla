----------------------------- MODULE MailProofs -----------------------------
(***************************************************************************)
(* Theorems about the path of a message: the message bus (Inbox), for any  *)
(* number of roles, readers and rows, and the loop that wakes a session with*)
(* unread mail (Wake), for every delay and bound.                          *)
(***************************************************************************)
EXTENDS Inbox, Wake, TLAPS

-----------------------------------------------------------------------------
(* Inbox.  It is type correct, no row is ever handed over twice, who was   *)
(* shown a body is marked, and it implements the abstract Mailbox.         *)

(* The state stays inside its types.                                       *)
LEMMA TypeInit == Init => TypeOK
  BY InboxAssumption DEF Init, TypeOK, Ids

(* Every action by itself, in the order of Next.                           *)
LEMMA TypeStep == TypeOK /\ [Next]_vars => TypeOK'
<1> SUFFICES ASSUME TypeOK, [Next]_vars PROVE TypeOK'
  OBVIOUS
<1> USE InboxAssumption DEF TypeOK, Ids
<1>1. ASSUME NEW f \in Roles, NEW t \in Roles, Insert(f, t) PROVE TypeOK'
  BY <1>1 DEF Insert, reading, history, turn
<1>2. ASSUME NEW S \in SUBSET Ids, Resolve(S) PROVE TypeOK'
  BY <1>2 DEF Resolve, reading, turn
<1>3. ASSUME NEW S, Delete(S) PROVE TypeOK'
  BY <1>3 DEF Delete, reading, history, turn, Present
<1>4. ASSUME NEW r \in Readers, NEW ro \in Serves[r], Invoke(r, ro) PROVE TypeOK'
  <2>1. ro \in Sessions
    BY <1>4
  <2> QED BY <1>4, <2>1 DEF Invoke, table, history, turn
<1>5. ASSUME NEW r \in Readers, NEW ro \in Serves[r], Peek(r, ro) PROVE TypeOK'
  <2>1. ro \in Sessions
    BY <1>5
  <2> QED BY <1>5, <2>1 DEF Peek, UnreadFor, table, history, turn
<1>6. ASSUME NEW r \in Readers, Begin(r) PROVE TypeOK'
  BY <1>6 DEF Begin, table, history, turn
<1>7. ASSUME NEW r \in Readers, BeginTimeout(r) PROVE TypeOK'
  BY <1>7 DEF BeginTimeout, End, table, history, turn
<1>8. ASSUME NEW r \in Readers, Select(r) PROVE TypeOK'
  BY <1>8 DEF Select, End, UnreadFor, table, history, turn
<1>9. ASSUME NEW r \in Readers, Commit(r) PROVE TypeOK'
  BY <1>9 DEF Commit, history, turn
<1>10. ASSUME NEW r \in Readers, NEW i \in Ids, PrintRow(r, i) PROVE TypeOK'
  BY <1>10 DEF PrintRow, table
<1>11. ASSUME NEW r \in Readers, NEW touched \in BOOLEAN, Finish(r, touched)
       PROVE TypeOK'
  BY <1>11 DEF Finish, End, table, history
<1>12. ASSUME NEW r \in Readers, Rollback(r) PROVE TypeOK'
  BY <1>12 DEF Rollback, End, table, history, turn
<1>13. ASSUME NEW r \in Readers, Crash(r) PROVE TypeOK'
  BY <1>13 DEF Crash, End, table
<1>14. ASSUME NEW i \in Ids, Pull(i) PROVE TypeOK'
  BY <1>14 DEF Pull, reading, history, turn
<1>15. ASSUME NEW i \in Ids, NEW ok \in BOOLEAN, Inject(i, ok) PROVE TypeOK'
  BY <1>15 DEF Inject, table, reading, turn
<1>16. ASSUME NEW ro \in Sessions, Prompt(ro) PROVE TypeOK'
  BY <1>16 DEF Prompt, table, reading, history
<1>17. CASE UNCHANGED vars
  BY <1>17 DEF vars, table, reading, history, turn
<1>18. CASE Purge
  BY <1>3, <1>18 DEF Purge, InboxDelete, CtoInboxDelete, InboxClear, SystemClear,
                     CtoInboxClear, PurgeFresh, PurgeCto
<1> QED
  BY <1>1, <1>2, <1>4, <1>5, <1>6, <1>7, <1>8, <1>9, <1>10, <1>11, <1>12, <1>13,
     <1>14, <1>15, <1>16, <1>17, <1>18 DEF Next, Step, Send, Notify

(* Spec keeps TypeOK.                                                      *)
THEOREM TypeCorrect == Spec => []TypeOK
  BY TypeInit, TypeStep, PTL DEF Spec

-----------------------------------------------------------------------------
(* The inductive invariant: the write lock makes a selected batch still    *)
(* unread at its COMMIT, and a stamped row has one holder and no copy.     *)

(* Only the lock's holder is inside a transaction.                         *)
LockHeld == \A r \in Readers : pc[r] \in {"begun", "selected"} => writer = r

(* A batch is empty before its SELECT, and at the COMMIT it is still all   *)
(* the unread mail of its role.                                            *)
BatchFresh ==
  \A r \in Readers :
    /\ pc[r] \in {"idle", "waiting", "begun"} => batch[r] = {}
    /\ pc[r] = "selected" => batch[r] = UnreadFor(me[r])

Stamped(i) == row[i] \in {"read", "deleted"}

(* What a process holds after COMMIT, or the dashboard after its UPDATE,   *)
(* is stamped and was handed to nobody yet.                                *)
HeldUnseen ==
  /\ \A r \in Readers : pc[r] = "printing" =>
       \A i \in batch[r] : Stamped(i) /\ copies[i] = 0
  /\ \A i \in pulled : Stamped(i) /\ copies[i] = 0

(* And nobody else holds it.                                               *)
OneHolder ==
  \A r \in Readers : pc[r] = "printing" =>
    /\ batch[r] \cap pulled = {}
    /\ \A q \in Readers : q # r /\ pc[q] = "printing" =>
         batch[r] \cap batch[q] = {}

(* A row nobody stamped was handed to nobody; row numbers only grow.       *)
Unseen == \A i \in Ids : row[i] \in {"absent", "unread"} => copies[i] = 0
Numbered == \A i \in Ids : row[i] = "absent" <=> i > next

IInv ==
  TypeOK /\ LockHeld /\ BatchFresh /\ HeldUnseen /\ OneHolder /\ Unseen
    /\ Numbered /\ AtMostOnce

(* IInv holds at the start and every step keeps it.                        *)
LEMMA IInvInit == Init => IInv
  BY InboxAssumption, TypeInit
  DEF Init, IInv, LockHeld, BatchFresh, HeldUnseen, OneHolder, Unseen, Numbered,
      AtMostOnce, Ids

(* Each action keeps IInv; Purge is a Delete of some set.                  *)
LEMMA IInvStep == IInv /\ [Next]_vars => IInv'
<1> SUFFICES ASSUME IInv, [Next]_vars PROVE IInv'
  OBVIOUS
<1> USE InboxAssumption DEF IInv, LockHeld, BatchFresh, HeldUnseen, OneHolder,
        Unseen, Numbered, AtMostOnce, Stamped, UnreadFor, Ids
<1>0. TypeOK'
  BY TypeStep
<1>1. ASSUME NEW f \in Roles, NEW t \in Roles, Insert(f, t) PROVE IInv'
  BY <1>0, <1>1 DEF TypeOK, Insert, LockFree, reading, history, turn
<1>2. ASSUME NEW S \in SUBSET Ids, Resolve(S) PROVE IInv'
  BY <1>0, <1>2 DEF TypeOK, Resolve, LockFree, reading, turn
<1>3. ASSUME NEW S, Delete(S) PROVE IInv'
  BY <1>0, <1>3 DEF TypeOK, Delete, LockFree, Present, reading, history, turn
<1>4. ASSUME NEW r \in Readers, NEW ro \in Serves[r], Invoke(r, ro) PROVE IInv'
  BY <1>0, <1>4 DEF TypeOK, Invoke, table, history, turn
<1>5. ASSUME NEW r \in Readers, NEW ro \in Serves[r], Peek(r, ro) PROVE IInv'
  BY <1>0, <1>5 DEF TypeOK, Peek, UnreadFor, table, history, turn
<1>6. ASSUME NEW r \in Readers, Begin(r) PROVE IInv'
  BY <1>0, <1>6 DEF TypeOK, Begin, LockFree, table, history, turn
<1>7. ASSUME NEW r \in Readers, BeginTimeout(r) PROVE IInv'
  BY <1>0, <1>7 DEF TypeOK, BeginTimeout, End, table, history, turn
<1>8. ASSUME NEW r \in Readers, Select(r) PROVE IInv'
  <2>1. LockHeld'
    BY <1>8 DEF TypeOK, Select, End
  <2>2. BatchFresh'
    BY <1>8 DEF TypeOK, Select, End, UnreadFor, table
  <2>3. HeldUnseen' /\ OneHolder'
    BY <1>8 DEF TypeOK, Select, End, table, history
  <2>4. Unseen' /\ Numbered' /\ AtMostOnce'
    BY <1>8 DEF Select, table, history
  <2> QED BY <1>0, <2>1, <2>2, <2>3, <2>4
<1>9. ASSUME NEW r \in Readers, Commit(r) PROVE IInv'
  <2>1. LockHeld'
    BY <1>9 DEF TypeOK, Commit
  <2>2. BatchFresh'
    BY <1>9 DEF TypeOK, Commit
  <2>3. HeldUnseen'
    BY <1>9 DEF TypeOK, Commit, history
  <2>4. OneHolder'
    BY <1>9 DEF TypeOK, Commit
  <2>5. Unseen' /\ Numbered' /\ AtMostOnce'
    BY <1>9 DEF TypeOK, Commit, history
  <2> QED BY <1>0, <2>1, <2>2, <2>3, <2>4, <2>5
<1>10. ASSUME NEW r \in Readers, NEW i \in Ids, PrintRow(r, i) PROVE IInv'
  BY <1>0, <1>10 DEF TypeOK, PrintRow, Printing, table
<1>11. ASSUME NEW r \in Readers, NEW touched \in BOOLEAN, Finish(r, touched) PROVE IInv'
  BY <1>0, <1>11 DEF TypeOK, Finish, Printing, End, table, history
<1>12. ASSUME NEW r \in Readers, Rollback(r) PROVE IInv'
  BY <1>0, <1>12 DEF TypeOK, Rollback, End, table, history, turn
<1>13. ASSUME NEW r \in Readers, Crash(r) PROVE IInv'
  BY <1>0, <1>13 DEF TypeOK, Crash, End, table
<1>14. ASSUME NEW i \in Ids, Pull(i) PROVE IInv'
  BY <1>0, <1>14 DEF TypeOK, Pull, LockFree, reading, history, turn
<1>15. ASSUME NEW i \in Ids, NEW ok \in BOOLEAN, Inject(i, ok) PROVE IInv'
  <2>1. LockHeld' /\ BatchFresh' /\ Numbered'
    BY <1>15 DEF Inject, table, reading
  <2>2. \A j \in Ids : copies'[j] # copies[j] => j = i /\ copies'[j] = 1
    BY <1>15 DEF TypeOK, Inject
  <2>3. HeldUnseen' /\ OneHolder'
    BY <1>15, <2>2 DEF TypeOK, Inject, table, reading
  <2>4. Stamped(i) /\ UNCHANGED row
    BY <1>15 DEF Inject, table
  <2>5. Unseen'
    BY <2>2, <2>4
  <2>6. AtMostOnce'
    <3> SUFFICES ASSUME NEW j \in Ids PROVE copies'[j] <= 1
      OBVIOUS
    <3>1. copies[j] <= 1
      OBVIOUS
    <3> QED BY <2>2, <3>1
  <2> QED BY <1>0, <2>1, <2>3, <2>5, <2>6
<1>16. ASSUME NEW ro \in Sessions, Prompt(ro) PROVE IInv'
  BY <1>0, <1>16 DEF TypeOK, Prompt, table, reading, history
<1>17. CASE UNCHANGED vars
  BY <1>0, <1>17 DEF vars, table, reading, history, turn
<1>18. CASE Purge
  BY <1>3, <1>18 DEF Purge, InboxDelete, CtoInboxDelete, InboxClear, SystemClear,
                     CtoInboxClear, PurgeFresh, PurgeCto
<1> QED
  BY <1>1, <1>2, <1>4, <1>5, <1>6, <1>7, <1>8, <1>9, <1>10, <1>11, <1>12, <1>13,
     <1>14, <1>15, <1>16, <1>17, <1>18 DEF Next, Step, Send, Notify

(* IInv is an invariant of the whole specification.                        *)
THEOREM Invariance == Spec => []IInv
  BY IInvInit, IInvStep, PTL DEF Spec

(* No row is handed over twice, for any number of racing readers, rows,    *)
(* dashboard pulls, purges and crashes.                                    *)
THEOREM DeliveredAtMostOnce == Spec => []AtMostOnce
<1>1. IInv => AtMostOnce
  BY DEF IInv
<1> QED BY <1>1, Invariance, PTL

-----------------------------------------------------------------------------
(* Every stamped row stays accounted for.                                  *)
LEMMA AccountedStep == IInv /\ NoSilentLoss /\ [Next]_vars => NoSilentLoss'
<1> SUFFICES ASSUME IInv, NoSilentLoss, [Next]_vars PROVE NoSilentLoss'
  OBVIOUS
<1> USE DEF IInv, TypeOK, NoSilentLoss, Ids
<1>1. ASSUME NEW f \in Roles, NEW t \in Roles, Insert(f, t) PROVE NoSilentLoss'
  BY <1>1 DEF Insert, reading, history
<1>2. ASSUME NEW S \in SUBSET Ids, Resolve(S) PROVE NoSilentLoss'
  BY <1>2 DEF Resolve, reading
<1>3. ASSUME NEW S, Delete(S) PROVE NoSilentLoss'
  BY <1>3 DEF Delete, reading, history
<1>4. ASSUME NEW r \in Readers, NEW ro, Invoke(r, ro) \/ Peek(r, ro)
      PROVE NoSilentLoss'
  BY <1>4 DEF Invoke, Peek, table, history
<1>5. ASSUME NEW r \in Readers, Begin(r) \/ BeginTimeout(r) \/ Select(r) \/ Rollback(r)
      PROVE NoSilentLoss'
  BY <1>5 DEF Begin, BeginTimeout, Select, Rollback, End, table, history
<1>6. ASSUME NEW r \in Readers, Commit(r) PROVE NoSilentLoss'
  BY <1>6 DEF Commit, history
<1>7. ASSUME NEW r \in Readers, NEW i \in Ids, PrintRow(r, i) PROVE NoSilentLoss'
  BY <1>7 DEF PrintRow, Printing, HeldUnseen, table
<1>8. ASSUME NEW r \in Readers, NEW touched \in BOOLEAN, Finish(r, touched)
      PROVE NoSilentLoss'
  BY <1>8 DEF Finish, End, table, history
<1>9. ASSUME NEW r \in Readers, Crash(r) PROVE NoSilentLoss'
  BY <1>9 DEF Crash, End, table
<1>10. ASSUME NEW i \in Ids, Pull(i) PROVE NoSilentLoss'
  BY <1>10 DEF Pull, reading, history
<1>11. ASSUME NEW i \in Ids, NEW ok \in BOOLEAN, Inject(i, ok) PROVE NoSilentLoss'
  BY <1>11 DEF Inject, HeldUnseen, table, reading
<1>12. CASE UNCHANGED vars \/ \E ro \in Sessions : Prompt(ro)
  BY <1>12 DEF Prompt, vars, table, reading, history
<1>13. CASE Purge
  BY <1>3, <1>13 DEF Purge, InboxDelete, CtoInboxDelete, InboxClear, SystemClear,
                     CtoInboxClear, PurgeFresh, PurgeCto
<1> QED
  BY <1>1, <1>2, <1>4, <1>5, <1>6, <1>7, <1>8, <1>9, <1>10, <1>11, <1>12, <1>13,
     InboxAssumption DEF Next, Step, Send, Notify

(* A row stamped read was handed over, is held by the process that stamped *)
(* it, or was given up by a crash, a failed injection or the daemon.       *)
THEOREM NothingSilentlyLost == Spec => []NoSilentLoss
<1>1. Init => NoSilentLoss
  BY DEF Init, NoSilentLoss
<1> QED BY <1>1, Invariance, AccountedStep, PTL DEF Spec

-----------------------------------------------------------------------------
(* A claim takes the whole backlog of its role.                            *)
LEMMA OrderStep == IInv /\ NoOvertaking /\ [Next]_vars => NoOvertaking'
<1> SUFFICES ASSUME IInv, NoOvertaking, [Next]_vars PROVE NoOvertaking'
  OBVIOUS
<1> USE DEF IInv, TypeOK, NoOvertaking, Ids
<1>1. ASSUME NEW f \in Roles, NEW t \in Roles, Insert(f, t) PROVE NoOvertaking'
  BY <1>1 DEF Insert, Numbered
<1>2. ASSUME NEW S \in SUBSET Ids, Resolve(S) PROVE NoOvertaking'
  BY <1>2 DEF Resolve
<1>3. ASSUME NEW S, Delete(S) PROVE NoOvertaking'
  BY <1>3 DEF Delete
<1>4. ASSUME NEW r \in Readers, Commit(r) PROVE NoOvertaking'
  BY <1>4 DEF Commit, BatchFresh, UnreadFor
<1>5. ASSUME NEW i \in Ids, Pull(i) PROVE NoOvertaking'
  BY <1>5 DEF Pull
<1>6. CASE UNCHANGED table
  BY <1>6 DEF table
<1>7. CASE Purge
  BY <1>3, <1>7 DEF Purge, InboxDelete, CtoInboxDelete, InboxClear, SystemClear,
                    CtoInboxClear, PurgeFresh, PurgeCto
<1> QED
  BY <1>1, <1>2, <1>4, <1>5, <1>6, <1>7, InboxAssumption
  DEF Next, Step, Send, Notify, Invoke, Peek, Begin, BeginTimeout, Select, PrintRow,
      Finish, Rollback, Crash, Inject, Prompt, vars

(* No mail of a session is stamped read before an older one of its inbox.  *)
THEOREM NothingOvertakes == Spec => []NoOvertaking
<1>1. Init => NoOvertaking
  BY DEF Init, NoOvertaking
<1> QED BY <1>1, Invariance, OrderStep, PTL DEF Spec

-----------------------------------------------------------------------------
(* A command that shows bodies leaves the marker, or nothing to vouch for. *)
LEMMA MarkerStep == TypeOK /\ ExposureMarked /\ [Next]_vars => ExposureMarked'
<1> SUFFICES ASSUME TypeOK, ExposureMarked, [Next]_vars PROVE ExposureMarked'
  OBVIOUS
<1> USE DEF ExposureMarked, Printing
<1>1. ASSUME NEW r \in Readers, NEW ro, Invoke(r, ro) \/ Peek(r, ro)
      PROVE ExposureMarked'
  BY <1>1 DEF Invoke, Peek, turn, TypeOK
<1>2. ASSUME NEW r \in Readers,
             Begin(r) \/ BeginTimeout(r) \/ Select(r) \/ Commit(r) \/ Rollback(r)
      PROVE ExposureMarked'
  BY <1>2 DEF Begin, BeginTimeout, Select, Commit, Rollback, End, turn, TypeOK
<1>3. ASSUME NEW r \in Readers, NEW i \in Ids, PrintRow(r, i) PROVE ExposureMarked'
  BY <1>3 DEF PrintRow
<1>4. ASSUME NEW r \in Readers, NEW touched \in BOOLEAN, Finish(r, touched)
      PROVE ExposureMarked'
  BY <1>4 DEF Finish, End, TypeOK
<1>5. ASSUME NEW r \in Readers, Crash(r) PROVE ExposureMarked'
  BY <1>5 DEF Crash, End, TypeOK
<1>6. CASE UNCHANGED <<reading, turn>>
  BY <1>6 DEF reading, turn
<1>7. ASSUME NEW ro \in Sessions, Prompt(ro) PROVE ExposureMarked'
  BY <1>7 DEF Prompt, reading
<1>8. ASSUME NEW S, Delete(S) PROVE UNCHANGED <<reading, turn>>
  BY <1>8 DEF Delete
<1>9. CASE Purge
  BY <1>6, <1>8, <1>9 DEF Purge, InboxDelete, CtoInboxDelete, InboxClear, SystemClear,
                          CtoInboxClear, PurgeFresh, PurgeCto
<1> QED
  BY <1>1, <1>2, <1>3, <1>4, <1>5, <1>6, <1>7, <1>9
  DEF Next, Step, Send, Notify, Insert, Resolve, Pull, Inject, vars

(* Whoever was shown a body is marked until the next prompt, unless the    *)
(* touch failed or the command was killed.                                 *)
THEOREM ExposureStaysMarked == Spec => []ExposureMarked
<1>1. Init => ExposureMarked
  BY DEF Init, ExposureMarked
<1> QED BY <1>1, TypeCorrect, MarkerStep, PTL DEF Spec

-----------------------------------------------------------------------------
(* The table with its readers implements the abstract Mailbox: each step   *)
(* of each process is one step of the mailbox, or none.  The proof names   *)
(* the step, and rests on the inductive invariant above: a row in          *)
(* somebody's hands is in nobody else's, so handing it over or dropping it *)
(* takes exactly that row out of what is owed.                             *)

(* What changes in the mapped box follows the row.                         *)
LEMMA BoxFollowsRow ==
  ASSUME NEW i \in Ids
  PROVE  /\ row[i] = "absent"  => Where(i) = "absent"
         /\ row[i] = "unread"  => Where(i) = "waiting"
         /\ row[i] = "read"    => Where(i) = "taken"
         /\ row[i] = "deleted" => Where(i) = "gone"
         /\ row'[i] = "unread"  => Where(i)' = "waiting"
         /\ row'[i] = "read"    => Where(i)' = "taken"
         /\ row'[i] = "deleted" => Where(i)' = "gone"
         /\ row'[i] = row[i]    => Where(i)' = Where(i)
  BY DEF Where

(* Who owes a row: the dashboard, or a process that has committed.         *)
LEMMA OwedIs ==
  /\ \A i : i \in Owed <=>
       i \in pulled \/ \E r \in Readers : pc[r] = "printing" /\ i \in batch[r]
  /\ \A i : i \in Owed' <=>
       i \in pulled' \/ \E r \in Readers : pc'[r] = "printing" /\ i \in batch'[r]
  BY DEF Owed

(* Steps that leave rows and copies alone leave the mapped box alone.      *)
LEMMA BoxUnchanged ==
  ASSUME UNCHANGED <<row, copies>>
  PROVE  UNCHANGED <<Box, Handed>>
  BY DEF Box, Where, Handed

(* The empty table is the empty mailbox.                                   *)
LEMMA InitRefines == Init => Abstract!MailboxInit
  BY DEF Init, Abstract!MailboxInit, Abstract!MsgIds, Ids, Box, Where, Owed, Handed

(* Each action is the mailbox step its case names.                         *)
LEMMA StepRefines == IInv /\ [Next]_vars => [Abstract!MailboxNext]_(Abstract!mbVars)
<1> SUFFICES ASSUME IInv, [Next]_vars
             PROVE  Abstract!MailboxNext \/ UNCHANGED <<Box, Owed, Handed>>
  BY DEF Abstract!mbVars
<1> DEFINE Goal == Abstract!MailboxNext \/ UNCHANGED <<Box, Owed, Handed>>
<1> USE DEF Abstract!MailboxNext, Abstract!MsgIds, Ids
<1>0. TypeOK /\ OneHolder
  BY DEF IInv
<1>1. ASSUME NEW f \in Roles, NEW t \in Roles, Insert(f, t) PROVE Goal
  <2>1. next + 1 \in Ids /\ row[next + 1] = "absent"
    BY <1>0, <1>1, InboxAssumption DEF Insert, IInv, Numbered, TypeOK
  <2>2. Owed' = Owed /\ Handed' = Handed
    BY <1>1 DEF Insert, reading, history, Owed, Handed
  <2>3. Box' = [Box EXCEPT ![next + 1] = "waiting"]
    BY <1>0, <1>1, <2>1, BoxFollowsRow DEF Insert, Box, TypeOK
  <2>4. \A j \in Ids : Box[j] = "absent" => next + 1 <= j
    BY <1>0, InboxAssumption DEF Box, Where, IInv, Numbered, TypeOK
  <2>5. Abstract!Post(next + 1)
    BY <2>1, <2>2, <2>3, <2>4, BoxFollowsRow DEF Abstract!Post, Box
  <2> QED BY <2>1, <2>5
<1>2. ASSUME NEW S \in SUBSET Ids, Resolve(S) PROVE Goal
  <2>1. Owed' = Owed /\ Handed' = Handed
    BY <1>2 DEF Resolve, reading, Owed, Handed
  <2>2. Box' = [i \in Ids |-> IF i \in S THEN "taken" ELSE Box[i]]
    BY <1>0, <1>2, BoxFollowsRow DEF Resolve, Box, TypeOK
  <2>3. Abstract!Settle(S)
    BY <1>2, <2>1, <2>2, BoxFollowsRow DEF Abstract!Settle, Resolve, Box
  <2> QED BY <2>3
<1>3. ASSUME NEW S, Delete(S) PROVE Goal
  <2> DEFINE E == {i \in Ids : i \in S /\ Present(i)}
  <2>1. Owed' = Owed /\ Handed' = Handed
    BY <1>3 DEF Delete, reading, history, Owed, Handed
  <2>2. Box' = [i \in Ids |-> IF i \in E THEN "gone" ELSE Box[i]]
    BY <1>0, <1>3, BoxFollowsRow DEF Delete, Present, Box, TypeOK
  <2>3. Abstract!Erase(E)
    BY <2>1, <2>2, BoxFollowsRow DEF Abstract!Erase, Present, Box
  <2> QED BY <2>3
<1>4. ASSUME NEW r \in Readers, Commit(r) PROVE Goal
  <2>1. batch[r] \in SUBSET Ids /\ \A i \in batch[r] : row[i] = "unread"
    BY <1>0, <1>4 DEF Commit, IInv, BatchFresh, UnreadFor, TypeOK
  <2>2. Owed' = Owed \cup batch[r]
    BY <1>0, <1>4, OwedIs DEF Commit, TypeOK
  <2>3. Box' = [i \in Ids |-> IF i \in batch[r] THEN "taken" ELSE Box[i]]
    BY <1>0, <1>4, <2>1, BoxFollowsRow DEF Commit, Box, TypeOK
  <2>4. Handed' = Handed
    BY <1>4 DEF Commit, history, Handed
  <2>5. Abstract!Take(batch[r])
    BY <2>1, <2>2, <2>3, <2>4, BoxFollowsRow DEF Abstract!Take, Box
  <2> QED BY <2>1, <2>5
<1>5. ASSUME NEW r \in Readers, NEW i \in Ids, PrintRow(r, i) PROVE Goal
  <2>1. Box' = Box
    BY <1>5 DEF PrintRow, table, Box, Where
  <2>2. CASE pc[r] = "printing"
    <3>1. i \in Owed /\ Owed' = Owed \ {i}
      BY <1>0, <1>5, <2>2, OwedIs DEF PrintRow, OneHolder, TypeOK
    <3>2. Handed' = Handed \cup {i}
      BY <1>0, <1>5, <2>2 DEF PrintRow, Handed, TypeOK
    <3>3. Abstract!Hand(i)
      BY <2>1, <3>1, <3>2 DEF Abstract!Hand
    <3> QED BY <3>3
  <2>3. CASE pc[r] = "peeking"
    <3>1. Owed' = Owed
      BY <1>0, <1>5, <2>3, OwedIs DEF PrintRow, TypeOK
    <3>2. Handed' = Handed
      BY <1>5, <2>3 DEF PrintRow, Handed
    <3> QED BY <2>1, <3>1, <3>2
  <2> QED BY <1>5, <2>2, <2>3 DEF PrintRow, Printing
<1>6. ASSUME NEW r \in Readers, Crash(r) PROVE Goal
  <2>1. Box' = Box /\ Handed' = Handed
    BY <1>6 DEF Crash, table, Box, Where, Handed
  <2>2. CASE pc[r] = "printing"
    <3>1. batch[r] \in SUBSET Ids /\ batch[r] \subseteq Owed
      BY <1>0, <2>2, OwedIs DEF TypeOK
    <3>2. Owed' = Owed \ batch[r]
      BY <1>0, <1>6, <2>2, OwedIs DEF Crash, End, OneHolder, TypeOK
    <3>3. Abstract!Drop(batch[r])
      BY <2>1, <3>1, <3>2 DEF Abstract!Drop
    <3> QED BY <3>1, <3>3
  <2>3. CASE pc[r] # "printing"
    <3>1. Owed' = Owed
      BY <1>0, <1>6, <2>3, OwedIs DEF Crash, End, TypeOK
    <3> QED BY <2>1, <3>1
  <2> QED BY <2>2, <2>3
<1>7. ASSUME NEW i \in Ids, Pull(i) PROVE Goal
  <2>1. Owed' = Owed \cup {i} /\ Handed' = Handed
    BY <1>7, OwedIs DEF Pull, reading, history, Handed
  <2>2. Box' = [j \in Ids |-> IF j \in {i} THEN "taken" ELSE Box[j]]
    BY <1>0, <1>7, BoxFollowsRow DEF Pull, Box, TypeOK
  <2>3. Abstract!Take({i})
    BY <1>7, <2>1, <2>2, BoxFollowsRow DEF Abstract!Take, Pull, Box
  <2> QED BY <2>3
<1>8. ASSUME NEW i \in Ids, NEW ok \in BOOLEAN, Inject(i, ok) PROVE Goal
  <2>1. Box' = Box
    BY <1>8 DEF Inject, table, Box, Where
  <2>2. i \in Owed /\ Owed' = Owed \ {i}
    BY <1>0, <1>8, OwedIs DEF Inject, reading, OneHolder
  <2>3. CASE ok
    <3>1. Handed' = Handed \cup {i}
      BY <1>0, <1>8, <2>3 DEF Inject, Handed, TypeOK
    <3> QED BY <2>1, <2>2, <3>1 DEF Abstract!Hand
  <2>4. CASE ~ok
    <3>1. Handed' = Handed
      BY <1>8, <2>4 DEF Inject, Handed
    <3>2. Abstract!Drop({i})
      BY <2>1, <2>2, <3>1 DEF Abstract!Drop
    <3> QED BY <3>2
  <2> QED BY <2>3, <2>4
<1>9. ASSUME NEW r \in Readers, NEW ro, NEW touched,
             \/ Invoke(r, ro) \/ Peek(r, ro) \/ Begin(r) \/ BeginTimeout(r)
             \/ Select(r) \/ Finish(r, touched) \/ Rollback(r)
      PROVE Goal
  <2>1. Box' = Box /\ Handed' = Handed
    BY <1>9, BoxUnchanged DEF Invoke, Peek, Begin, BeginTimeout, Select, Finish,
                              Rollback, table, history
  <2>2. Owed' = Owed
    BY <1>0, <1>9, OwedIs
    DEF Invoke, Peek, Begin, BeginTimeout, Select, Finish, Rollback, Printing, End, TypeOK
  <2> QED BY <2>1, <2>2
<1>10. CASE UNCHANGED vars \/ \E ro \in Sessions : Prompt(ro)
  BY <1>10, BoxUnchanged DEF Prompt, vars, table, reading, history, Owed
<1>11. CASE Purge
  BY <1>3, <1>11 DEF Purge, InboxDelete, CtoInboxDelete, InboxClear, SystemClear,
                     CtoInboxClear, PurgeFresh, PurgeCto
<1> QED
  BY <1>1, <1>2, <1>4, <1>5, <1>6, <1>7, <1>8, <1>9, <1>10, <1>11, InboxAssumption
  DEF Next, Step, Send, Notify

(* Whatever the processes do, the bus behaves like the abstract mailbox.   *)
THEOREM MailboxRefined == Spec => ImplementsMailbox
  BY InitRefines, StepRefines, Invariance, PTL
  DEF Spec, ImplementsMailbox, Abstract!MailboxSpec

-----------------------------------------------------------------------------
(* Wake.  Its types, and that a wake comes after a full confirmation without*)
(* a busy sample and IdleConfirm after the last one.                       *)

(* The backoff has room for its first factor.                              *)
LEMMA FactorBound == MaxFactor \in Nat /\ MaxFactor >= 1
  BY WakeAssumption DEF MaxFactor

(* What Wake assumes of its constants.                                     *)
LEMMA WakeConstants ==
  /\ IdleConfirm \in Nat /\ MaxBackoff \in Nat /\ MaxGap \in Nat
  /\ MaxUnread \in Nat /\ MaxRestarts \in Nat
  BY WakeAssumption

(* The truth values and the rest of the types have a proof each.           *)
WakeBools == /\ ceoMail \in BOOLEAN /\ ceoFlag \in BOOLEAN
         /\ woken \in BOOLEAN /\ confirming \in BOOLEAN
WakeNumbers ==
  /\ unread \in 0..MaxUnread
  /\ sess \in {"gone", "shell", "busy", "idle"}
  /\ phase \in {"asleep", "polling", "sending"}
  /\ seen \in 0..MaxUnread /\ wakeAge \in 0..MaxBackoff
  /\ lastUnread \in 0..MaxUnread /\ factor \in 1..MaxFactor
  /\ idleFor \in 0..IdleConfirm /\ quiet \in 0..IdleConfirm
  /\ samples \subseteq {"gone", "shell", "busy", "idle"}
  /\ restarts \in 0..MaxRestarts

(* The types in two groups.                                                *)
LEMMA WakeTypeParts == WakeTypeOK <=> WakeBools /\ WakeNumbers
  BY DEF WakeTypeOK, WakeBools, WakeNumbers

(* The truth values stay truth values.                                     *)
LEMMA WakeBoolsStep == WakeBools /\ [WakeNext]_wakeVars => WakeBools'
<1> SUFFICES ASSUME WakeBools, [WakeNext]_wakeVars PROVE WakeBools'
  OBVIOUS
<1> USE DEF WakeBools
<1>1. CASE Arrive \/ Drain \/ SessionChanges \/ CeoMailChanges
  BY <1>1 DEF Arrive, Drain, SessionChanges, CeoMailChanges, mail, memory
<1>2. ASSUME NEW d \in 1..MaxGap, Count(d) PROVE WakeBools'
  BY <1>2 DEF Count, Forget, world
<1>3. CASE StayQuiet \/ SkipAbsent \/ SkipBusy \/ SeeIdle
  BY <1>3 DEF StayQuiet, SkipAbsent, SkipBusy, SeeIdle, world, memory
<1>4. CASE Wake \/ SendFails \/ Restart
  BY <1>4 DEF Wake, SendFails, Restart, Forget, world, memory
<1>5. CASE UNCHANGED wakeVars
  BY <1>5 DEF wakeVars, world, memory
<1> QED
  BY <1>1, <1>2, <1>3, <1>4, <1>5 DEF WakeNext, Look

(* Every step keeps the other types.                                       *)
LEMMA WakeNumbersStep == WakeNumbers /\ [WakeNext]_wakeVars => WakeNumbers'
<1> SUFFICES ASSUME WakeNumbers, [WakeNext]_wakeVars PROVE WakeNumbers'
  OBVIOUS
<1> USE WakeConstants, FactorBound DEF WakeNumbers
<1>1. CASE Arrive \/ Drain \/ SessionChanges \/ CeoMailChanges
  <2>1. CASE Arrive
    BY <2>1 DEF Arrive, memory, ghosts
  <2>2. CASE Drain
    BY <2>2 DEF Drain, memory, ghosts
  <2>3. CASE SessionChanges
    BY <2>3 DEF SessionChanges, mail, memory, ghosts
  <2>4. CASE CeoMailChanges
    BY <2>4 DEF CeoMailChanges, memory, ghosts
  <2> QED
    BY <1>1, <2>1, <2>2, <2>3, <2>4
<1>2. ASSUME NEW d \in 1..MaxGap, Count(d) PROVE WakeNumbers'
  <2>1. /\ Min2(quiet + d, IdleConfirm) \in 0..IdleConfirm
        /\ Min2(wakeAge + d, MaxBackoff) \in 0..MaxBackoff
        /\ Min2(idleFor + d, IdleConfirm) \in 0..IdleConfirm
    BY DEF Min2
  <2> QED
    BY <1>2, <2>1 DEF Count, Forget, world
<1>3. CASE StayQuiet
  BY <1>3 DEF StayQuiet, world, memory, ghosts
<1>4. CASE SkipAbsent \/ SkipBusy
  <2>1. CASE SkipAbsent
    BY <2>1 DEF SkipAbsent, world, memory
  <2>2. CASE SkipBusy
    BY <2>2 DEF SkipBusy, world
  <2> QED
    BY <1>4, <2>1, <2>2
<1>5. CASE SeeIdle
  BY <1>5 DEF SeeIdle, world
<1>6. CASE Wake
  <2>1. Min2(factor * 2, MaxFactor) \in 1..MaxFactor
    BY DEF Min2
  <2> QED
    BY <1>6, <2>1 DEF Wake, world
<1>7. CASE SendFails
  BY <1>7 DEF SendFails, world, memory, ghosts
<1>8. CASE Restart
  BY <1>8 DEF Restart, Forget, world
<1>9. CASE UNCHANGED wakeVars
  BY <1>9 DEF wakeVars, world, memory, ghosts
<1> QED
  BY <1>1, <1>2, <1>3, <1>4, <1>5, <1>6, <1>7, <1>8, <1>9 DEF WakeNext, Look

(* What the daemon remembers and counts stays in its types, for every      *)
(* cooldown and cap.                                                       *)
THEOREM WakeTypeCorrect == WakeSpec => []WakeTypeOK
<1>1. WakeInit => WakeBools
  BY DEF WakeInit, WakeBools
<1>2. WakeInit => WakeNumbers
  BY WakeConstants, FactorBound DEF WakeInit, WakeNumbers
<1> QED
  BY <1>1, <1>2, WakeTypeParts, WakeBoolsStep, WakeNumbersStep, PTL DEF WakeSpec

-----------------------------------------------------------------------------
(* QuietBeforeWake says nothing of the steps before a send.  What carries  *)
(* it there: the idle timer never runs ahead of the time since the last    *)
(* acknowledged wake, only a full timer leads to a send, and a busy sample *)
(* empties what was seen.                                                  *)
TimerBehind == confirming => idleFor <= quiet
SendsFull == phase = "sending" => confirming /\ idleFor >= IdleConfirm
NoBusySeen == "busy" \notin samples
QuietInv == TimerBehind /\ SendsFull /\ NoBusySeen

(* Every step keeps the invariant.                                         *)
LEMMA QuietInductive == WakeTypeOK /\ QuietInv /\ [WakeNext]_wakeVars => QuietInv'
<1> SUFFICES ASSUME WakeTypeOK, QuietInv, [WakeNext]_wakeVars PROVE QuietInv'
  OBVIOUS
<1> USE WakeConstants DEF QuietInv, TimerBehind, SendsFull, NoBusySeen
<1>1. CASE Arrive \/ Drain \/ SessionChanges \/ CeoMailChanges
  BY <1>1 DEF Arrive, Drain, SessionChanges, CeoMailChanges, mail, memory, ghosts
(* Both clocks take the same step and stop at the same bound.              *)
<1>2. ASSUME NEW d \in 1..MaxGap, Count(d) PROVE QuietInv'
  <2>1. confirming' => idleFor' <= quiet'
    <3>1. confirming => Min2(idleFor + d, IdleConfirm) <= Min2(quiet + d, IdleConfirm)
      BY DEF WakeTypeOK, Min2
    <3> QED
      BY <1>2, <3>1 DEF Count, Forget
  <2>2. phase' # "sending" /\ samples' = samples
    BY <1>2 DEF Count
  <2> QED
    BY <2>1, <2>2
<1>3. CASE StayQuiet \/ SkipAbsent \/ SkipBusy
  BY <1>3 DEF StayQuiet, SkipAbsent, SkipBusy, memory, ghosts
<1>4. CASE SeeIdle
  BY <1>4 DEF SeeIdle, WakeTypeOK
<1>5. CASE Wake
  BY <1>5 DEF Wake
<1>6. CASE SendFails \/ Restart
  BY <1>6 DEF SendFails, Restart, Forget, memory, ghosts
<1>7. CASE UNCHANGED wakeVars
  BY <1>7 DEF wakeVars, memory, ghosts
<1> QED
  BY <1>1, <1>2, <1>3, <1>4, <1>5, <1>6, <1>7 DEF WakeNext, Look

(* A wake follows a confirmation in which no sample was busy, at least     *)
(* IdleConfirm after the last acknowledged wake, for every cooldown, cap   *)
(* and number of restarts.                                                 *)
THEOREM WakesAreQuiet == WakeSpec => []QuietBeforeWake
<1>1. WakeInit => QuietInv
  BY DEF WakeInit, QuietInv, TimerBehind, SendsFull, NoBusySeen
<1>2. WakeTypeOK /\ QuietInv => QuietBeforeWake
  BY WakeConstants DEF WakeTypeOK, QuietInv, TimerBehind, SendsFull, NoBusySeen,
                   QuietBeforeWake
<1> QED
  BY <1>1, <1>2, WakeTypeCorrect, QuietInductive, PTL DEF WakeSpec

=============================================================================

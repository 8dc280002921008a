------------------------------- MODULE Mailbox -------------------------------
(***************************************************************************)
(* What the message bus promises, with no database, no transaction and no  *)
(* process in it: a posted message waits until somebody takes it, whoever  *)
(* takes it owes it to exactly one conversation, and an owed message is    *)
(* handed over at most once.  A taker that dies drops what it still owes:  *)
(* the bus delivers at most once, never twice.                             *)
(***************************************************************************)
EXTENDS Naturals

CONSTANT MaxMsg   (* how many messages are ever posted *)

VARIABLES
  box,     (* message -> where it is                              *)
  owed,    (* taken, and still in the hands of its one taker      *)
  handed   (* shown to the agent it was for                       *)

mbVars == <<box, owed, handed>>

MsgIds == 1..MaxMsg

MailboxInit ==
  /\ box = [i \in MsgIds |-> "absent"]
  /\ owed = {}
  /\ handed = {}

(* A message is posted under the next free number. *)
Post(i) ==
  /\ box[i] = "absent"
  /\ \A j \in MsgIds : box[j] = "absent" => i <= j
  /\ box' = [box EXCEPT ![i] = "waiting"]
  /\ UNCHANGED <<owed, handed>>

(* One taker takes a batch of waiting messages in one indivisible step. *)
Take(S) ==
  /\ \A i \in S : box[i] = "waiting"
  /\ box' = [i \in MsgIds |-> IF i \in S THEN "taken" ELSE box[i]]
  /\ owed' = owed \cup S
  /\ UNCHANGED handed

(* The taker shows one message it owes. *)
Hand(i) ==
  /\ i \in owed
  /\ owed' = owed \ {i}
  /\ handed' = handed \cup {i}
  /\ UNCHANGED box

(* The taker dies, or gives up, with messages still owed. *)
Drop(S) ==
  /\ S \subseteq owed
  /\ owed' = owed \ S
  /\ UNCHANGED <<box, handed>>

(* Waiting messages are settled without being shown to anybody. *)
Settle(S) ==
  /\ \A i \in S : box[i] = "waiting"
  /\ box' = [i \in MsgIds |-> IF i \in S THEN "taken" ELSE box[i]]
  /\ UNCHANGED <<owed, handed>>

(* Rows are erased; a taker that already holds one may still show it. *)
Erase(S) ==
  /\ \A i \in S : box[i] \in {"waiting", "taken"}
  /\ box' = [i \in MsgIds |-> IF i \in S THEN "gone" ELSE box[i]]
  /\ UNCHANGED <<owed, handed>>

MailboxNext ==
  \/ \E i \in MsgIds : Post(i) \/ Hand(i)
  \/ \E S \in SUBSET MsgIds : Take(S) \/ Drop(S) \/ Settle(S) \/ Erase(S)

MailboxSpec == MailboxInit /\ [][MailboxNext]_mbVars

=============================================================================

--------------------------- MODULE PortAllocProofs ---------------------------
(***************************************************************************)
(* For any number of projects and of overlapping add-cto runs, killed or   *)
(* not: the lock keeps the offsets of counted .env files distinct, and     *)
(* projects no two runs shared keep their offset and share no port, but    *)
(* for a .env that a kill cut short after its PORT_OFFSET.                 *)
(***************************************************************************)
EXTENDS PortAlloc, TLAPS

(* The state stays inside its types.                                       *)
LEMMA TypeInit == Init => TypeOK
  BY PortAssumption DEF Init, TypeOK, Offsets, Pc

(* Every action by itself, in the order of Next.                           *)
LEMMA TypeStep == TypeOK /\ [Next]_vars => TypeOK'
<1> SUFFICES ASSUME TypeOK, [Next]_vars PROVE TypeOK'
  OBVIOUS
<1> USE DEF TypeOK, Pc, envs, procs
<1>1. ASSUME NEW r \in Runs, NEW p \in Projects, Start(r, p) \/ Confirm(r, p)
      PROVE TypeOK'
  BY <1>1 DEF Start, Confirm, NoteShared
<1>2. ASSUME NEW r \in Runs, Lock(r) PROVE TypeOK'
  BY <1>2 DEF Lock
<1>3. ASSUME NEW r \in Runs, NEW n \in Offsets, Choose(r, n) PROVE TypeOK'
  BY <1>3 DEF Choose
<1>4. ASSUME NEW r \in Runs, Truncate(r) PROVE TypeOK'
  <2>1. CASE env[target[r]] = "nodir"
    BY <1>4, <2>1 DEF Truncate, End
  <2>2. CASE env[target[r]] # "nodir"
    BY <1>4, <2>2 DEF Truncate
  <2> QED BY <2>1, <2>2
<1>5. ASSUME NEW r \in Runs, WriteOffset(r) \/ WriteBackend(r) \/ WriteFrontend(r)
      PROVE TypeOK'
  BY <1>5 DEF WriteOffset, WriteBackend, WriteFrontend
<1>6. ASSUME NEW r \in Runs, WireRead(r) \/ WireAppend(r) PROVE TypeOK'
  <2>1. CASE WireRead(r)
    BY <2>1 DEF WireRead, End
  <2>2. CASE WireAppend(r)
    BY <2>2 DEF WireAppend, End
  <2> QED BY <1>6, <2>1, <2>2
<1>7. ASSUME NEW r \in Runs, Kill(r) PROVE TypeOK'
  BY <1>7 DEF Kill, End
<1>8. ASSUME NEW p \in Projects, MakeDir(p) \/ PlanCamera(p) PROVE TypeOK'
  BY <1>8 DEF MakeDir, PlanCamera
<1>9. ASSUME NEW p \in Projects, Delete(p) PROVE TypeOK'
  BY <1>9 DEF Delete, NoteShared
<1>10. CASE UNCHANGED vars
  BY <1>10 DEF vars
<1> QED
  BY <1>1, <1>2, <1>3, <1>4, <1>5, <1>6, <1>7, <1>8, <1>9, <1>10 DEF Next

(* Spec keeps TypeOK.                                                      *)
THEOREM TypeCorrect == Spec => []TypeOK
  BY TypeInit, TypeStep, PTL DEF Spec

-----------------------------------------------------------------------------
(* The inductive invariant of the allocation: what the lock's holder has   *)
(* chosen stays unused until it writes it.                                 *)
Critical(r) == pc[r] \in {"locked", "chosen", "empty", "offset", "backend"}

LockHeld == \A r \in Runs : Critical(r) => lock = r

Free(n) == \A q \in Projects : Counted(q) => offset[q] # n

(* The chosen offset is still free when it is written.                     *)
ChosenFree ==
  \A r \in Runs : pc[r] \in {"chosen", "empty", "offset"} =>
    held[r] \in Offsets /\ Free(held[r]) /\ ~IsReserved(held[r])

(* Where the holder is in the file, as long as the file is still there.    *)
FileInStep ==
  \A r \in Runs :
    /\ orphan[r] => Writing(r)
    /\ ~orphan[r] =>
         /\ pc[r] = "empty" => env[target[r]] = "empty" /\ offset[target[r]] = 0
         /\ pc[r] = "offset" => /\ env[target[r]] = "offset"
                                /\ offset[target[r]] = held[r]
         /\ pc[r] = "backend" => env[target[r]] = "backend"

(* Every counted project has an offset that may be given out.              *)
CountedAllotted ==
  \A p \in Projects : Counted(p) => offset[p] \in Offsets /\ ~IsReserved(offset[p])

AllocInv ==
  TypeOK /\ LockHeld /\ ChosenFree /\ FileInStep /\ CountedAllotted /\ DistinctOffsets

(* With no .env written yet, nothing is chosen or counted.                *)
LEMMA AllocInit == Init => AllocInv
  BY PortAssumption, TypeInit
  DEF Init, AllocInv, LockHeld, Critical, ChosenFree, FileInStep, CountedAllotted,
      Counted, DistinctOffsets, Writing

(* Each action keeps AllocInv: only the lock's holder writes an offset.    *)
LEMMA AllocStep == AllocInv /\ [Next]_vars => AllocInv'
<1> SUFFICES ASSUME AllocInv, [Next]_vars PROVE AllocInv'
  OBVIOUS
<1>0. TypeOK'
  BY TypeStep DEF AllocInv
<1> USE PortAssumption DEF AllocInv, LockHeld, Critical, ChosenFree, Free,
        FileInStep, Writing, CountedAllotted, Counted, DistinctOffsets, envs, procs
<1>1. ASSUME NEW r \in Runs, NEW p \in Projects, Start(r, p) \/ Confirm(r, p)
      PROVE AllocInv'
  BY <1>0, <1>1 DEF TypeOK, Start, Confirm
<1>2. ASSUME NEW r \in Runs, Lock(r) PROVE AllocInv'
  BY <1>0, <1>2 DEF TypeOK, Lock
<1>3. ASSUME NEW r \in Runs, NEW n \in Offsets, Choose(r, n) PROVE AllocInv'
  BY <1>0, <1>3 DEF TypeOK, Choose, IsNextFree, Used
<1>4. ASSUME NEW r \in Runs, Truncate(r) PROVE AllocInv'
  <2>1. CASE env[target[r]] = "nodir"
    BY <1>0, <1>4, <2>1 DEF TypeOK, Truncate, End
  <2>2. CASE env[target[r]] # "nodir"
    BY <1>0, <1>4, <2>2 DEF TypeOK, Truncate
  <2> QED BY <2>1, <2>2
<1>5. ASSUME NEW r \in Runs, WriteOffset(r) PROVE AllocInv'
  BY <1>0, <1>5 DEF TypeOK, WriteOffset
<1>6. ASSUME NEW r \in Runs, WriteBackend(r) PROVE AllocInv'
  BY <1>0, <1>6 DEF TypeOK, WriteBackend
<1>7. ASSUME NEW r \in Runs, WriteFrontend(r) PROVE AllocInv'
  BY <1>0, <1>7 DEF TypeOK, WriteFrontend
<1>8. ASSUME NEW r \in Runs, WireRead(r) PROVE AllocInv'
  BY <1>0, <1>8 DEF TypeOK, WireRead, End
<1>9. ASSUME NEW r \in Runs, WireAppend(r) PROVE AllocInv'
  BY <1>0, <1>9 DEF TypeOK, WireAppend, End
<1>10. ASSUME NEW r \in Runs, Kill(r) PROVE AllocInv'
  BY <1>0, <1>10 DEF TypeOK, Kill, End
<1>11. ASSUME NEW p \in Projects, MakeDir(p) \/ PlanCamera(p) PROVE AllocInv'
  BY <1>0, <1>11 DEF TypeOK, MakeDir, PlanCamera
<1>12. ASSUME NEW p \in Projects, Delete(p) PROVE AllocInv'
  <2>1. LockHeld'
    BY <1>12 DEF Delete
  <2>2. \A q \in Projects : Counted(q)' => Counted(q) /\ offset'[q] = offset[q]
    BY <1>12 DEF TypeOK, Delete
  <2>3. ChosenFree' /\ CountedAllotted' /\ DistinctOffsets'
    BY <1>12, <2>2 DEF Delete
  <2>4. FileInStep'
    BY <1>12 DEF TypeOK, Delete
  <2> QED BY <1>0, <2>1, <2>3, <2>4
<1>13. CASE UNCHANGED vars
  BY <1>0, <1>13 DEF vars
<1> QED
  BY <1>1, <1>2, <1>3, <1>4, <1>5, <1>6, <1>7, <1>8, <1>9, <1>10, <1>11, <1>12,
     <1>13 DEF Next

(* AllocInv is an invariant of Spec.                                       *)
THEOREM AllocInvariance == Spec => []AllocInv
  BY AllocInit, AllocStep, PTL DEF Spec

(* No two counted projects ever have one offset, whatever runs overlap,    *)
(* are killed or lose their directory.                                     *)
THEOREM OffsetsStayDistinct == Spec => []DistinctOffsets
<1>1. AllocInv => DistinctOffsets
  BY DEF AllocInv
<1> QED BY <1>1, AllocInvariance, PTL

-----------------------------------------------------------------------------
(* What one run alone keeps of its project's file.                         *)

(* Two runs at work on one project have made it shared.                    *)
Alone ==
  \A r, q \in Runs :
    r # q /\ pc[r] # "idle" /\ pc[q] # "idle" /\ target[r] = target[q]
      => target[r] \in shared

(* What add-cto saw when it looked for .env is still so when it writes.    *)
Unwritten ==
  \A r \in Runs :
    pc[r] \in {"checked", "locked", "chosen"} /\ target[r] \notin shared
      => env[target[r]] = "none"

(* The offset read for the mediamtx ports is the file's at the append.     *)
WireOwn ==
  \A r \in Runs :
    pc[r] = "wired" /\ target[r] \notin shared => held[r] = offset[target[r]]

MediaOwn == \A p \in Projects \ shared : media[p] # 0 => media[p] = offset[p]

(* An offset stands in a .env whose PORT_OFFSET line is written.           *)
OffsetThere ==
  \A p \in Projects :
    /\ offset[p] # 0 => ~IsReserved(offset[p])
    /\ env[p] \in {"nodir", "none", "empty"} => offset[p] = 0

(* Nobody wires a .env that a run alone on it has not finished.            *)
WiredLater ==
  \A r \in Runs :
    Writing(r) /\ ~orphan[r] /\ target[r] \notin shared /\ pc[r] # "backend"
      => media[target[r]] = 0

SettledInv ==
  AllocInv /\ Alone /\ Unwritten /\ WireOwn /\ MediaOwn /\ OffsetThere /\ WiredLater

(* Before any run has started no project is shared or wired.               *)
LEMMA SettledInit == Init => SettledInv
  BY AllocInit DEF Init, SettledInv, Alone, Unwritten, WireOwn, MediaOwn, OffsetThere,
                     WiredLater, Writing

(* Each action keeps SettledInv, and with it a complete .env's offset.     *)
LEMMA SettledStep == SettledInv /\ [Next]_vars => SettledInv' /\ [OffsetKept]_vars
<1> SUFFICES ASSUME SettledInv, [Next]_vars PROVE SettledInv' /\ [OffsetKept]_vars
  OBVIOUS
<1>0. AllocInv'
  BY AllocStep DEF SettledInv
<1> USE DEF SettledInv, Alone, Unwritten, WireOwn, MediaOwn, OffsetThere, WiredLater,
        Writing, OffsetKept, envs, procs
<1> DEFINE Goal == SettledInv' /\ [OffsetKept]_vars
<1>1. ASSUME NEW r \in Runs, NEW p \in Projects, Start(r, p) \/ Confirm(r, p)
      PROVE Goal
  BY <1>0, <1>1 DEF AllocInv, TypeOK, Start, Confirm, NoteShared, Working
<1>2. ASSUME NEW r \in Runs, Lock(r) PROVE Goal
  BY <1>0, <1>2 DEF AllocInv, TypeOK, Lock
<1>3. ASSUME NEW r \in Runs, NEW n \in Offsets, Choose(r, n) PROVE Goal
  BY <1>0, <1>3 DEF AllocInv, TypeOK, Choose
<1>4. ASSUME NEW r \in Runs, Truncate(r) PROVE Goal
  <2>1. CASE env[target[r]] = "nodir"
    BY <1>0, <1>4, <2>1 DEF AllocInv, TypeOK, Truncate, End
  <2>2. CASE env[target[r]] # "nodir"
    BY <1>0, <1>4, <2>2 DEF AllocInv, TypeOK, Truncate
  <2> QED BY <2>1, <2>2
<1>5. ASSUME NEW r \in Runs, WriteOffset(r) PROVE Goal
  <2>1. held[r] \in Offsets /\ ~IsReserved(held[r])
    BY <1>5 DEF AllocInv, ChosenFree, WriteOffset
  <2> QED BY <1>0, <1>5, <2>1 DEF AllocInv, TypeOK, WriteOffset, FileInStep
<1>6. ASSUME NEW r \in Runs, WriteBackend(r) \/ WriteFrontend(r) PROVE Goal
  BY <1>0, <1>6 DEF AllocInv, TypeOK, WriteBackend, WriteFrontend
<1>7. ASSUME NEW r \in Runs, WireRead(r) PROVE Goal
  BY <1>0, <1>7 DEF AllocInv, TypeOK, WireRead, End
<1>8. ASSUME NEW r \in Runs, WireAppend(r) PROVE Goal
  BY <1>0, <1>8 DEF AllocInv, TypeOK, WireAppend, End
<1>9. ASSUME NEW r \in Runs, Kill(r) PROVE Goal
  BY <1>0, <1>9 DEF AllocInv, TypeOK, Kill, End
<1>10. ASSUME NEW p \in Projects, MakeDir(p) \/ PlanCamera(p) PROVE Goal
  BY <1>0, <1>10 DEF AllocInv, TypeOK, MakeDir, PlanCamera
<1>11. ASSUME NEW p \in Projects, Delete(p) PROVE Goal
  BY <1>0, <1>11 DEF AllocInv, TypeOK, Delete, NoteShared, Working
<1>12. CASE UNCHANGED vars
  BY <1>0, <1>12 DEF vars
<1> QED
  BY <1>1, <1>2, <1>3, <1>4, <1>5, <1>6, <1>7, <1>8, <1>9, <1>10, <1>11, <1>12
  DEF Next

(* What a run alone on its project relies on stays true.                   *)
THEOREM SettledInvariance == Spec => []SettledInv
  BY SettledInit, SettledStep, PTL DEF Spec

(* A complete .env of a project no two runs shared keeps its offset until  *)
(* the project is deleted.                                                 *)
THEOREM OffsetsStable == Spec => OffsetStable
  BY SettledInvariance, SettledStep, PTL DEF Spec, OffsetStable

-----------------------------------------------------------------------------
(* The bases are far enough apart for any two offsets in range.            *)
LEMMA BasesApart ==
  ASSUME NEW a \in Offsets, NEW b \in Offsets, a # b,
         NEW x \in {BackendBase, FrontendBase} \cup MediaBase,
         NEW y \in {BackendBase, FrontendBase} \cup MediaBase
  PROVE  x + a # y + b
  BY PortAssumption, SMT DEF Offsets, BackendBase, FrontendBase, MediaBase

(* Offsets that are not reserved keep every port off the reserved ones.    *)
LEMMA NoneReserved ==
  ASSUME NEW a \in Offsets, ~IsReserved(a),
         NEW x \in {BackendBase, FrontendBase} \cup MediaBase
  PROVE  x + a \notin ReservedPorts
<1>1. CASE x \in {BackendBase, FrontendBase}
  BY <1>1 DEF IsReserved
<1>2. CASE x \in MediaBase
  BY <1>2, PortAssumption DEF Offsets, MediaBase, ReservedPorts
<1> QED BY <1>1, <1>2

(* Projects no two runs shared take no reserved port, and have no port in  *)
(* common unless the .env of one was cut short after its PORT_OFFSET.      *)
THEOREM PortsStayDisjoint == Spec => []PortsDisjoint
<1>1. SettledInv => PortsDisjoint
  <2> SUFFICES ASSUME SettledInv, NEW p \in Projects \ shared
               PROVE  /\ PortsOf(p) \cap ReservedPorts = {}
                      /\ \A q \in Projects \ shared :
                           p # q /\ ~CutShort(p) /\ ~CutShort(q)
                             => PortsOf(p) \cap PortsOf(q) = {}
    BY DEF PortsDisjoint
  <2> DEFINE Bases == {BackendBase, FrontendBase} \cup MediaBase
             Ports(n) == {b + n : b \in Bases}
  <2>1. ASSUME NEW q \in Projects \ shared
        PROVE  \/ PortsOf(q) = {}
               \/ /\ offset[q] \in Offsets /\ ~IsReserved(offset[q])
                  /\ PortsOf(q) \subseteq Ports(offset[q])
    <3>1. CASE Counted(q)
      BY <3>1 DEF SettledInv, AllocInv, CountedAllotted, MediaOwn, PortsOf
    <3>2. CASE ~Counted(q) /\ media[q] = 0
      BY <3>2 DEF PortsOf
    <3>3. CASE ~Counted(q) /\ media[q] # 0
      <4>1. offset[q] = media[q] /\ offset[q] \in Offsets /\ ~IsReserved(offset[q])
        BY <3>3 DEF SettledInv, AllocInv, TypeOK, MediaOwn, OffsetThere
      <4> QED
        BY <3>3, <4>1 DEF PortsOf
    <3> QED
      BY <3>1, <3>2, <3>3
  <2>2. PortsOf(p) \cap ReservedPorts = {}
    BY <2>1, NoneReserved
  <2>3. ASSUME NEW q \in Projects \ shared, ~CutShort(q), ~Counted(q) PROVE PortsOf(q) = {}
    <3>1. SUFFICES ASSUME media[q] # 0 PROVE FALSE
      BY <2>3 DEF PortsOf
    <3>2. env[q] = "offset"
      BY <2>3, <3>1 DEF SettledInv, AllocInv, TypeOK, MediaOwn, OffsetThere, Counted
    <3>3. PICK r \in Runs : Writing(r) /\ target[r] = q /\ ~orphan[r]
      BY <2>3, <3>2 DEF CutShort
    <3>4. pc[r] # "backend"
      BY <3>2, <3>3 DEF SettledInv, AllocInv, FileInStep
    <3> QED
      BY <2>3, <3>1, <3>3, <3>4 DEF SettledInv, WiredLater
  <2>4. ASSUME NEW q \in Projects \ shared, p # q, ~CutShort(p), ~CutShort(q)
        PROVE  PortsOf(p) \cap PortsOf(q) = {}
    <3>1. CASE ~Counted(p) \/ ~Counted(q)
      BY <2>3, <2>4, <3>1
    <3>2. CASE Counted(p) /\ Counted(q)
      <4>1. offset[p] # offset[q]
        BY <2>4, <3>2 DEF SettledInv, AllocInv, DistinctOffsets
      <4>2. offset[p] \in Offsets /\ offset[q] \in Offsets
        BY <3>2 DEF SettledInv, AllocInv, CountedAllotted
      <4>3. Ports(offset[p]) \cap Ports(offset[q]) = {}
        BY <4>1, <4>2, BasesApart
      <4> QED
        BY <2>1, <2>4, <4>3
    <3> QED
      BY <3>1, <3>2
  <2> QED
    BY <2>2, <2>4
<1> QED BY <1>1, SettledInvariance, PTL

=============================================================================

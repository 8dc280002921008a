------------------------------ MODULE PortAlloc ------------------------------
(***************************************************************************)
(* How run.sh add-cto gives a project its ports.  A project without .env   *)
(* gets the next free offset (harness/cli.py, _next_free_offset over the   *)
(* BACKEND_PORT of every .env) under flock, written line by line; a camera *)
(* project then gets its mediamtx ports appended, outside the lock         *)
(* (_wire_project_env, which the plan confirmation hook calls too).  Runs  *)
(* overlap, for different projects or for the same one, any of them may be *)
(* killed, and delete-cto may remove the directory under them.             *)
(***************************************************************************)
EXTENDS Naturals

CONSTANTS
  Projects,    (* names a build directory may have                         *)
  Runs,        (* processes: add-cto, or the hook's call                   *)
  NoRun,       (* nobody holds ports.lock                                  *)
  MaxOffset    (* bound: offsets considered                                *)

BackendBase == 8000
FrontendBase == 5173
MediaBase == {9997, 8554, 8889, 8189}
ReservedPorts == {5175, 8005}

(* From offset 189 on, 8000 + n runs into another project's 8189 + m.      *)
ASSUME PortAssumption ==
  /\ NoRun \notin Runs
  /\ MaxOffset \in 1..188

Offsets == 1..MaxOffset

VARIABLES
  env,      (* project -> how much there is: "nodir", "none" (no .env),    *)
            (* or the last line of .env: "empty", "offset", "backend",     *)
            (* "full"                                                      *)
  offset,   (* project -> PORT_OFFSET in it, 0 if the line is not there    *)
  media,    (* project -> offset its mediamtx ports were derived from, or 0 *)
  camera,   (* project -> plan.md mentions mediamtx                        *)
  lock,     (* the run holding flock on ports.lock, or NoRun               *)
  pc,       (* run -> its place in cmd_add_cto                             *)
  target,   (* run -> the project it is for                                *)
  held,     (* run -> the offset in its shell variable, 0 if none          *)
  orphan,   (* run -> the .env it has open was deleted, its writes with it *)
  shared    (* history: projects two runs worked on at the same time, or   *)
            (* that were deleted under a run                               *)

envs == <<env, offset, media, camera>>
procs == <<lock, pc, target, held, orphan>>
vars == <<envs, procs, shared>>

Pc == {"idle", "checked", "locked", "chosen", "empty", "offset", "backend",
       "unlocked", "wired"}

TypeOK ==
  /\ env \in [Projects -> {"nodir", "none", "empty", "offset", "backend", "full"}]
  /\ offset \in [Projects -> {0} \cup Offsets]
  /\ media \in [Projects -> {0} \cup Offsets]
  /\ camera \in [Projects -> BOOLEAN]
  /\ lock \in Runs \cup {NoRun}
  /\ pc \in [Runs -> Pc]
  /\ target \in [Runs -> Projects]
  /\ held \in [Runs -> {0} \cup Offsets]
  /\ orphan \in [Runs -> BOOLEAN]
  /\ shared \in SUBSET Projects

Init ==
  /\ env = [p \in Projects |-> "nodir"]
  /\ offset = [p \in Projects |-> 0] /\ media = [p \in Projects |-> 0]
  /\ camera = [p \in Projects |-> FALSE]
  /\ lock = NoRun
  /\ pc = [r \in Runs |-> "idle"]
  /\ target \in [Runs -> Projects]
  /\ held = [r \in Runs |-> 0]
  /\ orphan = [r \in Runs |-> FALSE]
  /\ shared = {}

Working(p) == {r \in Runs : pc[r] # "idle" /\ target[r] = p}

(* History only: p has a second run on it, or loses its directory to one.  *)
NoteShared(p) ==
  shared' = IF Working(p) # {} THEN shared \cup {p} ELSE shared

-----------------------------------------------------------------------------
(* _scan_port_projects: a project counts once its BACKEND_PORT is there.   *)
Counted(p) == env[p] \in {"backend", "full"}
Used == {offset[p] : p \in {q \in Projects : Counted(q)}}
IsReserved(n) == {BackendBase + n, FrontendBase + n} \cap ReservedPorts # {}

(* _next_free_offset: the smallest n that is neither used nor reserved.    *)
IsNextFree(n) ==
  /\ n \notin Used /\ ~IsReserved(n)
  /\ \A m \in 1..(n - 1) : m \in Used \/ IsReserved(m)

(* /build-project makes the empty directory, and the plan the user writes  *)
(* there may name mediamtx.                                                *)
MakeDir(p) ==
  /\ env[p] = "nodir"
  /\ env' = [env EXCEPT ![p] = "none"]
  /\ camera' = [camera EXCEPT ![p] = FALSE]
  /\ UNCHANGED <<offset, media, procs, shared>>

PlanCamera(p) ==
  /\ env[p] # "nodir"
  /\ camera' = [camera EXCEPT ![p] = TRUE]
  /\ UNCHANGED <<env, offset, media, procs, shared>>

(* Slip: every add-cto allocates, the check for an existing .env is gone.  *)
StartUnchecked(r, p) ==
  /\ pc[r] = "idle" /\ env[p] # "nodir"
  /\ target' = [target EXCEPT ![r] = p]
  /\ pc' = [pc EXCEPT ![r] = "checked"]
  /\ NoteShared(p)
  /\ UNCHANGED <<envs, lock, held, orphan>>

(* add-cto refuses a missing directory, and looks for .env before it asks  *)
(* for the lock.                                                           *)
Start(r, p) ==
  /\ pc[r] = "idle" /\ env[p] # "nodir"
  /\ target' = [target EXCEPT ![r] = p]
  /\ pc' = [pc EXCEPT ![r] = IF env[p] = "none" THEN "checked" ELSE "unlocked"]
  /\ NoteShared(p)
  /\ UNCHANGED <<envs, lock, held, orphan>>

(* The plan confirmation hook runs _wire_project_env alone.                *)
Confirm(r, p) ==
  /\ pc[r] = "idle" /\ env[p] # "nodir"
  /\ target' = [target EXCEPT ![r] = p]
  /\ pc' = [pc EXCEPT ![r] = "unlocked"]
  /\ NoteShared(p)
  /\ UNCHANGED <<envs, lock, held, orphan>>

(* Slip: flock -n with its result ignored.                                 *)
LockIgnored(r) ==
  /\ pc[r] = "checked"
  /\ lock' = r
  /\ pc' = [pc EXCEPT ![r] = "locked"]
  /\ UNCHANGED <<envs, target, held, orphan, shared>>

Lock(r) ==
  /\ pc[r] = "checked" /\ lock = NoRun
  /\ lock' = r
  /\ pc' = [pc EXCEPT ![r] = "locked"]
  /\ UNCHANGED <<envs, target, held, orphan, shared>>

Choose(r, n) ==
  /\ pc[r] = "locked" /\ IsNextFree(n)
  /\ held' = [held EXCEPT ![r] = n]
  /\ pc' = [pc EXCEPT ![r] = "chosen"]
  /\ UNCHANGED <<envs, lock, target, orphan, shared>>

(* A run ends, on its own or killed; the kernel releases its flock.        *)
End(r) ==
  /\ lock' = IF lock = r THEN NoRun ELSE lock
  /\ held' = [held EXCEPT ![r] = 0]
  /\ orphan' = [orphan EXCEPT ![r] = FALSE]
  /\ pc' = [pc EXCEPT ![r] = "idle"]
  /\ UNCHANGED target

Kill(r) ==
  /\ pc[r] # "idle"
  /\ End(r)
  /\ UNCHANGED <<envs, shared>>

(* The redirection truncates the file; without the directory it fails, and *)
(* set -e ends the run.                                                    *)
Truncate(r) ==
  LET p == target[r] IN
  /\ pc[r] = "chosen"
  /\ UNCHANGED <<camera, shared>>
  /\ \/ /\ env[p] = "nodir"
        /\ End(r)
        /\ UNCHANGED <<env, offset, media>>
     \/ /\ env[p] # "nodir"
        /\ env' = [env EXCEPT ![p] = "empty"]
        /\ offset' = [offset EXCEPT ![p] = 0]
        /\ media' = [media EXCEPT ![p] = 0]
        /\ pc' = [pc EXCEPT ![r] = "empty"]
        /\ UNCHANGED <<lock, target, held, orphan>>

Writing(r) == pc[r] \in {"empty", "offset", "backend"}

WriteOffset(r) ==
  LET p == target[r] IN
  /\ pc[r] = "empty"
  /\ env' = [env EXCEPT ![p] = IF ~orphan[r] THEN "offset" ELSE @]
  /\ offset' = [offset EXCEPT ![p] = IF ~orphan[r] THEN held[r] ELSE @]
  /\ pc' = [pc EXCEPT ![r] = "offset"]
  /\ UNCHANGED <<media, camera, lock, target, held, orphan, shared>>

WriteBackend(r) ==
  LET p == target[r] IN
  /\ pc[r] = "offset"
  /\ env' = [env EXCEPT ![p] = IF ~orphan[r] THEN "backend" ELSE @]
  /\ pc' = [pc EXCEPT ![r] = "backend"]
  /\ UNCHANGED <<offset, media, camera, lock, target, held, orphan, shared>>

(* The last line, the PORT.md refresh, and the subshell's end.             *)
WriteFrontend(r) ==
  LET p == target[r] IN
  /\ pc[r] = "backend"
  /\ env' = [env EXCEPT ![p] = IF ~orphan[r] THEN "full" ELSE @]
  /\ lock' = NoRun
  /\ pc' = [pc EXCEPT ![r] = "unlocked"]
  /\ held' = [held EXCEPT ![r] = 0]
  /\ orphan' = [orphan EXCEPT ![r] = FALSE]
  /\ UNCHANGED <<offset, media, camera, target, shared>>

(* Slip: the next free offset is taken instead of the file's own.          *)
WireReadNext(r) ==
  LET p == target[r] IN
  /\ pc[r] = "unlocked"
  /\ UNCHANGED <<envs, shared>>
  /\ \/ /\ offset[p] # 0 /\ camera[p] /\ media[p] = 0
        /\ \E n \in Offsets : IsNextFree(n) /\ held' = [held EXCEPT ![r] = n]
        /\ pc' = [pc EXCEPT ![r] = "wired"]
        /\ UNCHANGED <<lock, target, orphan>>
     \/ /\ offset[p] = 0 \/ ~camera[p] \/ media[p] # 0
        /\ End(r)

(* _wire_project_env reads PORT_OFFSET and the camera signal, ...          *)
WireRead(r) ==
  LET p == target[r] IN
  /\ pc[r] = "unlocked"
  /\ UNCHANGED <<envs, shared>>
  /\ \/ /\ offset[p] # 0 /\ camera[p] /\ media[p] = 0
        /\ held' = [held EXCEPT ![r] = offset[p]]
        /\ pc' = [pc EXCEPT ![r] = "wired"]
        /\ UNCHANGED <<lock, target, orphan>>
     \/ /\ offset[p] = 0 \/ ~camera[p] \/ media[p] # 0
        /\ End(r)

(* Slip: the API port itself is remembered where its offset is meant.      *)
WireAppendPort(r) ==
  LET p == target[r] IN
  /\ pc[r] = "wired"
  /\ media' = [media EXCEPT ![p] = 9997 + held[r]]
  /\ env' = [env EXCEPT ![p] = IF @ = "none" THEN "empty" ELSE @]
  /\ End(r)
  /\ UNCHANGED <<offset, camera, shared>>

(* ... and appends the four mediamtx ports derived from what it read; >>   *)
(* makes a new .env in a directory that has none, and fails without one.   *)
WireAppend(r) ==
  LET p == target[r] IN
  /\ pc[r] = "wired"
  /\ media' = [media EXCEPT ![p] = IF env[p] = "nodir" \/ @ # 0 THEN @ ELSE held[r]]
  /\ env' = [env EXCEPT ![p] = IF @ = "none" THEN "empty" ELSE @]
  /\ End(r)
  /\ UNCHANGED <<offset, camera, shared>>

(* delete-cto removes the directory.                                       *)
Delete(p) ==
  /\ env[p] # "nodir"
  /\ env' = [env EXCEPT ![p] = "nodir"]
  /\ offset' = [offset EXCEPT ![p] = 0]
  /\ media' = [media EXCEPT ![p] = 0]
  /\ camera' = [camera EXCEPT ![p] = FALSE]
  /\ orphan' = [r \in Runs |-> orphan[r] \/ (Writing(r) /\ target[r] = p)]
  /\ NoteShared(p)
  /\ UNCHANGED <<lock, pc, target, held>>

Next ==
  \/ \E r \in Runs :
       \/ \E p \in Projects : Start(r, p) \/ Confirm(r, p)
       \/ Lock(r)
       \/ \E n \in Offsets : Choose(r, n)
       \/ Truncate(r) \/ WriteOffset(r) \/ WriteBackend(r) \/ WriteFrontend(r)
       \/ WireRead(r) \/ WireAppend(r) \/ Kill(r)
  \/ \E p \in Projects : MakeDir(p) \/ PlanCamera(p) \/ Delete(p)

Spec == Init /\ [][Next]_vars

-----------------------------------------------------------------------------
(* Two projects whose BACKEND_PORT is written never have the same offset,  *)
(* whatever runs overlap, are killed half-way or lose their directory ("so *)
(* two concurrent add-cto runs can't be handed the same offset").          *)
DistinctOffsets ==
  \A p, q \in Projects :
    p # q /\ Counted(p) /\ Counted(q) => offset[p] # offset[q]

(* The ports a project's .env names.                                       *)
PortsOf(p) ==
  (IF Counted(p) THEN {BackendBase + offset[p], FrontendBase + offset[p]} ELSE {})
    \cup (IF media[p] # 0 THEN {b + media[p] : b \in MediaBase} ELSE {})

(* A kill between two lines left a .env that ends at PORT_OFFSET: no later *)
(* add-cto completes it and no scan counts it, but its offset is wired.    *)
CutShort(p) ==
  /\ env[p] = "offset"
  /\ \A r \in Runs : Writing(r) /\ target[r] = p => orphan[r]

(* No two projects share any port, mediamtx included, and none takes a     *)
(* reserved one, whatever was killed or deleted, except projects two runs  *)
(* worked on at once; and a .env cut short after PORT_OFFSET may be wired  *)
(* to mediamtx ports of an offset the next project is given as well.       *)
PortsDisjoint ==
  \A p \in Projects \ shared :
    /\ PortsOf(p) \cap ReservedPorts = {}
    /\ \A q \in Projects \ shared :
         p # q /\ ~CutShort(p) /\ ~CutShort(q) => PortsOf(p) \cap PortsOf(q) = {}

(* A complete .env keeps its offset until the project is deleted, unless   *)
(* two runs of the same project overlapped.                                *)
OffsetKept ==
  \A p \in Projects \ shared' :
    env[p] = "full" => env'[p] = "nodir" \/ offset'[p] = offset[p]

OffsetStable == [][OffsetKept]_vars

=============================================================================

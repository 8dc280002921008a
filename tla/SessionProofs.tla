--------------------------- MODULE SessionProofs ----------------------------
(***************************************************************************)
(* Theorems about the members of a build: who starts and stops them        *)
(* (Sessions), for any projects, members, requests and faults, and the watch*)
(* over the two halves of one of them (PairWatch), for every grace period, *)
(* gap between scans and number of errors and restarts.                    *)
(***************************************************************************)
EXTENDS Sessions, PairWatch, TLAPS

-----------------------------------------------------------------------------
(* Sessions.  The proof turns on what the lock of a project keeps others   *)
(* from doing while a request is at work in it.                            *)

(* The places a request has the lock of its project at, those of the two   *)
(* toggles, and the kinds of request that start members.                   *)
Inside == {"look", "wait", "list", "close", "kill", "remove", "role", "create", "end",
           "settle", "toggle", "devup", "devdown", "dockerup", "dockerdown"}
Toggles == {"toggle", "devup", "devdown", "dockerup", "dockerdown"}
StartOps == {"start", "fresh", "start-all"}

(* Which way each kind of request goes.                                    *)
Route(r) ==
  /\ r.pc = "next" => r.op \in AllOps
  /\ r.op = "shutdown" => r.pc \in {"list", "close", "kill", "remove", "end", "done"}
  /\ r.op = "delete" => r.pc \in {"hold", "list", "close", "kill", "remove", "end", "done"}
  /\ r.pc \in Toggles => r.op \in {"dev", "docker"}
  /\ r.pc \in {"role", "create"} => r.op \in StartOps
  /\ r.op \in StartOps /\ r.pc \in {"list", "close", "kill", "role", "create"} =>
       r.roles # <<>>
  /\ r.answer = "cut" => r.pc = "done"
  /\ r.op = "stop" /\ r.swept => r.pc \in {"end", "settle", "done"}

(* A request inside a project has its lock, unless it is shutdown-all.     *)
Owns == \A t \in Requests :
  req[t].op # "shutdown" /\ req[t].pc \in Inside => holder[Project(t)] = t

(* No start was cut off: no creation of a tab can outlive its script.      *)
NoneCut == \A u \in Requests : ~(Starts(u) /\ req[u].answer = "cut")

(* Then whoever is coming up is a member of a start that waits for it; no  *)
(* tab comes late; a build that is gone is quiet, and so is one that a     *)
(* stop has swept and not yet left.                                        *)
Booters == NoneCut => \A p \in Projects, r \in Roles : keeper[<<p, r>>] = "booting" =>
  \E u \in Requests : /\ Starts(u) /\ Project(u) = p
                      /\ req[u].pc \in {"role", "create", "end", "settle"}

(* A start works in a directory that exists.                               *)
StartsInBuild == \A t \in Requests :
  Starts(t) /\ req[t].pc \in {"list", "close", "kill", "role", "create"} =>
    Project(t) \in dir

GoneQuiet == NoneCut => \A p \in Projects \ dir : Quiet(p)
SweptQuiet == NoneCut => \A t \in Requests :
  req[t].op = "stop" /\ req[t].pc \in {"end", "settle"} /\ req[t].swept =>
    Quiet(Project(t))
NoLate == NoneCut => late = {}

(* A docker toggle that saw everything and goes up sees no dev servers.    *)
BuildsSeeDev == \A t \in Requests :
  At(t, "dockerup") /\ ~req[t].failed => listener[Project(t)] # "dev"

Routes == req \in [Requests -> {NotAsked} \cup Threads]
          /\ \A t \in Requests : req[t] # NotAsked => Route(req[t])

(* The types.                                                              *)
World ==
  /\ dir \subseteq Projects
  /\ keeper \in [Members -> {"none", "booting", "up"}]
  /\ late \subseteq Members
  /\ listener \in [Projects -> {"free", "mock", "dev", "docker"}]
  /\ building \subseteq Projects
  /\ holder \in [Projects -> Requests \cup {Nobody}]
  /\ session \in Requests \cup {Nobody}
Looks == orca \in BOOLEAN /\ cache \in [alive : SUBSET Members, fresh : BOOLEAN]
Tabs == tabs \in [Members -> 0..2] /\ faults \in 0..MaxFaults

(* The types of Sessions, in three groups that change for different        *)
(* reasons.                                                                *)
LEMMA SessionTypes ==
  TypeOK <=> World /\ Looks /\ Tabs /\ req \in [Requests -> {NotAsked} \cup Threads]
  BY DEF TypeOK, World, Looks, Tabs

(* A request that was made has its fields and goes its route.              *)
LEMMA Asked ==
  ASSUME Routes, NEW t \in Requests, req[t].pc # "idle"
  PROVE  req[t] \in Threads /\ req[t] # NotAsked /\ Route(req[t])
<1>1. req[t] # NotAsked
  BY DEF NotAsked
<1> QED
  BY <1>1 DEF Routes

(* A request whose place, verdict and the rest of its state changed.       *)
LEMMA Turned ==
  ASSUME Routes, NEW t \in Requests, NEW r \in Threads, r # NotAsked, Route(r),
         req' = [req EXCEPT ![t] = r]
  PROVE  /\ Routes' /\ req'[t] = r
         /\ \A u \in Requests \ {t} : req'[u] = req[u]
  BY DEF Routes, Route, NotAsked

(* What a step of thread t makes of its request.                           *)
Turn(t, r) ==
  /\ r \in Threads /\ r # NotAsked /\ Route(r)
  /\ req' = [req EXCEPT ![t] = r]

(* Leaving a project answers, or goes on to the next.                      *)
LEMMA LeaveTurns ==
  ASSUME Routes, NEW t \in Requests, req[t].pc \in Inside \cup {"hold"},
         NEW answer \in Answers \ {"cut"}, Leave(t, answer)
  PROVE  \E r : /\ Turn(t, r) /\ r.op = req[t].op /\ r.pc \in {"next", "done"}
                /\ r.project = req[t].project /\ r.swept = req[t].swept
                /\ (r.answer = "cut" <=> req[t].answer = "cut")
                /\ req[t].op \notin AllOps => r.pc = "done" /\ r.answer = answer
<1>1. req[t] \in Threads /\ Route(req[t]) /\ req[t].pc # "done"
  BY Asked DEF Inside
<1>2. req[t].answer # "cut"
  BY <1>1 DEF Route
<1> DEFINE pc == IF req[t].op \in AllOps THEN "next" ELSE "done"
           verdict == IF req[t].op \notin AllOps THEN answer
                   ELSE IF answer = "failed" THEN "failed" ELSE req[t].answer
<1>3. PICK r : r = [req[t] EXCEPT !.pc = pc, !.answer = verdict]
  OBVIOUS
<1>4. req' = [req EXCEPT ![t] = r]
  BY <1>3 DEF Leave, Routes
<1>5. pc \in {"next", "done"} /\ verdict \in Answers \ {"cut"}
  BY <1>1, <1>2 DEF Threads, Answers
<1> HIDE DEF verdict
<1>6. r \in Threads /\ r.op = req[t].op /\ r.pc = pc /\ r.answer = verdict
      /\ r.project = req[t].project /\ r.swept = req[t].swept
  BY <1>1, <1>3, <1>5 DEF Threads
<1>7. Route(r)
  BY <1>1, <1>5, <1>6 DEF Route, Inside, AllOps, Toggles, StartOps
<1>8. r # NotAsked
  BY <1>5, <1>6 DEF NotAsked
<1> QED
  BY <1>2, <1>4, <1>5, <1>6, <1>7, <1>8 DEF Turn, verdict

(* A move to another place and nothing else.                               *)
LEMMA GotoTurns ==
  ASSUME Routes, NEW t \in Requests, req[t].pc # "idle", NEW pc, Goto(t, pc),
         [req[t] EXCEPT !.pc = pc] \in Threads, Route([req[t] EXCEPT !.pc = pc])
  PROVE  \E r : Turn(t, r) /\ r = [req[t] EXCEPT !.pc = pc]
<1>1. PICK r : r = [req[t] EXCEPT !.pc = pc]
  OBVIOUS
<1>2. r.pc # "idle"
  BY <1>1 DEF Threads
<1> QED
  BY <1>1, <1>2 DEF Turn, Goto, Routes, NotAsked

(* What Sessions assumes of its constants.                                 *)
LEMMA SessionConstants ==
  /\ RoleOrder \in Seq(Roles) /\ RoleOrder # <<>>
  /\ Nobody \notin Requests
  /\ MaxFaults \in Nat
  BY SessionsAssumption

(* From where to where a step may take a request.                          *)
Way(q, r) ==
  /\ r.op = q.op
  /\ r.project # q.project => r.pc = "hold"
  /\ r.pc \in Inside => q.pc \in Inside \cup {"hold"}
  /\ r.op \in StartOps /\ r.pc \in {"list", "close", "kill", "role", "create"} =>
       q.pc \in {"wait", "list", "close", "kill", "role", "create"}
  /\ q.op \in StartOps /\ q.pc \in {"role", "create", "end", "settle"} =>
       r.pc \in {"role", "create", "end", "settle", "next", "done"}
  /\ r.op = "stop" /\ r.swept /\ ~q.swept => q.pc = "kill"
  /\ r.pc = "dockerup" => q.pc = "toggle"
  /\ q.answer = "cut" => r.answer = "cut"

(* Every step of a thread takes its request one of those ways.             *)
LEMMA Course ==
  ASSUME Routes, World, NEW t \in Requests, Step(t) \/ Cut(t)
  PROVE  \E r : Turn(t, r) /\ Way(req[t], r)
<1> DEFINE q == req[t]
<1>0. q.pc # "idle" => q \in Threads /\ q # NotAsked /\ Route(q)
  BY Asked
<1>a. ASSUME NEW r \in Threads, Route(r), Way(q, r), req' = [req EXCEPT ![t] = r]
      PROVE  \E x : Turn(t, x) /\ Way(req[t], x)
  <2>1. r # NotAsked
    BY DEF Threads, NotAsked
  <2>2. Turn(t, r)
    BY <1>a, <2>1 DEF Turn
  <2> QED
    BY <1>a, <2>2
<1>b. ASSUME q.pc \in Inside \cup {"hold"}, NEW answer \in Answers \ {"cut"}, Leave(t, answer)
      PROVE  \E x : Turn(t, x) /\ Way(req[t], x)
  <2>1. PICK r : /\ Turn(t, r) /\ r.op = q.op /\ r.pc \in {"next", "done"}
                 /\ r.project = q.project /\ r.swept = q.swept
                 /\ (r.answer = "cut" <=> q.answer = "cut")
    BY <1>b, LeaveTurns
  <2>2. Way(q, r)
    BY <2>1 DEF Way, Inside, StartOps
  <2> QED
    BY <2>1, <2>2
<1>c. q \in Threads => q.pc # "idle"
  BY DEF Threads
<1>1. CASE NextProject(t)
  <2>1. q \in Threads /\ Route(q) /\ q.pc = "next"
    BY <1>0, <1>1 DEF NextProject, At
  <2>2. CASE \E p \in q.todo : req' = [req EXCEPT
               ![t].project = p, ![t].todo = @ \ {p}, ![t].pc = "hold",
               ![t].failed = FALSE, ![t].swept = FALSE]
    <3>1. PICK p \in q.todo : req' = [req EXCEPT
               ![t].project = p, ![t].todo = @ \ {p}, ![t].pc = "hold",
               ![t].failed = FALSE, ![t].swept = FALSE]
      BY <2>2
    <3>2. PICK r : r = [q EXCEPT !.project = p, !.todo = q.todo \ {p}, !.pc = "hold",
                                 !.failed = FALSE, !.swept = FALSE]
      OBVIOUS
    <3>3. req' = [req EXCEPT ![t] = r]
      BY <3>1, <3>2 DEF Routes
    <3>4. /\ r \in Threads /\ r.pc = "hold" /\ r.op = q.op /\ r.answer = q.answer
          /\ r.swept = FALSE
      BY <2>1, <3>2 DEF Threads
    <3>5. Route(r)
      BY <2>1, <3>4 DEF Route, Toggles, AllOps, StartOps
    <3>6. Way(q, r)
      BY <2>1, <3>4 DEF Way, Inside, StartOps
    <3> QED
      BY <1>a, <3>3, <3>4, <3>5, <3>6
  <2>3. CASE req' = [req EXCEPT ![t].pc = "done",
                                ![t].answer = IF @ = "failed" THEN @ ELSE "ok"]
    <3> DEFINE verdict == IF q.answer = "failed" THEN q.answer ELSE "ok"
    <3>1. PICK r : r = [q EXCEPT !.pc = "done", !.answer = verdict]
      OBVIOUS
    <3>2. req' = [req EXCEPT ![t] = r]
      BY <2>3, <3>1 DEF Routes
    <3>3. verdict \in Answers \ {"cut"}
      BY <2>1 DEF Threads, Answers
    <3> HIDE DEF verdict
    <3>4. /\ r \in Threads /\ r.pc = "done" /\ r.op = q.op /\ r.answer = verdict
          /\ r.project = q.project /\ r.swept = q.swept
      BY <2>1, <3>1, <3>3 DEF Threads
    <3>5. Route(r)
      BY <2>1, <3>4 DEF Route, Toggles, AllOps, StartOps
    <3>6. Way(q, r)
      BY <2>1, <3>4 DEF Way, Route, Inside, StartOps
    <3> QED
      BY <1>a, <3>2, <3>4, <3>5, <3>6
  <2> QED
    BY <1>1, <2>2, <2>3 DEF NextProject
(* A move to another place and nothing else.                               *)
<1>d. ASSUME NEW pc, Goto(t, pc), q \in Threads, Route(q),
             [q EXCEPT !.pc = pc] \in Threads,
             Route([q EXCEPT !.pc = pc]), Way(q, [q EXCEPT !.pc = pc])
      PROVE  \E x : Turn(t, x) /\ Way(req[t], x)
  BY <1>c, <1>d, GotoTurns
<1>2. CASE Hold(t)
  <2>1. q \in Threads /\ Route(q) /\ q.pc = "hold"
    BY <1>0, <1>2 DEF Hold, At
  <2>2. CASE Leave(t, "busy")
    BY <1>b, <2>1, <2>2 DEF Answers
  <2>3. CASE Goto(t, CASE q.op = "delete" -> "list"
                       [] q.op \in {"dev", "docker"} -> "toggle"
                       [] OTHER -> "look")
    <3>1. PICK pc : /\ Goto(t, pc)
                    /\ \/ q.op = "delete" /\ pc = "list"
                       \/ q.op \in {"dev", "docker"} /\ pc = "toggle"
                       \/ q.op \notin {"delete", "dev", "docker"} /\ pc = "look"
      BY <2>3
    <3>2. PICK r : r = [q EXCEPT !.pc = pc]
      OBVIOUS
    <3>3. /\ r \in Threads /\ r.pc = pc /\ r.op = q.op /\ r.answer = q.answer
          /\ r.project = q.project /\ r.swept = q.swept
      BY <2>1, <3>1, <3>2 DEF Threads
    <3>4. Route(r)
      BY <2>1, <3>1, <3>3 DEF Route, Toggles, AllOps, StartOps
    <3>5. Way(q, r)
      BY <2>1, <3>1, <3>3 DEF Way, Inside, StartOps
    <3> QED
      BY <1>d, <2>1, <3>1, <3>2, <3>3, <3>4, <3>5
  <2> QED
    BY <1>2, <2>2, <2>3 DEF Hold
<1>3. CASE Look(t)
  <2>1. q \in Threads /\ Route(q) /\ q.pc = "look"
    BY <1>0, <1>3 DEF Look, At
  <2>2. CASE Leave(t, "noop")
    BY <1>b, <2>1, <2>2 DEF Answers, Inside
  <2>3. CASE Goto(t, "wait")
    <3>2. PICK r : r = [q EXCEPT !.pc = "wait"]
      OBVIOUS
    <3>3. /\ r \in Threads /\ r.pc = "wait" /\ r.op = q.op /\ r.answer = q.answer
          /\ r.project = q.project /\ r.swept = q.swept
      BY <2>1, <3>2 DEF Threads
    <3>4. Route(r)
      BY <2>1, <3>3 DEF Route, Toggles, AllOps, StartOps
    <3>5. Way(q, r)
      BY <2>1, <3>3 DEF Way, Inside, StartOps
    <3> QED
      BY <1>d, <2>1, <2>3, <3>2, <3>3, <3>4, <3>5
  <2> QED
    BY <1>3, <2>2, <2>3 DEF Look
<1>4. CASE Serialize(t)
  <2>1. q \in Threads /\ Route(q) /\ q.pc = "wait"
    BY <1>0, <1>4 DEF Serialize, At
  <2> DEFINE pc == IF Starts(t) /\ Project(t) \notin dir THEN "end"
                   ELSE IF q.op \in {"start", "start-all"} THEN "role" ELSE "list"
  <2>2. \/ q.op \in StartOps /\ pc = "end"
        \/ q.op \in {"start", "start-all"} /\ pc = "role"
        \/ q.op \notin {"start", "start-all"} /\ pc = "list"
    BY DEF Starts, StartOps
  <2>a. req' = [req EXCEPT ![t].pc = pc, ![t].roles = RoleOrder]
    BY <1>4 DEF Serialize
  <2> HIDE DEF pc
  <2>3. PICK r : r = [q EXCEPT !.pc = pc, !.roles = RoleOrder]
    OBVIOUS
  <2>4. req' = [req EXCEPT ![t] = r]
    BY <2>a, <2>3 DEF Routes
  <2>5. /\ r \in Threads /\ r.pc = pc /\ r.op = q.op /\ r.answer = q.answer
        /\ r.project = q.project /\ r.swept = q.swept /\ r.roles # <<>>
    BY <2>1, <2>2, <2>3, SessionConstants DEF Threads
  <2>6. Route(r)
    BY <2>1, <2>2, <2>5 DEF Route, Toggles, AllOps, StartOps
  <2>7. Way(q, r)
    BY <2>1, <2>2, <2>5 DEF Way, Inside, StartOps
  <2> QED
    BY <1>a, <1>c, <2>4, <2>5, <2>6, <2>7
<1>5. CASE List(t)
  <2>1. q \in Threads /\ Route(q) /\ q.pc = "list"
    BY <1>0, <1>5 DEF List, At
  <2> DEFINE left == IF orca THEN Listed(t) ELSE {}
             pc == IF orca THEN "close" ELSE IF q.op = "fresh" THEN "role" ELSE "end"
             failed == ~orca
  <2>4. left \in SUBSET (Members \X {1, 2}) /\ failed \in BOOLEAN
    BY DEF Listed
  <2>5. pc = "close" \/ (q.op = "fresh" /\ pc = "role") \/ (q.op # "fresh" /\ pc = "end")
    OBVIOUS
  <2>a. req' = [req EXCEPT ![t].left = left, ![t].pc = pc, ![t].failed = failed]
    BY <1>5 DEF List
  <2> HIDE DEF left, pc, failed
  <2>2. PICK r : r = [q EXCEPT !.left = left, !.pc = pc, !.failed = failed]
    OBVIOUS
  <2>3. req' = [req EXCEPT ![t] = r]
    BY <2>a, <2>2 DEF Routes
  <2>6. /\ r \in Threads /\ r.pc = pc /\ r.op = q.op /\ r.answer = q.answer
        /\ r.project = q.project /\ r.swept = q.swept /\ r.roles = q.roles
    BY <2>1, <2>2, <2>4, <2>5 DEF Threads
  <2>7. Route(r)
    BY <2>1, <2>5, <2>6 DEF Route, Toggles, AllOps, StartOps
  <2>8. Way(q, r)
    BY <2>1, <2>5, <2>6 DEF Way, Inside, StartOps
  <2> QED
    BY <1>a, <1>c, <2>3, <2>6, <2>7, <2>8
<1>6. CASE Close(t)
  <2>1. q \in Threads /\ Route(q) /\ q.pc = "close"
    BY <1>0, <1>6 DEF Close, At
  <2>2. PICK x \in q.left :
          \/ req' = [req EXCEPT ![t].left = @ \ {x}]
          \/ req' = [req EXCEPT ![t].left = @ \ {x}, ![t].failed = TRUE,
                                ![t].pc = AfterRefusal(t)]
    BY <1>6 DEF Close
  <2>3. PICK r : /\ req' = [req EXCEPT ![t] = r]
                 /\ \/ r = [q EXCEPT !.left = q.left \ {x}]
                    \/ r = [q EXCEPT !.left = q.left \ {x}, !.failed = TRUE,
                                     !.pc = AfterRefusal(t)]
    BY <2>2 DEF Routes
  <2>4. AfterRefusal(t) = "close" \/ (q.op = "shutdown" /\ AfterRefusal(t) = "end")
    BY DEF AfterRefusal
  <2>5. /\ r \in Threads /\ r.op = q.op /\ r.answer = q.answer
        /\ r.project = q.project /\ r.swept = q.swept /\ r.roles = q.roles
        /\ r.pc = "close" \/ (q.op = "shutdown" /\ r.pc = "end")
    BY <2>1, <2>3, <2>4 DEF Threads
  <2>6. Route(r)
    BY <2>1, <2>5 DEF Route, Toggles, AllOps, StartOps
  <2>7. Way(q, r)
    BY <2>1, <2>5 DEF Way, Inside, StartOps
  <2> QED
    BY <1>a, <1>c, <2>3, <2>5, <2>6, <2>7
<1>7. CASE Closed(t)
  <2>1. q \in Threads /\ Route(q) /\ q.pc = "close"
    BY <1>0, <1>7 DEF Closed, At
  <2>2. PICK r : r = [q EXCEPT !.pc = "kill"]
    OBVIOUS
  <2>3. /\ r \in Threads /\ r.pc = "kill" /\ r.op = q.op /\ r.answer = q.answer
        /\ r.project = q.project /\ r.swept = q.swept /\ r.roles = q.roles
    BY <2>1, <2>2 DEF Threads
  <2>4. Route(r)
    BY <2>1, <2>3 DEF Route, Toggles, AllOps, StartOps
  <2>5. Way(q, r)
    BY <2>1, <2>3 DEF Way, Inside, StartOps
  <2> QED
    BY <1>7, <1>d, <2>1, <2>2, <2>3, <2>4, <2>5 DEF Closed
<1>8. CASE Kill(t)
  <2>1. q \in Threads /\ Route(q) /\ q.pc = "kill"
    BY <1>0, <1>8 DEF Kill, At
  <2>2. PICK r : r = [q EXCEPT !.pc = AfterKill(t), !.swept = TRUE]
    OBVIOUS
  <2>3. req' = [req EXCEPT ![t] = r]
    BY <1>8, <2>2 DEF Kill, Routes
  <2>4. \/ q.op \in {"shutdown", "delete"} /\ AfterKill(t) \in {"remove", "end"}
        \/ q.op = "fresh" /\ AfterKill(t) = "role"
        \/ q.op \notin {"shutdown", "delete", "fresh"} /\ AfterKill(t) = "end"
    BY DEF AfterKill
  <2>5. /\ r \in Threads /\ r.pc = AfterKill(t) /\ r.op = q.op /\ r.answer = q.answer
        /\ r.project = q.project /\ r.roles = q.roles
    BY <2>1, <2>2, <2>4 DEF Threads
  <2>6. Route(r)
    BY <2>1, <2>4, <2>5 DEF Route, Toggles, AllOps, StartOps
  <2>7. Way(q, r)
    BY <2>1, <2>4, <2>5 DEF Way, Inside, StartOps
  <2> QED
    BY <1>a, <1>c, <2>3, <2>5, <2>6, <2>7
<1>9. CASE Remove(t)
  <2>1. q \in Threads /\ Route(q) /\ q.pc = "remove"
    BY <1>0, <1>9 DEF Remove, At
  <2>2. PICK r : r = [q EXCEPT !.pc = "end"]
    OBVIOUS
  <2>3. /\ r \in Threads /\ r.pc = "end" /\ r.op = q.op /\ r.answer = q.answer
        /\ r.project = q.project /\ r.swept = q.swept /\ r.roles = q.roles
    BY <2>1, <2>2 DEF Threads
  <2>4. Route(r)
    BY <2>1, <2>3 DEF Route, Toggles, AllOps, StartOps
  <2>5. Way(q, r)
    BY <2>1, <2>3 DEF Way, Inside, StartOps
  <2> QED
    BY <1>9, <1>d, <2>1, <2>2, <2>3, <2>4, <2>5 DEF Remove
<1>e. ASSUME q.pc \in {"role", "create"}, NextRole(t) = req' \/ req' = NextRole(t)
      PROVE  \E x : Turn(t, x) /\ Way(req[t], x)
  <2>1. q \in Threads /\ Route(q) /\ q.roles # <<>>
    BY <1>0, <1>e DEF Route
  <2>2. PICK pc : /\ pc = IF Len(q.roles) = 1 THEN "end" ELSE "role"
    OBVIOUS
  <2>3. PICK r : r = [q EXCEPT !.roles = Tail(q.roles), !.pc = pc]
    OBVIOUS
  <2>4. req' = [req EXCEPT ![t] = r]
    BY <1>e, <2>2, <2>3 DEF NextRole, Routes
  <2>a. q.roles \in Seq(Roles)
    BY <2>1 DEF Threads
  <2>5. Tail(q.roles) \in Seq(Roles) /\ (Tail(q.roles) # <<>> \/ pc = "end")
    <3>1. Len(q.roles) \in Nat \ {0} /\ Tail(q.roles) \in Seq(Roles)
          /\ Len(Tail(q.roles)) = Len(q.roles) - 1
      BY <2>1, <2>a
    <3>2. Len(q.roles) # 1 => Len(Tail(q.roles)) # 0
      BY <3>1
    <3>3. Len(<<>>) = 0
      OBVIOUS
    <3> QED
      BY ONLY <2>2, <3>1, <3>2, <3>3
  <2>6. /\ r \in Threads /\ r.pc = pc /\ r.op = q.op /\ r.answer = q.answer
        /\ r.project = q.project /\ r.swept = q.swept /\ r.roles = Tail(q.roles)
    BY <2>1, <2>2, <2>3, <2>5 DEF Threads
  <2>7. Route(r)
    BY <1>e, <2>1, <2>2, <2>5, <2>6 DEF Route, Toggles, AllOps, StartOps
  <2>8. Way(q, r)
    BY <1>e, <2>1, <2>2, <2>6 DEF Way, Inside, StartOps
  <2> QED
    BY <1>a, <1>c, <2>4, <2>6, <2>7, <2>8
<1>f. ASSUME q.pc \in {"role", "create"}, NEW pc \in {"create", "end"}, Goto(t, pc)
      PROVE  \E x : Turn(t, x) /\ Way(req[t], x)
  <2>1. q \in Threads /\ Route(q)
    BY <1>0, <1>f
  <2>2. PICK r : r = [q EXCEPT !.pc = pc]
    OBVIOUS
  <2>3. /\ r \in Threads /\ r.pc = pc /\ r.op = q.op /\ r.answer = q.answer
        /\ r.project = q.project /\ r.swept = q.swept /\ r.roles = q.roles
    BY <1>f, <2>1, <2>2 DEF Threads
  <2>4. Route(r)
    BY <1>f, <2>1, <2>3 DEF Route, Toggles, AllOps, StartOps
  <2>5. Way(q, r)
    BY <1>f, <2>1, <2>3 DEF Way, Inside, StartOps
  <2> QED
    BY <1>d, <1>f, <2>1, <2>2, <2>3, <2>4, <2>5
<1>10. CASE LookUp(t)
  BY <1>10, <1>e, <1>f DEF LookUp, At
<1>11. CASE Create(t)
  BY <1>11, <1>e, <1>f DEF Create, At
<1>12. CASE End(t)
  <2>1. q \in Threads /\ Route(q) /\ q.pc = "end"
    BY <1>0, <1>12 DEF End, At
  <2>2. CASE Leave(t, "ok") \/ Leave(t, "failed")
    BY <1>b, <2>1, <2>2 DEF Answers, Inside
  <2>3. CASE q.op \notin {"shutdown", "delete"} /\ Goto(t, "settle")
    <3>2. PICK r : r = [q EXCEPT !.pc = "settle"]
      OBVIOUS
    <3>3. /\ r \in Threads /\ r.pc = "settle" /\ r.op = q.op /\ r.answer = q.answer
          /\ r.project = q.project /\ r.swept = q.swept
      BY <2>1, <3>2 DEF Threads
    <3>4. Route(r)
      BY <2>1, <2>3, <3>3 DEF Route, Toggles, AllOps, StartOps
    <3>5. Way(q, r)
      BY <2>1, <3>3 DEF Way, Inside, StartOps
    <3> QED
      BY <1>d, <2>1, <2>3, <3>2, <3>3, <3>4, <3>5
  <2>4. Leave(t, "ok") \/ Leave(t, "failed") \/
          (q.op \notin {"shutdown", "delete"} /\ Goto(t, "settle"))
    <3>1. CASE q.op = "shutdown"
      BY <1>12, <3>1 DEF End
    <3>2. CASE q.op = "delete"
      <4>1. Leave(t, IF Project(t) \in dir THEN "failed" ELSE "ok")
        BY <1>12, <3>2 DEF End
      <4> QED
        BY <4>1
    <3>3. CASE q.op \notin {"shutdown", "delete"}
      BY <1>12, <3>3 DEF End
    <3> QED
      BY <3>1, <3>2, <3>3
  <2> QED
    BY <2>2, <2>3, <2>4
<1>13. CASE Settle(t)
  <2>1. q.pc = "settle"
    BY <1>13 DEF Settle, At
  <2>2. \E ok \in BOOLEAN : Leave(t, IF ok THEN "ok" ELSE "failed")
    BY <1>13 DEF Settle, Ready, Active
  <2>3. Leave(t, "ok") \/ Leave(t, "failed")
    BY <2>2
  <2> QED
    BY <1>b, <2>1, <2>3 DEF Answers, Inside
<1>14. CASE Toggle(t)
  <2>1. q.pc = "toggle"
    BY <1>14 DEF Toggle, At
  <2>2. q \in Threads /\ Route(q)
    BY <1>0, <2>1
  <2>3. CASE Leave(t, "failed")
    BY <1>b, <2>1, <2>3 DEF Answers, Inside
  <2>4. CASE \E blind \in SUBSET {"docker", "ss", "mock"} :
               LET next == Toggled(q.op, Project(t), blind) IN
                 /\ next # "refused"
                 /\ req' = [req EXCEPT ![t].pc = next, ![t].failed = blind # {}]
    <3>1. PICK next, failed : /\ req' = [req EXCEPT ![t].pc = next, ![t].failed = failed]
                              /\ next \in {"devup", "devdown", "dockerup", "dockerdown"}
                              /\ failed \in BOOLEAN
      <4>1. \A blind : Toggled(q.op, Project(t), blind) \in
              {"refused", "devup", "devdown", "dockerup", "dockerdown"}
        BY DEF Toggled
      <4>2. PICK blind : LET next == Toggled(q.op, Project(t), blind) IN
                           /\ next # "refused"
                           /\ req' = [req EXCEPT ![t].pc = next, ![t].failed = blind # {}]
        BY <2>4
      <4>3. (blind # {}) \in BOOLEAN
        OBVIOUS
      <4> QED
        BY <4>1, <4>2, <4>3
    <3>2. PICK r : r = [q EXCEPT !.pc = next, !.failed = failed]
      OBVIOUS
    <3>3. req' = [req EXCEPT ![t] = r]
      BY <3>1, <3>2 DEF Routes
    <3>4. /\ r \in Threads /\ r.pc = next /\ r.op = q.op /\ r.answer = q.answer
          /\ r.project = q.project /\ r.swept = q.swept
      BY <2>2, <3>1, <3>2 DEF Threads
    <3>5. Route(r)
      BY <2>1, <2>2, <3>1, <3>4 DEF Route, Toggles, AllOps, StartOps
    <3>6. Way(q, r)
      BY <2>1, <3>1, <3>4 DEF Way, Inside, StartOps
    <3> QED
      BY <1>a, <1>c, <3>3, <3>4, <3>5, <3>6
  <2> QED
    BY <1>14, <2>3, <2>4 DEF Toggle
<1>15. CASE DevDone(t)
  <2>1. q.pc \in {"devup", "devdown"} /\ (Leave(t, "ok") \/ Leave(t, "failed"))
    BY <1>15 DEF DevDone, At
  <2> QED
    BY <1>b, <2>1 DEF Answers, Inside
<1>16. CASE DockerDone(t)
  <2>1. q.pc \in {"dockerup", "dockerdown"} /\ (Leave(t, "ok") \/ Leave(t, "failed"))
    BY <1>16 DEF DockerDone, At
  <2> QED
    BY <1>b, <2>1 DEF Answers, Inside
<1>17. CASE Cut(t)
  <2>1. q \in Threads /\ Route(q) /\ q.pc \in Inside
    BY <1>0, <1>17 DEF Cut, InScript, Inside
  <2>2. PICK r : r = [q EXCEPT !.pc = "done", !.answer = "cut"]
    OBVIOUS
  <2>3. req' = [req EXCEPT ![t] = r]
    BY <1>17, <2>2 DEF Cut, Routes
  <2>4. /\ r \in Threads /\ r.pc = "done" /\ r.op = q.op /\ r.answer = "cut"
        /\ r.project = q.project /\ r.swept = q.swept
    BY <2>1, <2>2 DEF Threads, Answers
  <2>5. Route(r)
    BY <2>1, <2>4 DEF Route, Toggles, AllOps, StartOps
  <2>6. Way(q, r)
    BY <2>1, <2>4 DEF Way, Inside, StartOps
  <2> QED
    BY <1>a, <1>c, <2>3, <2>4, <2>5, <2>6
<1> QED
  BY <1>1, <1>2, <1>3, <1>4, <1>5, <1>6, <1>7, <1>8, <1>9, <1>10, <1>11, <1>12, <1>13,
     <1>14, <1>15, <1>16, <1>17 DEF Step

(* A new request starts outside of every project.                          *)
LEMMA AskTurns ==
  ASSUME Routes, World, NEW t \in Requests, \E op \in Ops : Ask(t, op)
  PROVE  \E r : /\ Turn(t, r) /\ req[t] = NotAsked
                /\ r.answer = "none" /\ r.swept = FALSE
                /\ r.pc \in {"next", "hold"} \/ (r.op = "shutdown" /\ r.pc = "list")
<1> PICK op \in Ops : Ask(t, op)
  OBVIOUS
<1> DEFINE todo == IF op \in AllOps THEN dir ELSE {}
           pc == CASE op \in AllOps -> "next" [] op = "shutdown" -> "list"
                   [] OTHER -> "hold"
<1>0. /\ todo \in SUBSET Projects
      /\ \/ op \in AllOps /\ pc = "next"
         \/ op = "shutdown" /\ pc = "list"
         \/ op \notin AllOps \cup {"shutdown"} /\ pc = "hold"
  BY DEF World, AllOps
<1>1. PICK p \in Projects : req' = [req EXCEPT ![t] =
             [op |-> op, project |-> p, todo |-> todo, pc |-> pc, left |-> {},
              roles |-> <<>>, failed |-> FALSE, swept |-> FALSE, answer |-> "none"]]
  BY DEF Ask
<1> HIDE DEF todo, pc
<1>2. PICK r : r = [op |-> op, project |-> p, todo |-> todo, pc |-> pc, left |-> {},
              roles |-> <<>>, failed |-> FALSE, swept |-> FALSE, answer |-> "none"]
  OBVIOUS
<1>3. r \in Threads /\ r.pc = pc /\ r.op = op /\ r.answer = "none" /\ r.swept = FALSE
  BY <1>0, <1>1, <1>2 DEF Threads, Answers
<1>4. Route(r)
  BY <1>0, <1>3 DEF Route, Toggles, AllOps, StartOps
<1>5. r # NotAsked
  BY <1>0, <1>3 DEF NotAsked
<1> QED
  BY <1>0, <1>1, <1>2, <1>3, <1>4, <1>5 DEF Turn, Ask

(* The member a start is at is one.                                        *)
LEMMA StartsMember ==
  ASSUME Routes, NEW t \in Requests, req[t].pc \in {"role", "create"}
  PROVE  Member(t) \in Members /\ Starts(t) /\ Project(t) \in Projects
         /\ Member(t)[1] = Project(t)
<1>1. req[t] \in Threads /\ req[t].op \in StartOps /\ req[t].roles # <<>>
  BY Asked DEF Route
<1>2. req[t].roles \in Seq(Roles) /\ req[t].project \in Projects
  BY <1>1 DEF Threads
<1>3. Head(req[t].roles) \in Roles
  BY <1>1, <1>2
<1> QED
  BY <1>1, <1>2, <1>3 DEF Member, Members, Project, Starts, StartOps

(* A request that was made names a project.                                *)
LEMMA ProjectOf ==
  ASSUME Routes, NEW t \in Requests, req[t].pc # "idle"
  PROVE  Project(t) \in Projects
  BY Asked DEF Threads, Project

(* A keeper comes up only where a start is at its member, or a tab comes   *)
(* late.                                                                   *)
LEMMA KeeperMoves ==
  ASSUME Routes, World, Next
  PROVE  /\ keeper' \in [Members -> {"none", "booting", "up"}]
         /\ \A pr \in Members :
              \/ keeper'[pr] \in {"none", keeper[pr]}
              \/ keeper[pr] = "booting" /\ keeper'[pr] = "up"
              \/ /\ keeper[pr] = "none"
                 /\ pr \in late \/ \E t \in Requests : /\ req[t].pc \in {"role", "create"}
                                                      /\ pr = Member(t)
<1> DEFINE Goal ==
         /\ keeper' \in [Members -> {"none", "booting", "up"}]
         /\ \A pr \in Members :
              \/ keeper'[pr] \in {"none", keeper[pr]}
              \/ keeper[pr] = "booting" /\ keeper'[pr] = "up"
              \/ /\ keeper[pr] = "none"
                 /\ pr \in late \/ \E t \in Requests : /\ req[t].pc \in {"role", "create"}
                                                      /\ pr = Member(t)
<1>0. keeper \in [Members -> {"none", "booting", "up"}]
  BY DEF World
<1>1. CASE keeper' = keeper
  BY <1>0, <1>1
<1>2. ASSUME NEW t \in Requests, Close(t) PROVE Goal
  <2>1. keeper' = keeper \/ \E pr \in Members : keeper' = [keeper EXCEPT ![pr] =
          IF keeper[pr] = "booting" /\ tabs[pr] = 1 THEN "none" ELSE keeper[pr]]
    <3>1. req[t].left \subseteq Members \X {1, 2}
      BY <1>2, Asked DEF Close, At, Threads
    <3> QED
      BY <1>2, <3>1 DEF Close, CloseTab
  <2> QED
    BY <1>0, <2>1
<1>3. ASSUME NEW t \in Requests, Kill(t) PROVE Goal
  BY <1>0, <1>3 DEF Kill, Killed
<1>4. ASSUME NEW t \in Requests, Remove(t) PROVE Goal
  BY <1>0, <1>4 DEF Remove
<1>5. ASSUME NEW t \in Requests, LookUp(t) \/ Create(t) PROVE Goal
  <2>1. req[t].pc \in {"role", "create"} /\ Member(t) \in Members
    BY <1>5, StartsMember DEF LookUp, Create, At
  <2>2. keeper' = keeper \/ keeper' = Booted(Member(t))
    BY <1>5 DEF LookUp, Create
  <2> QED
    BY <1>0, <2>1, <2>2 DEF Booted
<1>6. ASSUME NEW pr \in Members, SocketAppears(pr) PROVE Goal
  BY <1>0, <1>6 DEF SocketAppears
<1>7. ASSUME NEW pr \in Members, AgentDies(pr) PROVE Goal
  BY <1>0, <1>7 DEF AgentDies
<1>8. ASSUME NEW pr \in Members, LateTab(pr) PROVE Goal
  BY <1>0, <1>8 DEF LateTab, Booted
<1>9. ASSUME NEW t \in Requests, Step(t), ~Close(t), ~Kill(t), ~Remove(t), ~LookUp(t),
             ~Create(t)
      PROVE  keeper' = keeper
  BY <1>9 DEF Step, NextProject, Hold, Look, Serialize, List, Closed, End,
     Settle, Toggle, DevDone, DockerDone, agents
<1>10. ASSUME NEW t \in Requests, Cut(t) \/ \E op \in Ops : Ask(t, op) 
       PROVE  keeper' = keeper
  BY <1>10 DEF Cut, Ask, agents
<1>11. CASE OrcaFalters \/ PollOrAge \/ \E p \in Projects : BuildEnds(p)
  BY <1>1, <1>11 DEF OrcaFalters, PollOrAge, BuildEnds, agents
<1> QED
  BY <1>1, <1>2, <1>3, <1>4, <1>5, <1>6, <1>7, <1>8, <1>9, <1>10, <1>11 DEF Next

(* Only a cut creation may come late.                                      *)
LEMMA LateMoves ==
  ASSUME Routes, World, Next
  PROVE  /\ late' \subseteq Members
         /\ late' \subseteq late \/ ~NoneCut'
<1>0. late \subseteq Members
  BY DEF World
<1>1. ASSUME NEW t \in Requests, Cut(t)
      PROVE  late' \subseteq Members /\ (late' \subseteq late \/ ~NoneCut')
  <2>1. CASE late' = late
    BY <1>0, <2>1
  <2>2. CASE late' = late \cup {Member(t)} /\ At(t, "create")
    <3>1. Member(t) \in Members /\ Starts(t)
      BY <2>2, StartsMember DEF At
    <3>2. req'[t].op = req[t].op /\ req'[t].answer = "cut"
      <4>1. req[t] \in Threads
        BY <2>2, Asked DEF At
      <4> QED
        BY <1>1, <4>1 DEF Cut, Routes, Threads
    <3> QED
      BY <1>0, <2>2, <3>1, <3>2 DEF NoneCut, Starts
  <2> QED
    BY <1>1, <2>1, <2>2 DEF Cut
<1>2. ASSUME NEW pr \in Members, LateTab(pr) PROVE late' \subseteq late
  BY <1>2 DEF LateTab
<1>3. ASSUME NEW t \in Requests, Step(t) PROVE late' = late
  BY <1>3 DEF Step, NextProject, Hold, Look, Serialize, List, Close,
     Closed, Kill, Remove, LookUp, Create, End, Settle, Toggle, DevDone,
     DockerDone, agents
<1>4. ASSUME NEW t \in Requests, NEW op \in Ops, Ask(t, op) PROVE late' = late
  BY <1>4 DEF Ask, agents
<1>5. ASSUME NEW pr \in Members, SocketAppears(pr) \/ AgentDies(pr) PROVE late' = late
  BY <1>5 DEF SocketAppears, AgentDies
<1>6. CASE OrcaFalters \/ PollOrAge \/ \E p \in Projects : BuildEnds(p)
  BY <1>0, <1>6 DEF OrcaFalters, PollOrAge, BuildEnds, agents
<1> QED
  BY <1>0, <1>1, <1>2, <1>3, <1>4, <1>5, <1>6 DEF Next

(* A directory goes only with its agents, by a delete that owns it.        *)
LEMMA DirMoves ==
  ASSUME Routes, World, Next
  PROVE  /\ dir' \subseteq dir
         /\ \A p \in dir \ dir' : \E t \in Requests :
              /\ req[t].op = "delete" /\ req[t].pc = "remove" /\ Project(t) = p
              /\ \A r \in Roles : keeper'[<<p, r>>] = "none"
<1>1. ASSUME NEW t \in Requests, Remove(t)
      PROVE  /\ dir' \subseteq dir
             /\ \A p \in dir \ dir' :
                  /\ req[t].op = "delete" /\ req[t].pc = "remove" /\ Project(t) = p
                  /\ \A r \in Roles : keeper'[<<p, r>>] = "none"
  BY <1>1 DEF Remove, At, Members, World
<1>2. ASSUME NEW t \in Requests, Step(t), ~Remove(t) PROVE dir' = dir
  BY <1>2 DEF Step, NextProject, Hold, Look, Serialize, List, Close,
     Closed, Kill, LookUp, Create, End, Settle, Toggle, DevDone,
     DockerDone, agents
<1>3. ASSUME NEW t \in Requests, Cut(t) \/ \E op \in Ops : Ask(t, op) PROVE dir' = dir
  BY <1>3 DEF Cut, Ask, agents
<1>4. ASSUME NEW pr \in Members, SocketAppears(pr) \/ AgentDies(pr) \/ LateTab(pr)
      PROVE  dir' = dir
  BY <1>4 DEF SocketAppears, AgentDies, LateTab
<1>5. CASE OrcaFalters \/ PollOrAge \/ \E p \in Projects : BuildEnds(p)
  BY <1>5 DEF OrcaFalters, PollOrAge, BuildEnds, agents
<1> QED
  BY <1>1, <1>2, <1>3, <1>4, <1>5 DEF Next

(* Dev servers come up only by a dev toggle that owns the project.         *)
LEMMA ListenerMoves ==
  ASSUME Routes, World, Next
  PROVE  /\ listener' \in [Projects -> {"free", "mock", "dev", "docker"}]
         /\ \A p \in Projects : listener'[p] = "dev" =>
              listener[p] = "dev" \/ \E t \in Requests : At(t, "devup") /\ Project(t) = p
<1> DEFINE Goal ==
         /\ listener' \in [Projects -> {"free", "mock", "dev", "docker"}]
         /\ \A p \in Projects : listener'[p] = "dev" =>
              listener[p] = "dev" \/ \E t \in Requests : At(t, "devup") /\ Project(t) = p
<1>0. listener \in [Projects -> {"free", "mock", "dev", "docker"}]
  BY DEF World
<1>1. CASE listener' = listener
  BY <1>0, <1>1
<1>2. ASSUME NEW t \in Requests, Remove(t) PROVE Goal
  BY <1>0, <1>2 DEF Remove
<1>3. ASSUME NEW t \in Requests, DevDone(t) PROVE Goal
  <2>1. Project(t) \in Projects
    BY <1>3, ProjectOf DEF DevDone, At
  <2>2. \/ listener' = listener
        \/ listener' = [listener EXCEPT ![Project(t)] = "dev"] /\ At(t, "devup")
        \/ listener' = [listener EXCEPT ![Project(t)] = "free"]
    BY <1>3 DEF DevDone
  <2> QED
    BY <1>0, <2>1, <2>2
<1>4. ASSUME NEW t \in Requests, DockerDone(t) PROVE Goal
  BY <1>0, <1>4 DEF DockerDone, servers
<1>5. ASSUME NEW p \in Projects, BuildEnds(p) PROVE Goal
  BY <1>0, <1>5 DEF BuildEnds
<1>6. ASSUME NEW t \in Requests, Step(t), ~Remove(t), ~DevDone(t), ~DockerDone(t)
      PROVE  listener' = listener
  BY <1>6 DEF Step, NextProject, Hold, Look, Serialize, List, Close,
     Closed, Kill, LookUp, Create, End, Settle, Toggle, servers
<1>7. ASSUME NEW t \in Requests, Cut(t) \/ \E op \in Ops : Ask(t, op)
      PROVE  listener' = listener
  BY <1>7 DEF Cut, Ask, servers
<1>8. ASSUME NEW pr \in Members, SocketAppears(pr) \/ AgentDies(pr) \/ LateTab(pr)
      PROVE  listener' = listener
  BY <1>8 DEF SocketAppears, AgentDies, LateTab, servers
<1>9. CASE OrcaFalters \/ PollOrAge
  BY <1>1, <1>9 DEF OrcaFalters, PollOrAge, servers
<1> QED
  BY <1>1, <1>2, <1>3, <1>4, <1>5, <1>6, <1>7, <1>8, <1>9 DEF Next

(* Building, and the rest of the world.                                    *)
LEMMA WorldStep ==
  ASSUME Routes, World, Next
  PROVE  World'
<1>1. building' \subseteq Projects
  <2>1. ASSUME NEW t \in Requests, DockerDone(t) PROVE building' \subseteq Projects
    BY <2>1, ProjectOf DEF DockerDone, At, World, servers
  <2>2. ASSUME NEW t \in Requests, Step(t), ~DockerDone(t) PROVE building' \subseteq building
    BY <2>2 DEF Step, NextProject, Hold, Look, Serialize, List, Close,
       Closed, Kill, Remove, LookUp, Create, End, Settle, Toggle,
       DevDone, servers
  <2>3. ASSUME NEW t \in Requests, Cut(t) \/ \E op \in Ops : Ask(t, op)
        PROVE  building' = building
    BY <2>3 DEF Cut, Ask, servers
  <2>4. ASSUME NEW pr \in Members, SocketAppears(pr) \/ AgentDies(pr) \/ LateTab(pr)
        PROVE  building' = building
    BY <2>4 DEF SocketAppears, AgentDies, LateTab, servers
  <2>5. CASE OrcaFalters \/ PollOrAge \/ \E p \in Projects : BuildEnds(p)
    BY <2>5 DEF OrcaFalters, PollOrAge, BuildEnds, servers, World
  <2> QED
    BY <2>1, <2>2, <2>3, <2>4, <2>5 DEF Next, World
<1>2. /\ holder' \in [Projects -> Requests \cup {Nobody}]
      /\ session' \in Requests \cup {Nobody}
  <2>1. ASSUME NEW t \in Requests, Step(t) \/ Cut(t)
        PROVE  holder' \in [Projects -> Requests \cup {Nobody}]
    <3>1. \/ holder' = holder
          \/ \E x \in Requests \cup {Nobody} : holder' = [holder EXCEPT ![Project(t)] = x]
          \/ holder' = [p \in Projects |-> IF holder[p] = t THEN Nobody ELSE holder[p]]
      BY <2>1 DEF Step, NextProject, Hold, Look, Serialize, List, Close,
         Closed, Kill, Remove, LookUp, Create, End, Settle, Toggle,
         DevDone, DockerDone, Cut, Unlock, locks
    <3> QED
      BY <3>1 DEF World
  <2>2. ASSUME NEW t \in Requests, Step(t) \/ Cut(t) PROVE session' \in {session, t, Nobody}
    BY <2>2 DEF Step, NextProject, Hold, Look, Serialize, List, Close,
       Closed, Kill, Remove, LookUp, Create, End, Settle, Toggle,
       DevDone, DockerDone, Cut, Release, locks
  <2>3. ASSUME NEW t \in Requests, NEW op \in Ops, Ask(t, op) PROVE UNCHANGED locks
    BY <2>3 DEF Ask
  <2>4. ASSUME NEW pr \in Members, SocketAppears(pr) \/ AgentDies(pr) \/ LateTab(pr)
        PROVE  UNCHANGED locks
    BY <2>4 DEF SocketAppears, AgentDies, LateTab
  <2>5. CASE OrcaFalters \/ PollOrAge \/ \E p \in Projects : BuildEnds(p)
    BY <2>5 DEF OrcaFalters, PollOrAge, BuildEnds, locks, World
  <2> QED
    BY <2>1, <2>2, <2>3, <2>4, <2>5 DEF Next, World, locks
<1> QED
  BY <1>1, <1>2, KeeperMoves, LateMoves, DirMoves, ListenerMoves DEF World

(* The snapshot and whether Orca answers keep their types.                 *)
LEMMA LooksStep ==
  ASSUME Looks, World, Next
  PROVE  Looks'
<1>1. Snapshot \in [alive : SUBSET Members, fresh : BOOLEAN]
      /\ Stale(cache) \in [alive : SUBSET Members, fresh : BOOLEAN]
  BY DEF Looks, Snapshot, Alive, Stale
<1>2. cache' \in {cache, Snapshot, Stale(cache)}
  <2>1. ASSUME NEW t \in Requests, Step(t) \/ Cut(t) \/ \E op \in Ops : Ask(t, op)
        PROVE  cache' \in {cache, Snapshot, Stale(cache)}
    BY <2>1 DEF Step, NextProject, Hold, Look, Serialize, List, Close,
       Closed, Kill, Remove, LookUp, Create, End, Settle, Toggle,
       DevDone, DockerDone, Cut, Ask
  <2>2. ASSUME NEW pr \in Members, SocketAppears(pr) \/ AgentDies(pr) \/ LateTab(pr)
        PROVE  cache' = cache
    BY <2>2 DEF SocketAppears, AgentDies, LateTab
  <2>3. CASE OrcaFalters \/ PollOrAge \/ \E p \in Projects : BuildEnds(p)
    BY <2>3 DEF OrcaFalters, PollOrAge, BuildEnds
  <2> QED
    BY <2>1, <2>2, <2>3 DEF Next
<1>3. orca' = orca \/ orca' = ~orca
  <2>1. ASSUME NEW t \in Requests, Step(t) \/ Cut(t) \/ \E op \in Ops : Ask(t, op)
        PROVE  orca' = orca
    BY <2>1 DEF Step, NextProject, Hold, Look, Serialize, List, Close,
       Closed, Kill, Remove, LookUp, Create, End, Settle, Toggle,
       DevDone, DockerDone, Cut, Ask, agents
  <2>2. ASSUME NEW pr \in Members, SocketAppears(pr) \/ AgentDies(pr) \/ LateTab(pr)
        PROVE  orca' = orca
    BY <2>2 DEF SocketAppears, AgentDies, LateTab
  <2>3. CASE PollOrAge \/ \E p \in Projects : BuildEnds(p)
    BY <2>3 DEF PollOrAge, BuildEnds, agents
  <2>4. CASE OrcaFalters
    BY <2>4 DEF OrcaFalters
  <2> QED
    BY <2>1, <2>2, <2>3, <2>4 DEF Next
<1>4. orca' \in BOOLEAN
  BY <1>3 DEF Looks
<1> QED
  BY <1>1, <1>2, <1>4 DEF Looks

(* A member never has more than two tabs, or fewer than none.              *)
LEMMA TabsStep ==
  ASSUME Routes, World, Tabs, Next
  PROVE  Tabs'
<1>1. faults' \in 0..MaxFaults
  <2>1. faults' = faults \/ OneMoreFault
    <3>1. ASSUME NEW t \in Requests, Step(t) \/ Cut(t) \/ \E op \in Ops : Ask(t, op)
          PROVE  faults' = faults \/ OneMoreFault
      BY <3>1 DEF Step, NextProject, Hold, Look, Serialize, List, Close,
         Closed, Kill, Remove, LookUp, Create, End, Settle, Toggle,
         DevDone, DockerDone, Cut, Ask
    <3>2. ASSUME NEW pr \in Members, SocketAppears(pr) \/ AgentDies(pr) \/ LateTab(pr)
          PROVE  faults' = faults \/ OneMoreFault
      BY <3>2 DEF SocketAppears, AgentDies, LateTab
    <3>3. CASE OrcaFalters \/ PollOrAge \/ \E p \in Projects : BuildEnds(p)
      BY <3>3 DEF OrcaFalters, PollOrAge, BuildEnds
    <3> QED
      BY <3>1, <3>2, <3>3 DEF Next
  <2> QED
    BY <2>1, SessionConstants DEF Tabs, OneMoreFault
<1>2. ASSUME tabs' = tabs PROVE tabs' \in [Members -> 0..2]
  BY <1>2 DEF Tabs
<1>3. ASSUME NEW pr \in Members, tabs[pr] < 2, tabs' = [tabs EXCEPT ![pr] = @ + 1]
      PROVE  tabs' \in [Members -> 0..2]
  BY <1>3 DEF Tabs
<1>4. ASSUME NEW t \in Requests, Close(t) PROVE tabs' \in [Members -> 0..2]
  <2>1. req[t].left \subseteq Members \X {1, 2}
    BY <1>4, Asked DEF Close, At, Threads
  <2>2. tabs' = tabs \/ \E pr \in Members : tabs[pr] > 0 /\ tabs' = [tabs EXCEPT ![pr] = @ - 1]
    BY <1>4, <2>1 DEF Close, CloseTab
  <2> QED
    BY <2>2 DEF Tabs
<1>5. ASSUME NEW t \in Requests, Kill(t) PROVE tabs' \in [Members -> 0..2]
  BY <1>5 DEF Kill, Retired, Tabs
<1>6. ASSUME NEW t \in Requests, Create(t) PROVE tabs' \in [Members -> 0..2]
  <2>1. Member(t) \in Members
    BY <1>6, StartsMember DEF Create, At
  <2> QED
    BY <1>2, <1>3, <1>6, <2>1 DEF Create
<1>7. ASSUME NEW t \in Requests, Step(t), ~Close(t), ~Kill(t), ~Create(t) 
      PROVE  tabs' = tabs
  BY <1>7 DEF Step, NextProject, Hold, Look, Serialize, List, Closed,
     Remove, LookUp, End, Settle, Toggle, DevDone, DockerDone, agents
<1>8. ASSUME NEW t \in Requests, Cut(t) \/ \E op \in Ops : Ask(t, op) PROVE tabs' = tabs
  BY <1>8 DEF Cut, Ask, agents
<1>9. ASSUME NEW pr \in Members, SocketAppears(pr) \/ AgentDies(pr) PROVE tabs' = tabs
  BY <1>9 DEF SocketAppears, AgentDies
<1>10. ASSUME NEW pr \in Members, LateTab(pr) PROVE tabs' \in [Members -> 0..2]
  BY <1>3, <1>10 DEF LateTab
<1>11. CASE OrcaFalters \/ PollOrAge \/ \E p \in Projects : BuildEnds(p)
  <2>1. tabs' = tabs
    BY <1>11 DEF OrcaFalters, PollOrAge, BuildEnds, agents
  <2> QED
    BY <1>1, <1>2, <2>1 DEF Tabs
<1> QED
  BY <1>1, <1>2, <1>4, <1>5, <1>6, <1>7, <1>8, <1>9, <1>10, <1>11 DEF Next, Tabs

(* One request moves at most.                                              *)
LEMMA Mover ==
  ASSUME Routes, World, Next
  PROVE  \/ req' = req /\ holder' = holder
         \/ \E t \in Requests : Step(t) \/ Cut(t)
         \/ \E t \in Requests : \E op \in Ops : Ask(t, op)
<1>1. ASSUME NEW pr \in Members, SocketAppears(pr) \/ AgentDies(pr) \/ LateTab(pr)
      PROVE  req' = req /\ holder' = holder
  BY <1>1 DEF SocketAppears, AgentDies, LateTab, locks
<1>2. CASE OrcaFalters \/ PollOrAge \/ \E p \in Projects : BuildEnds(p)
  BY <1>2 DEF OrcaFalters, PollOrAge, BuildEnds, locks
<1> QED
  BY <1>1, <1>2 DEF Next

(* What a step may make of any one request: it asks, goes its way or stays.*)
LEMMA Ways ==
  ASSUME Routes, World, Next, NEW t \in Requests
  PROVE  \/ req'[t] = req[t]
         \/ /\ Step(t) \/ Cut(t)
            /\ req[t] \in Threads /\ Route(req[t])
            /\ Route(req'[t]) /\ Way(req[t], req'[t])
         \/ /\ req[t] = NotAsked /\ req'[t].answer = "none" /\ req'[t].swept = FALSE
            /\ \/ req'[t].pc \in {"next", "hold"}
               \/ req'[t].op = "shutdown" /\ req'[t].pc = "list"
<1>1. CASE req' = req
  BY <1>1
<1>2. ASSUME NEW u \in Requests, Step(u) \/ Cut(u)
      PROVE  \/ req'[t] = req[t]
             \/ /\ Step(t) \/ Cut(t)
                /\ req[t] \in Threads /\ Route(req[t]) /\ Route(req'[t])
                /\ Way(req[t], req'[t])
  <2>1. PICK r : Turn(u, r) /\ Way(req[u], r)
    BY <1>2, Course
  <2>2. req'[u] = r /\ \A x \in Requests \ {u} : req'[x] = req[x]
    BY <2>1, Turned DEF Turn
  <2>3. req[u].pc # "idle"
    BY <1>2 DEF Step, NextProject, Hold, Look, Serialize, List, Close,
       Closed, Kill, Remove, LookUp, Create, End, Settle, Toggle,
       DevDone, DockerDone, Cut, InScript, At
  <2>4. req[u] \in Threads /\ Route(req[u])
    BY <2>3, Asked
  <2> QED
    BY <1>2, <2>1, <2>2, <2>4 DEF Turn
<1>3. ASSUME NEW u \in Requests, \E op \in Ops : Ask(u, op)
      PROVE  \/ req'[t] = req[t]
             \/ /\ req[t] = NotAsked /\ req'[t].answer = "none" /\ req'[t].swept = FALSE
                /\ \/ req'[t].pc \in {"next", "hold"}
                   \/ req'[t].op = "shutdown" /\ req'[t].pc = "list"
  <2>1. PICK r : /\ Turn(u, r) /\ req[u] = NotAsked
                 /\ r.answer = "none" /\ r.swept = FALSE
                 /\ r.pc \in {"next", "hold"} \/ (r.op = "shutdown" /\ r.pc = "list")
    BY <1>3, AskTurns
  <2>2. req'[u] = r /\ \A x \in Requests \ {u} : req'[x] = req[x]
    BY <2>1, Turned DEF Turn
  <2> QED
    BY <2>1, <2>2
<1> QED
  BY <1>1, <1>2, <1>3, Mover

(* Requests keep to their routes.                                          *)
LEMMA RoutesStep ==
  ASSUME Routes, World, Next
  PROVE  Routes'
<1>1. ASSUME NEW t \in Requests, Step(t) \/ Cut(t) PROVE Routes'
  BY <1>1, Course, Turned DEF Turn
<1>2. ASSUME NEW t \in Requests, \E op \in Ops : Ask(t, op) PROVE Routes'
  BY <1>2, AskTurns, Turned DEF Turn
<1> QED
  BY <1>1, <1>2, Mover DEF Routes

(* A cut start stays one.                                                  *)
LEMMA NoneCutBack ==
  ASSUME Routes, World, Next, NoneCut'
  PROVE  NoneCut
<1> SUFFICES ASSUME NEW u \in Requests, Starts(u), req[u].answer = "cut" PROVE FALSE
  BY DEF NoneCut
<1>1. ~(Starts(u)' /\ req'[u].answer = "cut")
  BY DEF NoneCut
<1>2. req[u] # NotAsked
  BY DEF Starts, NotAsked
<1> QED
  BY <1>1, <1>2, Ways DEF Way, Starts

(* What a project's lock goes through.                                     *)
LEMMA OwnsStep ==
  ASSUME Routes, World, Owns, Next
  PROVE  Owns'
<1>1. CASE req' = req /\ holder' = holder
  BY <1>1 DEF Owns, Project
<1>2. ASSUME NEW t \in Requests, \E op \in Ops : Ask(t, op) PROVE Owns'
  <2>1. holder' = holder
    BY <1>2 DEF Ask, locks
  <2>2. PICK r : /\ Turn(t, r)
                 /\ r.pc \in {"next", "hold"} \/ (r.op = "shutdown" /\ r.pc = "list")
    BY <1>2, AskTurns
  <2>3. req'[t] = r /\ \A u \in Requests \ {t} : req'[u] = req[u]
    BY <2>2, Turned DEF Turn
  <2> QED
    BY <2>1, <2>2, <2>3 DEF Owns, Project, Inside
<1>3. ASSUME NEW t \in Requests, Step(t) \/ Cut(t) PROVE Owns'
  <2> DEFINE q == req[t]
  <2>1. PICK r : Turn(t, r) /\ Way(q, r)
    BY <1>3, Course
  <2>2. req'[t] = r /\ \A u \in Requests \ {t} : req'[u] = req[u]
    BY <2>1, Turned DEF Turn
  <2>a. holder \in [Projects -> Requests \cup {Nobody}]
    BY DEF World
  <2>b. \A u \in Requests : u # Nobody
    BY SessionConstants
  <2>3. CASE Hold(t)
    <3>1. q \in Threads /\ q.pc = "hold" /\ q.project \in Projects
      BY <2>3, Asked DEF Hold, At, Threads
    <3>2. CASE Free(t) /\ holder' = [holder EXCEPT ![Project(t)] = t]
      <4>1. r.project = q.project
        <5>1. PICK pc : Goto(t, pc)
          BY <2>3, <2>b, <3>2 DEF Hold, Free
        <5> QED
          BY <2>2, <3>1, <5>1 DEF Goto, Routes, Threads
      <4>2. ASSUME NEW u \in Requests \ {t}, req[u].op # "shutdown", req[u].pc \in Inside
            PROVE  holder'[Project(u)] = u
        BY <2>a, <2>b, <3>1, <3>2, <4>2 DEF Owns, Free, Project
      <4> QED
        BY <2>2, <2>a, <3>1, <3>2, <4>1, <4>2 DEF Owns, Project
    <3>3. CASE holder' = holder /\ Leave(t, "busy")
      <4>1. r.pc \in {"next", "done"}
        BY <2>2, <3>1, <3>3 DEF Leave, Routes, Threads
      <4> QED
        BY <2>2, <3>3, <4>1 DEF Owns, Project, Inside
    <3> QED
      BY <2>3, <3>2, <3>3 DEF Hold
  <2>4. CASE Look(t) \/ End(t) \/ Settle(t) \/ Toggle(t) \/ DevDone(t) \/ DockerDone(t)
    <3>1. q.pc \in Inside
      BY <2>4 DEF Look, End, Settle, Toggle, DevDone, DockerDone, At, Inside
    <3>2. q \in Threads /\ Route(q) /\ q.project \in Projects
      BY <3>1, Asked DEF Inside, Threads
    <3>3. CASE holder' = holder
      <4>1. r.pc \in Inside => q.pc # "hold" /\ r.project = q.project /\ r.op = q.op
        BY <2>1, <3>1 DEF Way, Inside
      <4> QED
        BY <2>2, <3>1, <3>3, <4>1 DEF Owns, Project
    <3>4. CASE Unlock(t) /\ (\E answer : Leave(t, answer)) /\ q.op # "shutdown"
      <4>1. r.pc \in {"next", "done"}
        <5>1. PICK answer : Leave(t, answer)
          BY <3>4
        <5> QED
          BY <2>2, <3>2, <5>1 DEF Leave, Routes, Threads
      <4>2. holder[q.project] = t
        BY <3>1, <3>4 DEF Owns, Project
      <4> QED
        BY <2>2, <2>a, <3>2, <3>4, <4>1, <4>2 DEF Owns, Project, Inside, Unlock
    <3> QED
      <4>1. CASE Look(t)
        BY <3>2, <3>3, <3>4, <4>1 DEF Look, At, Route
      <4>2. CASE End(t)
        <5>1. CASE q.op = "shutdown"
          BY <3>3, <4>2, <5>1 DEF End
        <5>2. CASE q.op = "delete"
          BY <3>4, <4>2, <5>2 DEF End
        <5>3. CASE q.op \notin {"shutdown", "delete"}
          BY <3>3, <4>2, <5>3 DEF End
        <5> QED
          BY <5>1, <5>2, <5>3
      <4>3. CASE Settle(t)
        BY <3>2, <3>4, <4>3 DEF Settle, At, Route
      <4>4. CASE Toggle(t)
        BY <3>2, <3>3, <3>4, <4>4 DEF Toggle, At, Route
      <4>5. CASE DevDone(t)
        BY <3>2, <3>4, <4>5 DEF DevDone, At, Route
      <4>6. CASE DockerDone(t)
        BY <3>2, <3>4, <4>6 DEF DockerDone, At, Route
      <4> QED
        BY <2>4, <4>1, <4>2, <4>3, <4>4, <4>5, <4>6
  <2>5. CASE Cut(t)
    <3>1. r.pc = "done"
      <4>1. q.pc # "idle"
        BY <2>5 DEF Cut, InScript
      <4> QED
        BY <2>2, <2>5, <4>1, Asked DEF Cut, Routes, Threads
    <3>2. holder' = [p \in Projects |-> IF holder[p] = t THEN Nobody ELSE holder[p]]
      BY <2>5 DEF Cut
    <3>3. ASSUME NEW u \in Requests \ {t}, req[u].op # "shutdown", req[u].pc \in Inside
          PROVE  holder'[Project(u)] = u
      <4>1. Project(u) \in Projects
        BY <3>3, ProjectOf DEF Inside
      <4> QED
        BY <3>2, <3>3, <4>1 DEF Owns
    <3> QED
      BY <2>2, <3>1, <3>3 DEF Owns, Project, Inside
  <2>6. CASE Step(t) /\ ~Hold(t) /\ ~Look(t) /\ ~End(t) /\ ~Settle(t) /\ ~Toggle(t)
             /\ ~DevDone(t) /\ ~DockerDone(t)
    <3>1. holder' = holder /\ q.pc # "hold"
      BY <2>6 DEF Step, NextProject, Serialize, List, Close, Closed, Kill,
         Remove, LookUp, Create, At, locks
    <3>2. r.pc \in Inside => q.pc \in Inside /\ r.project = q.project /\ r.op = q.op
      BY <2>1, <3>1 DEF Way, Inside
    <3> QED
      BY <2>2, <3>1, <3>2 DEF Owns, Project
  <2> QED
    BY <1>3, <2>3, <2>4, <2>5, <2>6
<1> QED
  BY <1>1, <1>2, <1>3, Mover

(* Two requests are never in the same project.                             *)
LEMMA OneInside ==
  ASSUME Owns, NEW t \in Requests, NEW u \in Requests, Project(t) = Project(u),
         req[t].op # "shutdown", req[u].op # "shutdown",
         req[t].pc \in Inside, req[u].pc \in Inside
  PROVE  t = u
  BY DEF Owns

(* A start with a member coming up stays, unless it is cut.                *)
LEMMA StartsStay ==
  ASSUME Routes, World, Next, NoneCut', NEW t \in Requests, Starts(t),
         req[t].pc \in {"role", "create", "end", "settle"},
         NEW r \in Roles, keeper'[<<Project(t), r>>] = "booting"
  PROVE  Starts(t)' /\ Project(t)' = Project(t)
         /\ req'[t].pc \in {"role", "create", "end", "settle"}
<1>1. CASE req'[t] = req[t]
  BY <1>1 DEF Starts, Project
<1>2. CASE /\ Step(t) \/ Cut(t)
           /\ req[t] \in Threads /\ Route(req[t]) /\ Way(req[t], req'[t])
  <2>1. /\ req'[t].op = req[t].op
        /\ req'[t].pc \in {"role", "create", "end", "settle", "next", "done"}
        /\ req'[t].project = req[t].project
    BY <1>2 DEF Way, Starts, StartOps
  <2>2. ~Cut(t)
    <3>1. ~(Starts(t)' /\ req'[t].answer = "cut")
      BY DEF NoneCut
    <3>2. Cut(t) => req'[t].answer = "cut"
      BY <1>2 DEF Cut, Routes, Threads
    <3> QED
      BY <2>1, <3>1, <3>2 DEF Starts
  <2>3. ~Settle(t)
    BY DEF Settle, Settled, agents
  <2>4. ASSUME LookUp(t) \/ Create(t) \/ End(t)
        PROVE  req'[t].pc \in {"role", "create", "end", "settle"}
    <3>1. \/ \E pc \in {"create", "end", "settle"} : Goto(t, pc)
          \/ req' = NextRole(t)
      <4>1. CASE End(t)
        <5>1. req[t].op \notin {"shutdown", "delete"}
          BY DEF Starts
        <5>2. Goto(t, "settle")
          BY <4>1, <5>1 DEF End
        <5> QED
          BY <5>2
      <4>2. CASE LookUp(t)
        BY <4>2 DEF LookUp
      <4>3. CASE Create(t)
        BY <4>3 DEF Create
      <4> QED
        BY <2>4, <4>1, <4>2, <4>3
    <3>2. ASSUME NEW pc \in {"create", "end", "settle"}, Goto(t, pc)
          PROVE  req'[t].pc \in {"role", "create", "end", "settle"}
      BY <1>2, <3>2 DEF Goto, Routes, Threads
    <3>3. CASE req' = NextRole(t)
      <4>1. req'[t].pc = IF Len(req[t].roles) = 1 THEN "end" ELSE "role"
        BY <1>2, <3>3 DEF NextRole, Routes, Threads
      <4> QED
        BY <4>1
    <3> QED
      BY <3>1, <3>2, <3>3
  <2>5. LookUp(t) \/ Create(t) \/ End(t)
    BY <1>2, <2>2, <2>3 DEF Step, NextProject, Hold, Look, Serialize, List,
       Close, Closed, Kill, Remove, Toggle, DevDone, DockerDone, At
  <2> QED
    BY <2>1, <2>4, <2>5 DEF Starts, Project
<1>3. req[t] # NotAsked
  BY DEF NotAsked
<1> QED
  BY <1>1, <1>2, <1>3, Ways

(* Without a cut start no tab comes late.                                  *)
LEMMA NoLateStep ==
  ASSUME Routes, World, NoLate, Next
  PROVE  NoLate'
<1> SUFFICES ASSUME NoneCut' PROVE late' = {}
  BY DEF NoLate
<1> QED
  BY NoneCutBack, LateMoves DEF NoLate

(* Whoever comes up is one a start waits for.                              *)
LEMMA BootersStep ==
  ASSUME Routes, World, NoLate, Booters, Next
  PROVE  Booters'
<1> SUFFICES ASSUME NoneCut', NEW p \in Projects, NEW r \in Roles,
                    keeper'[<<p, r>>] = "booting"
             PROVE  \E u \in Requests : /\ Starts(u)' /\ Project(u)' = p
                                        /\ req'[u].pc \in {"role", "create", "end", "settle"}
  BY DEF Booters
<1>1. late = {} /\ NoneCut
  BY NoneCutBack DEF NoLate
<1>2. <<p, r>> \in Members
  BY DEF Members
<1>3. PICK u \in Requests : /\ Starts(u) /\ Project(u) = p
                            /\ req[u].pc \in {"role", "create", "end", "settle"}
  <2>1. CASE keeper[<<p, r>>] = "booting"
    BY <1>1, <2>1 DEF Booters
  <2>2. CASE keeper[<<p, r>>] # "booting"
    <3>1. PICK u \in Requests : req[u].pc \in {"role", "create"} /\ <<p, r>> = Member(u)
      BY <1>1, <1>2, <2>2, KeeperMoves
    <3> QED
      BY <3>1, StartsMember
  <2> QED
    BY <2>1, <2>2
<1> QED
  BY <1>3, StartsStay

(* A start works in a directory: its delete would need the lock.           *)
LEMMA StartsInBuildStep ==
  ASSUME Routes, World, Owns, StartsInBuild, Next
  PROVE  StartsInBuild'
<1> DEFINE Within == {"list", "close", "kill", "role", "create"}
<1> SUFFICES ASSUME NEW t \in Requests, Starts(t)', req'[t].pc \in Within
             PROVE  Project(t)' \in dir'
  BY DEF StartsInBuild
<1>1. ASSUME Starts(t), req[t].pc \in Within, Project(t)' = Project(t)
      PROVE  Project(t)' \in dir'
  <2>1. Project(t) \in dir
    BY <1>1 DEF StartsInBuild
  <2>2. ASSUME NEW u \in Requests, req[u].op = "delete", req[u].pc = "remove",
               Project(u) = Project(t)
        PROVE  FALSE
    <3>1. t = u
      BY <1>1, <2>2, OneInside DEF Inside, Starts
    <3> QED
      BY <1>1, <2>2, <3>1
  <2> QED
    BY <1>1, <2>1, <2>2, DirMoves
<1>2. CASE req'[t] = req[t]
  BY <1>1, <1>2 DEF Starts, Project
<1>3. CASE /\ Step(t) \/ Cut(t)
           /\ req[t] \in Threads /\ Route(req[t]) /\ Way(req[t], req'[t])
  <2>1. /\ req[t].pc \in {"wait"} \cup Within /\ Starts(t)
        /\ req'[t].project = req[t].project
    BY <1>3 DEF Way, Starts, StartOps
  <2>2. CASE req[t].pc = "wait"
    <3>1. ~Cut(t)
      BY <2>2 DEF Cut, InScript
    <3>2. Serialize(t)
      BY <1>3, <2>2, <3>1 DEF Step, NextProject, Hold, Look, List, Close,
         Closed, Kill, Remove, LookUp, Create, End, Settle, Toggle,
         DevDone, DockerDone, At
    <3>3. Project(t) \in dir
      <4>1. SUFFICES ASSUME Project(t) \notin dir PROVE req'[t].pc = "end"
        OBVIOUS
      <4> DEFINE pc == IF Starts(t) /\ Project(t) \notin dir THEN "end"
                   ELSE IF req[t].op \in {"start", "start-all"} THEN "role" ELSE "list"
      <4>2. req' = [req EXCEPT ![t].pc = pc, ![t].roles = RoleOrder]
        BY <3>2 DEF Serialize
      <4>3. pc = "end"
        BY <2>1, <4>1 DEF Starts
      <4> HIDE DEF pc
      <4> QED
        BY <1>3, <4>2, <4>3 DEF Routes, Threads
    <3>4. dir' = dir
      BY <3>2 DEF Serialize, agents
    <3> QED
      BY <2>1, <3>3, <3>4 DEF Project
  <2>3. CASE req[t].pc \in Within
    BY <1>1, <2>1, <2>3 DEF Project
  <2> QED
    BY <2>1, <2>2, <2>3
<1> QED
  BY <1>2, <1>3, Ways DEF Starts

(* Nobody comes up in a build that is gone.                                *)
LEMMA GoneQuietStep ==
  ASSUME Routes, World, NoLate, StartsInBuild, GoneQuiet, Next
  PROVE  GoneQuiet'
<1> SUFFICES ASSUME NoneCut', NEW p \in Projects \ dir', NEW r \in Roles
             PROVE  keeper'[<<p, r>>] = "none"
  BY DEF GoneQuiet, Quiet
<1>1. late = {} /\ NoneCut /\ <<p, r>> \in Members
  BY NoneCutBack DEF NoLate, Members
<1>2. CASE p \in dir
  BY <1>2, DirMoves
<1>3. CASE p \notin dir
  <2>1. keeper[<<p, r>>] = "none"
    BY <1>1, <1>3 DEF GoneQuiet, Quiet
  <2>2. ASSUME NEW u \in Requests, req[u].pc \in {"role", "create"}, <<p, r>> = Member(u)
        PROVE  FALSE
    BY <1>3, <2>2, StartsMember DEF StartsInBuild
  <2> QED
    BY <1>1, <2>1, <2>2, KeeperMoves
<1> QED
  BY <1>2, <1>3

(* Nobody comes up behind a stop that has swept the project: whoever was   *)
(* coming up belonged to a start, and the stop has the lock.               *)
LEMMA SweptQuietStep ==
  ASSUME Routes, World, Owns, NoLate, Booters, SweptQuiet, Next
  PROVE  SweptQuiet'
<1> SUFFICES ASSUME NoneCut', NEW t \in Requests, req'[t].op = "stop",
                    req'[t].pc \in {"end", "settle"}, req'[t].swept, NEW r \in Roles
             PROVE  keeper'[<<Project(t)', r>>] = "none"
  BY DEF SweptQuiet, Quiet
<1>1. late = {} /\ NoneCut
  BY NoneCutBack DEF NoLate
<1>2. ASSUME req[t].op = "stop", req[t].pc \in {"end", "settle"}, req[t].swept,
             Project(t)' = Project(t)
      PROVE  keeper'[<<Project(t)', r>>] = "none"
  <2>1. Project(t) \in Projects /\ keeper[<<Project(t), r>>] = "none"
    BY <1>1, <1>2, ProjectOf DEF SweptQuiet, Quiet
  <2>2. ASSUME NEW u \in Requests, req[u].pc \in {"role", "create"},
               <<Project(t), r>> = Member(u)
        PROVE  FALSE
    <3>1. Project(u) = Project(t) /\ req[u].op # "shutdown"
      BY <2>2, StartsMember DEF Starts
    <3>2. t = u
      BY <1>2, <2>2, <3>1, OneInside DEF Inside
    <3> QED
      BY <1>2, <2>2, <3>2
  <2> QED
    BY <1>1, <1>2, <2>1, <2>2, KeeperMoves DEF Members
<1>3. CASE req'[t] = req[t]
  BY <1>2, <1>3 DEF Project
<1>4. CASE /\ Step(t) \/ Cut(t)
           /\ req[t] \in Threads /\ Route(req[t]) /\ Way(req[t], req'[t])
  <2>1. req[t].op = "stop" /\ req'[t].project = req[t].project
    BY <1>4 DEF Way
  <2>2. CASE req[t].swept
    <3>1. req[t].pc # "done"
      BY <1>4 DEF Step, NextProject, Hold, Look, Serialize, List, Close,
         Closed, Kill, Remove, LookUp, Create, End, Settle, Toggle,
         DevDone, DockerDone, Cut, InScript, At
    <3> QED
      BY <1>2, <1>4, <2>1, <2>2, <3>1 DEF Route, Project
  <2>3. CASE ~req[t].swept
    <3>1. req[t].pc = "kill"
      BY <1>4, <2>1, <2>3 DEF Way
    <3>2. Project(t) \in Projects /\ Project(t)' = Project(t)
      BY <2>1, <3>1, ProjectOf DEF Project
    <3>3. keeper[<<Project(t), r>>] # "booting"
      <4> SUFFICES ASSUME keeper[<<Project(t), r>>] = "booting" PROVE FALSE
        OBVIOUS
      <4>1. PICK u \in Requests : /\ Starts(u) /\ Project(u) = Project(t)
                                  /\ req[u].pc \in {"role", "create", "end", "settle"}
        BY <1>1, <3>2 DEF Booters
      <4>2. t = u
        BY <2>1, <3>1, <4>1, OneInside DEF Inside, Starts
      <4> QED
        BY <2>1, <4>1, <4>2 DEF Starts
    <3>4. Kill(t)
      <4>1. ~Cut(t)
        <5>1. Cut(t) => req'[t].pc = "done"
          BY <1>4 DEF Cut, Routes, Threads
        <5> QED
          BY <5>1
      <4> QED
        BY <1>4, <3>1, <4>1 DEF Step, NextProject, Hold, Look, Serialize,
           List, Close, Closed, Remove, LookUp, Create, End, Settle,
           Toggle, DevDone, DockerDone, At
    <3>5. keeper' = Killed({Project(t)})
      BY <2>1, <3>4 DEF Kill, Scope
    <3> QED
      BY <3>2, <3>3, <3>5 DEF Killed, Members, World
  <2> QED
    BY <2>2, <2>3
<1>5. req'[t].swept # FALSE
  OBVIOUS
<1> QED
  BY <1>3, <1>4, <1>5, Ways

(* What the docker toggle saw stays true until it starts its build.        *)
LEMMA BuildsSeeDevStep ==
  ASSUME Routes, World, Owns, BuildsSeeDev, Next
  PROVE  BuildsSeeDev'
<1> SUFFICES ASSUME NEW t \in Requests, req'[t].pc = "dockerup", ~req'[t].failed
             PROVE  listener'[Project(t)'] # "dev"
  BY DEF BuildsSeeDev, At
<1>1. CASE req'[t] = req[t]
  <2>1. Project(t)' = Project(t) /\ Project(t) \in Projects /\ listener[Project(t)] # "dev"
    BY <1>1, ProjectOf DEF Project, BuildsSeeDev, At
  <2>2. ASSUME NEW u \in Requests, At(u, "devup"), Project(u) = Project(t) PROVE FALSE
    <3>1. Route(req[t]) /\ Route(req[u])
      BY <1>1, <2>2, Asked DEF At
    <3>2. t = u
      BY <1>1, <2>2, <3>1, OneInside DEF Inside, Route, Toggles, At
    <3> QED
      BY <1>1, <2>2, <3>2 DEF At
  <2> QED
    BY <2>1, <2>2, ListenerMoves
<1>2. CASE /\ Step(t) \/ Cut(t)
           /\ req[t] \in Threads /\ Route(req[t]) /\ Way(req[t], req'[t])
  <2>1. req[t].pc = "toggle" /\ req'[t].project = req[t].project
    BY <1>2 DEF Way
  <2>2. Toggle(t)
    BY <1>2, <2>1 DEF Step, NextProject, Hold, Look, Serialize, List, Close,
       Closed, Kill, Remove, LookUp, Create, End, Settle, DevDone,
       DockerDone, Cut, InScript, At
  <2>3. PICK blind \in SUBSET {"docker", "ss", "mock"} :
          LET next == Toggled(req[t].op, Project(t), blind) IN
          \/ /\ next # "refused"
             /\ req' = [req EXCEPT ![t].pc = next, ![t].failed = blind # {}]
          \/ next = "refused" /\ Leave(t, "failed")
    BY <2>2 DEF Toggle
  <2>4. ~Leave(t, "failed")
    <3>1. Leave(t, "failed") => req'[t].pc \in {"next", "done"}
      BY <1>2 DEF Leave, Routes, Threads
    <3> QED
      BY <3>1
  <2>5. /\ req'[t].pc = Toggled(req[t].op, Project(t), blind)
        /\ req'[t].failed = (blind # {})
    BY <1>2, <2>3, <2>4 DEF Routes, Threads
  <2>6. blind = {} /\ Toggled(req[t].op, Project(t), {}) = "dockerup"
    BY <2>5
  <2>7. req[t].op \in {"dev", "docker"}
    BY <1>2, <2>1 DEF Route, Toggles
  <2>8. listener[Project(t)] # "dev"
    BY <2>6, <2>7 DEF Toggled, DevUp, Listening, Published, Mocked
  <2>9. listener' = listener
    BY <2>2 DEF Toggle, servers
  <2> QED
    BY <2>1, <2>8, <2>9 DEF Project
<1> QED
  BY <1>1, <1>2, Ways

-----------------------------------------------------------------------------
(* The inductive invariant, and what follows from it.                      *)

SessionsInv == World /\ Looks /\ Tabs /\ Routes /\ Owns /\ NoLate /\ Booters /\ StartsInBuild
        /\ GoneQuiet /\ SweptQuiet /\ BuildsSeeDev

(* The invariant holds at first.                                           *)
LEMMA SessionInit ==
  Init => SessionsInv
<1> SUFFICES ASSUME Init PROVE SessionsInv
  OBVIOUS
<1>1. \A t \in Requests : req[t] = NotAsked
  BY DEF Init
<1>2. \A pr \in Members : keeper[pr] # "booting"
  BY DEF Init, Running, Stopped
<1>3. World
  BY DEF Init, World, Running, Stopped
<1>4. Looks /\ Tabs
  BY SessionConstants DEF Init, Looks, Tabs
<1>5. Routes /\ Owns /\ StartsInBuild /\ SweptQuiet /\ BuildsSeeDev
  BY <1>1 DEF Init, Routes, Owns, StartsInBuild, SweptQuiet, BuildsSeeDev, NotAsked,
     Inside, At
<1>6. Booters /\ NoLate /\ GoneQuiet
  BY <1>2 DEF Init, Booters, NoLate, GoneQuiet, Members
<1> QED
  BY <1>3, <1>4, <1>5, <1>6 DEF SessionsInv

(* Every step keeps it.                                                    *)
LEMMA SessionInductive ==
  SessionsInv /\ [Next]_vars => SessionsInv'
<1> SUFFICES ASSUME SessionsInv, [Next]_vars PROVE SessionsInv'
  OBVIOUS
<1>1. World /\ Looks /\ Tabs /\ Routes /\ Owns /\ NoLate /\ Booters /\ StartsInBuild
      /\ GoneQuiet /\ SweptQuiet /\ BuildsSeeDev
  BY DEF SessionsInv
<1>2. CASE Next
  BY <1>1, <1>2, WorldStep, LooksStep, TabsStep, RoutesStep, OwnsStep, NoLateStep,
     BootersStep, StartsInBuildStep, GoneQuietStep, SweptQuietStep, BuildsSeeDevStep DEF
     SessionsInv
<1>3. CASE UNCHANGED vars
  <2>1. UNCHANGED <<dir, tabs, keeper, orca, late, listener, building, cache, holder, session,
                    req, faults>>
    BY <1>3 DEF vars, agents, servers, locks
  <2>2. World' /\ Looks' /\ Tabs' /\ Routes' /\ Owns'
    BY <1>1, <2>1 DEF World, Looks, Tabs, Routes, Owns, Project
  <2>3. NoneCut' => NoneCut
    BY <2>1 DEF NoneCut, Starts
  <2>4. NoLate' /\ Booters' /\ StartsInBuild'
    BY <1>1, <2>1, <2>3 DEF NoLate, Booters, StartsInBuild, Starts, Project
  <2>5. GoneQuiet' /\ SweptQuiet' /\ BuildsSeeDev'
    BY <1>1, <2>1, <2>3 DEF GoneQuiet, SweptQuiet, BuildsSeeDev, Quiet, Project, At
  <2> QED
    BY <2>2, <2>4, <2>5 DEF SessionsInv
<1> QED
  BY <1>2, <1>3

(* It holds always.                                                        *)
LEMMA SessionInvariant ==
  Spec => []SessionsInv
  BY SessionInit, SessionInductive, PTL DEF Spec

(* TypeOK for any projects, members and requests: req and faults of the    *)
(* dashboard stay in their types, no member has more than two tabs, and    *)
(* every request is at a place of the code (main.py, add-cto, stop-cto,    *)
(* delete-cto).                                                            *)
THEOREM TypeCorrect ==
  Spec => []TypeOK
<1>1. SessionsInv => TypeOK
  BY SessionTypes DEF SessionsInv, Routes
<1> QED
  BY <1>1, SessionInvariant, PTL

(* A delete that answers ok found its directory gone.                      *)
LEMMA DeleteEnds ==
  ASSUME Routes, World, Next, NEW t \in Requests,
         req[t].op = "delete", req[t].pc # "done",
         req'[t].pc = "done", req'[t].answer = "ok"
  PROVE  Project(t) \in Projects \ dir
<1>1. req[t].pc # "idle"
  BY DEF NotAsked, Routes, Threads
<1>2. /\ Step(t) \/ Cut(t)
      /\ req[t] \in Threads /\ Route(req[t])
  BY Ways DEF NotAsked
<1>3. req[t].pc \in {"hold", "list", "close", "kill", "remove", "end"}
  BY <1>2 DEF Route
<1>a. /\ \A pc : Goto(t, pc) => req'[t].pc = pc
      /\ \A answer : Leave(t, answer) => req'[t].answer = answer
  BY <1>2 DEF Goto, Leave, Routes, Threads, AllOps
<1>4. ~Cut(t)
  BY <1>2 DEF Cut, Routes, Threads
<1>5. ~Hold(t)
  <2> SUFFICES ASSUME Hold(t) PROVE FALSE
    OBVIOUS
  <2>1. CASE Leave(t, "busy")
    BY <1>a, <2>1
  <2>2. CASE Goto(t, CASE req[t].op = "delete" -> "list"
                       [] req[t].op \in {"dev", "docker"} -> "toggle"
                       [] OTHER -> "look")
    <3>1. PICK pc : Goto(t, pc) /\ pc = "list"
      BY <2>2
    <3> QED
      BY <1>a, <3>1
  <2> QED
    BY <2>1, <2>2 DEF Hold
<1>6. ~List(t)
  <2> SUFFICES ASSUME List(t) PROVE FALSE
    OBVIOUS
  <2> DEFINE pc == IF orca THEN "close" ELSE IF req[t].op = "fresh" THEN "role" ELSE "end"
             left == IF orca THEN Listed(t) ELSE {}
  <2>1. req' = [req EXCEPT ![t].left = left, ![t].pc = pc, ![t].failed = ~orca]
    BY DEF List
  <2>2. pc # "done"
    OBVIOUS
  <2> HIDE DEF pc, left
  <2> QED
    BY <1>2, <2>1, <2>2 DEF Routes, Threads
<1>7. ~Close(t)
  <2> SUFFICES ASSUME Close(t) PROVE FALSE
    OBVIOUS
  <2>1. PICK x \in req[t].left :
          \/ req' = [req EXCEPT ![t].left = @ \ {x}]
          \/ req' = [req EXCEPT ![t].left = @ \ {x}, ![t].failed = TRUE,
                                ![t].pc = AfterRefusal(t)]
    BY DEF Close
  <2>2. AfterRefusal(t) = "close"
    BY DEF AfterRefusal
  <2> QED
    BY <1>2, <2>1, <2>2 DEF Routes, Threads
<1>8. ~Closed(t) /\ ~Remove(t)
  BY <1>a DEF Closed, Remove
<1>9. ~Kill(t)
  <2>1. AfterKill(t) \in {"remove", "end"}
    BY DEF AfterKill
  <2>2. Kill(t) => req'[t].pc = AfterKill(t)
    BY <1>2 DEF Kill, Routes, Threads
  <2> QED
    BY <2>1, <2>2
<1>10. End(t)
  BY <1>2, <1>3, <1>4, <1>5, <1>6, <1>7, <1>8, <1>9 DEF Step, NextProject, Look,
     Serialize, LookUp, Create, Settle, Toggle, DevDone, DockerDone, At
<1>11. Leave(t, IF Project(t) \in dir THEN "failed" ELSE "ok")
  BY <1>10 DEF End
<1>12. Project(t) \notin dir
  <2>1. PICK answer : Leave(t, answer) /\ answer = IF Project(t) \in dir THEN "failed" ELSE "ok"
    BY <1>11
  <2> QED
    BY <1>a, <2>1
<1> QED
  BY <1>1, <1>12, ProjectOf

(* OkMeansQuiet for any projects, members, requests and faults: a stop     *)
(* or a delete that answers ok (stop_cto, delete_cto of main.py) leaves no *)
(* agent running or coming up, unless a start was cut off.                 *)
THEOREM OkIsQuiet ==
  Spec => OkMeansQuiet
<1>1. ASSUME SessionsInv, Next, NEW t \in Requests,
             Ended(t, "delete") \/ (Ended(t, "stop") /\ req[t].swept),
             req'[t].answer = "ok"
      PROVE  \/ Quiet(Project(t))
             \/ \E u \in Requests : req[u].answer = "cut" /\ Starts(u)
  <2>0. World /\ Routes /\ GoneQuiet /\ SweptQuiet
    BY <1>1 DEF SessionsInv
  <2> SUFFICES ASSUME NoneCut PROVE Quiet(Project(t))
    BY DEF NoneCut
  <2>1. CASE Ended(t, "delete")
    BY <1>1, <2>0, <2>1, DeleteEnds DEF Ended, GoneQuiet
  <2>2. CASE Ended(t, "stop") /\ req[t].swept
    <3>1. req[t].pc # "idle"
      BY <2>0, <2>2 DEF Ended, Routes, NotAsked, Threads
    <3>2. req[t].pc \in {"end", "settle"}
      BY <2>0, <2>2, <3>1, Asked DEF Ended, Route
    <3> QED
      BY <2>0, <2>2, <3>2 DEF SweptQuiet, Ended
  <2> QED
    BY <1>1, <2>1, <2>2
<1>2. ASSUME SessionsInv, UNCHANGED vars, NEW t \in Requests
      PROVE  ~Ended(t, "delete") /\ ~Ended(t, "stop")
  BY <1>2 DEF Ended, vars
<1>3. SessionsInv /\ [Next]_vars =>
        [\A t \in Requests :
          /\ Ended(t, "delete") \/ (Ended(t, "stop") /\ req[t].swept)
          /\ req'[t].answer = "ok"
          => \/ Quiet(Project(t))
             \/ \E u \in Requests : req[u].answer = "cut" /\ Starts(u)]_vars
  BY <1>1, <1>2
<1> QED
  BY <1>3, SessionInvariant, PTL DEF Spec, OkMeansQuiet

(* BuildNotOverDev for the same: the docker toggle (main.py) starts no     *)
(* build over dev servers it could have seen.                              *)
THEOREM BuildAfterDev ==
  Spec => BuildNotOverDev
<1>1. ASSUME SessionsInv, Next, NEW p \in building' \ building
      PROVE  \/ listener[p] # "dev"
             \/ \E t \in Requests : At(t, "dockerup") /\ Project(t) = p /\ req[t].failed
  <2>1. PICK t \in Requests : DockerDone(t)
    <3>1. ASSUME NEW t \in Requests, Step(t), ~DockerDone(t) PROVE building' \subseteq building
      BY <3>1 DEF Step, NextProject, Hold, Look, Serialize, List, Close,
         Closed, Kill, Remove, LookUp, Create, End, Settle, Toggle,
         DevDone, servers
    <3>2. ASSUME NEW t \in Requests, Cut(t) \/ \E op \in Ops : Ask(t, op)
          PROVE  building' = building
      BY <3>2 DEF Cut, Ask, servers
    <3>3. ASSUME NEW pr \in Members, SocketAppears(pr) \/ AgentDies(pr) \/ LateTab(pr)
          PROVE  building' = building
      BY <3>3 DEF SocketAppears, AgentDies, LateTab, servers
    <3>4. CASE OrcaFalters \/ PollOrAge \/ \E x \in Projects : BuildEnds(x)
      BY <1>1, <3>4 DEF OrcaFalters, PollOrAge, BuildEnds, servers
    <3> QED
      BY <1>1, <3>1, <3>2, <3>3, <3>4 DEF Next
  <2>2. At(t, "dockerup") /\ Project(t) = p
    BY <1>1, <2>1 DEF DockerDone, servers
  <2> QED
    BY <1>1, <2>2 DEF SessionsInv, BuildsSeeDev
<1>2. ASSUME UNCHANGED vars PROVE building' = building
  BY <1>2 DEF vars, servers
<1>3. SessionsInv /\ [Next]_vars =>
        [\A p \in building' \ building :
          \/ listener[p] # "dev"
          \/ \E t \in Requests : At(t, "dockerup") /\ Project(t) = p /\ req[t].failed]_vars
  BY <1>1, <1>2
<1> QED
  BY <1>3, SessionInvariant, PTL DEF Spec, BuildNotOverDev

-----------------------------------------------------------------------------
(* PairWatch.  Its types, the unread alerts, and the grace period before one*)
(* is written.                                                             *)

(* What PairWatch assumes of its constants.                                *)
LEMMA PairConstants ==
  /\ Grace \in Nat /\ Grace > 0 /\ MaxGap \in Nat
  /\ MaxErrors \in Nat /\ MaxRestarts \in Nat
  BY PairAssumption

(* The truth values and the rest of the types have a proof each.           *)
PairBools == {present, claude, codex, open, active, alerted, unresolved,
          told, misnamed, unchecked} \subseteq BOOLEAN
PairRest ==
  /\ alerts \in [Partial -> Nat]
  /\ status \in Status \cup {"unknown"}
  /\ age \in 0..Grace /\ steady \in 0..Grace
  /\ last \in Partial \cup {"whole"}
  /\ errors \in 0..MaxErrors /\ restarts \in 0..MaxRestarts

(* The types in two groups.                                                *)
LEMMA PairTypeParts == PairTypeOK <=> PairBools /\ PairRest
  BY DEF PairTypeOK, PairBools, PairRest

(* An age that grows stops at the grace period.                            *)
LEMMA MinInGrace ==
  ASSUME NEW a \in 0..Grace, NEW d \in 1..MaxGap
  PROVE  Min2(a + d, Grace) \in 0..Grace
  BY PairConstants DEF Min2

(* The truth values stay truth values.                                     *)
LEMMA PairBoolsStep == PairBools /\ [PairNext]_pairVars => PairBools'
<1> SUFFICES ASSUME PairBools, [PairNext]_pairVars PROVE PairBools'
  OBVIOUS
<1> USE DEF PairBools
<1>1. CASE Registers \/ Leaves \/ HalfChanges \/ TasksChange \/ CeoReads
  <2>1. CASE Registers
    BY <2>1 DEF Registers, memory, ghosts
  <2>2. CASE Leaves
    BY <2>2 DEF Leaves, memory, ghosts
  <2>3. CASE HalfChanges
    BY <2>3 DEF HalfChanges, memory, ghosts
  <2>4. CASE TasksChange
    BY <2>4 DEF TasksChange, memory, ghosts
  <2>5. CASE CeoReads
    BY <2>5 DEF CeoReads, world, memory
  <2> QED
    BY <1>1, <2>1, <2>2, <2>3, <2>4, <2>5
<1>2. ASSUME NEW ok \in BOOLEAN, Resolve(ok) PROVE unresolved' \in BOOLEAN
  BY <1>2 DEF Resolve, AnyAlert
<1>3. ASSUME NoResolve PROVE unresolved' \in BOOLEAN
  BY <1>3 DEF NoResolve
<1>4. ASSUME NEW d \in 1..MaxGap, NEW ok \in BOOLEAN,
             ScanGone(ok, d) \/ ScanWhole(ok, d) \/ ScanDone(ok, d) \/ ScanNew(ok, d)
      PROVE PairBools'
  <2>1. CASE ScanGone(ok, d)
    BY <1>2, <2>1 DEF ScanGone, Remember, world
  <2>2. CASE ScanWhole(ok, d)
    BY <1>2, <1>3, <2>2 DEF ScanWhole, Remember, world
  <2>3. CASE ScanDone(ok, d)
    BY <1>2, <1>3, <2>3 DEF ScanDone, Remember, world
  <2>4. CASE ScanNew(ok, d)
    BY <1>2, <1>3, <2>4 DEF ScanNew, Remember, world
  <2> QED
    BY <1>4, <2>1, <2>2, <2>3, <2>4
<1>5. ASSUME NEW d \in 1..MaxGap, NEW ok \in BOOLEAN,
             ScanFindsAlert(ok, d) \/ ScanAlerts(ok, d) \/ ScanWaits(d)
      PROVE PairBools'
  <2>1. CASE ScanFindsAlert(ok, d)
    BY <2>1 DEF ScanFindsAlert, Persisting, world
  <2>2. CASE ScanAlerts(ok, d)
    BY <2>2 DEF ScanAlerts, Persisting, world
  <2>3. CASE ScanWaits(d)
    BY <2>3 DEF ScanWaits, Persisting, world
  <2> QED
    BY <1>5, <2>1, <2>2, <2>3
<1>6. CASE Restart \/ UNCHANGED pairVars
  BY <1>6 DEF Restart, pairVars, world, memory, ghosts
<1>7. ASSUME NEW d \in 1..MaxGap, Scan(d) PROVE PairBools'
  BY <1>4, <1>5, <1>7 DEF Scan
<1> QED
  BY <1>1, <1>6, <1>7 DEF PairNext

(* What a resolve, and a scan that does without one, do to the table.      *)
LEMMA Resolves ==
  ASSUME PairRest, NEW ok \in BOOLEAN, Resolve(ok) \/ NoResolve
  PROVE  alerts' \in [Partial -> Nat] /\ errors' \in 0..MaxErrors
<1>1. alerts' = NoAlert \/ alerts' = alerts
  BY DEF Resolve, NoResolve
<1>2. Ok(ok) \/ errors' = errors
  BY DEF Resolve, NoResolve
<1>3. alerts' \in [Partial -> Nat]
  BY <1>1 DEF PairRest, NoAlert
<1>4. errors' \in 0..MaxErrors
  BY <1>2, PairConstants DEF PairRest, Ok
<1> QED
  BY <1>3, <1>4

(* What a scan notes of the pair has its type.                             *)
LEMMA Sees ==
  ASSUME PairRest, NEW s \in Partial \cup {"whole"}, NEW d \in 1..MaxGap, Saw(s, d)
  PROVE  last' \in Partial \cup {"whole"} /\ steady' \in 0..Grace
<1>1. steady \in 0..Grace /\ 0 \in 0..Grace
  BY PairConstants DEF PairRest
<1>2. Min2(steady + d, Grace) \in 0..Grace
  BY <1>1, MinInGrace
<1> QED
  BY <1>1, <1>2 DEF Saw

(* Every step keeps the other types.                                       *)
LEMMA PairRestStep == PairRest /\ [PairNext]_pairVars => PairRest'
<1> SUFFICES ASSUME PairRest, [PairNext]_pairVars PROVE PairRest'
  OBVIOUS
<1> USE PairConstants DEF PairRest
<1>1. PairStatus \in Status
  BY DEF PairStatus, Status, Partial
<1>2. CASE Registers \/ Leaves \/ TasksChange
  BY <1>2 DEF Registers, Leaves, TasksChange, memory, ghosts
<1>3. CASE HalfChanges
  BY <1>3 DEF HalfChanges, memory, ghosts
<1>4. CASE CeoReads
  BY <1>4 DEF CeoReads, NoAlert, world, memory
<1>5. ASSUME NEW d \in 1..MaxGap, NEW ok \in BOOLEAN,
             ScanGone(ok, d) \/ ScanWhole(ok, d) \/ ScanDone(ok, d) \/ ScanNew(ok, d)
      PROVE PairRest'
  <2>1. Resolve(ok) \/ NoResolve
    BY <1>5 DEF ScanGone, ScanWhole, ScanDone, ScanNew
  <2>2. Saw("whole", d) \/ (PairStatus \in Partial /\ Saw(PairStatus, d))
    BY <1>5 DEF ScanGone, ScanWhole, ScanDone, ScanNew
  <2>3. status' \in Status \cup {"unknown"} /\ age' = 0 /\ restarts' = restarts
    BY <1>1, <1>5 DEF ScanGone, ScanWhole, ScanDone, ScanNew, Remember
  <2> QED
    BY <2>1, <2>2, <2>3, Resolves, Sees
<1>6. ASSUME NEW d \in 1..MaxGap, Persisting(d)
      PROVE /\ status' = status /\ restarts' = restarts /\ age' \in 0..Grace
            /\ last' \in Partial \cup {"whole"} /\ steady' \in 0..Grace
  BY <1>6, MinInGrace, Sees DEF Persisting, Aged
<1>7. ASSUME NEW d \in 1..MaxGap, NEW ok \in BOOLEAN,
             ScanFindsAlert(ok, d) \/ ScanWaits(d)
      PROVE PairRest'
  <2>1. alerts' = alerts /\ errors' \in 0..MaxErrors
    BY <1>7 DEF ScanFindsAlert, ScanWaits, Ok
  <2> QED
    BY <1>6, <1>7, <2>1 DEF ScanFindsAlert, ScanWaits
<1>8. ASSUME NEW d \in 1..MaxGap, NEW ok \in BOOLEAN, ScanAlerts(ok, d) PROVE PairRest'
  <2>1. errors' \in 0..MaxErrors
    BY <1>8 DEF ScanAlerts, Ok
  <2>2. \/ alerts' = [alerts EXCEPT ![PairStatus] = @ + 1]
        \/ alerts' = alerts
    BY <1>8 DEF ScanAlerts
  <2>3. alerts' \in [Partial -> Nat]
    BY <2>2
  <2> QED
    BY <1>6, <1>8, <2>1, <2>3 DEF ScanAlerts
<1>9. CASE Restart
  BY <1>9 DEF Restart
<1>10. CASE UNCHANGED pairVars
  BY <1>10 DEF pairVars, memory, ghosts
<1>11. ASSUME NEW d \in 1..MaxGap, Scan(d) PROVE PairRest'
  BY <1>5, <1>7, <1>8, <1>11 DEF Scan
<1> QED
  BY <1>2, <1>3, <1>4, <1>9, <1>10, <1>11 DEF PairNext

(* The pair, the table and the daemon's memory stay in their types.        *)
THEOREM PairTypeCorrect == PairSpec => []PairTypeOK
<1>1. PairInit => PairBools
  BY DEF PairInit, PairBools
<1>2. PairInit => PairRest
  BY PairConstants DEF PairInit, PairRest, NoAlert
<1> QED
  BY <1>1, <1>2, PairTypeParts, PairBoolsStep, PairRestStep, PTL DEF PairSpec

-----------------------------------------------------------------------------
(* UnreadAlertsFit holds at the scan that finds nothing to resolve because *)
(* of what the scans before it left: an active memory is of a broken pair. *)
(* AlertAfterGrace needs that the daemon's clock of the episode never runs *)
(* ahead of the time its scans, by whichever daemon, saw the episode last. *)
ActiveIsPartial == active => status \in Partial
AgeIsSeen == active => last = status /\ age <= steady
OneAlert == /\ \A s \in Partial : alerts[s] <= 1
            /\ alerts["claude-only"] = 0 \/ alerts["codex-only"] = 0
AlertsSettled == status # "unknown" /\ ~active /\ ~unresolved => ~AnyAlert

(* The property of the alerts, in two parts.                               *)
LEMMA FitParts == UnreadAlertsFit <=> OneAlert /\ AlertsSettled
  BY DEF UnreadAlertsFit, OneAlert, AlertsSettled

(* A scan always sees one of the four states.                              *)
LEMMA PairStatusKnown == PairStatus \in Status /\ "unknown" \notin Status
  BY DEF PairStatus, Status, Partial

(* What a resolve, and a scan without one, leave unread.                   *)
LEMMA ResolveLeaves ==
  ASSUME NEW ok \in BOOLEAN, Resolve(ok)
  PROVE  unresolved' \/ ~AnyAlert'
<1>1. CASE ok
  <2>1. alerts' = NoAlert
    BY <1>1 DEF Resolve
  <2> QED
    BY <2>1 DEF AnyAlert, NoAlert
<1>2. CASE ~ok
  BY <1>2 DEF Resolve, AnyAlert
<1> QED
  BY <1>1, <1>2

(* Every step leaves at most one unread alert.                             *)
LEMMA OneAlertStep == PairRest /\ OneAlert /\ [PairNext]_pairVars => OneAlert'
<1> SUFFICES ASSUME PairRest, OneAlert, [PairNext]_pairVars PROVE OneAlert'
  OBVIOUS
<1>1. CASE alerts' = alerts \/ alerts' = NoAlert
  BY <1>1 DEF OneAlert, NoAlert, Partial
<1>2. ASSUME NEW d \in 1..MaxGap, NEW ok \in BOOLEAN, ScanAlerts(ok, d),
             alerts' # alerts
      PROVE OneAlert'
  <2>1. /\ alerts' = [alerts EXCEPT ![PairStatus] = @ + 1] /\ PairStatus \in Partial
        /\ ~AnyAlert
    BY <1>2 DEF ScanAlerts, Persisting
  <2>2. \A s \in Partial : alerts[s] = 0
    BY <2>1 DEF AnyAlert, PairRest
  <2> QED
    BY <2>1, <2>2 DEF OneAlert, PairRest, Partial
<1>3. \/ alerts' = alerts \/ alerts' = NoAlert
      \/ \E d \in 1..MaxGap : \E ok \in BOOLEAN : ScanAlerts(ok, d)
  BY DEF PairNext, Registers, Leaves, HalfChanges, TasksChange, CeoReads, Scan,
         ScanGone, ScanWhole, ScanDone, ScanNew, ScanFindsAlert, ScanWaits,
         Resolve, NoResolve, Restart, pairVars
<1> QED
  BY <1>1, <1>2, <1>3

(* Every step keeps what the daemon remembers within what was seen.        *)
LEMMA MemoryStep ==
  PairRest /\ ActiveIsPartial /\ AgeIsSeen /\ [PairNext]_pairVars => ActiveIsPartial' /\ AgeIsSeen'
<1> SUFFICES ASSUME PairRest, ActiveIsPartial, AgeIsSeen, [PairNext]_pairVars
             PROVE  ActiveIsPartial' /\ AgeIsSeen'
  OBVIOUS
<1> USE DEF ActiveIsPartial, AgeIsSeen
<1>1. CASE UNCHANGED <<status, active, age, steady, last>>
  BY <1>1
<1>2. ASSUME NEW d \in 1..MaxGap, Persisting(d)
      PROVE ActiveIsPartial' /\ AgeIsSeen'
  <2>1. active /\ status = PairStatus /\ status' = status /\ PairStatus \in Partial
    BY <1>2 DEF Persisting, Continuing
  <2>2. age' = Min2(age + d, Grace) /\ last' = PairStatus
    BY <1>2 DEF Persisting, Aged, Saw
  <2>3. steady' = Min2(steady + d, Grace)
    BY <1>2, <2>1 DEF Persisting, Saw, Partial
  <2>4. Min2(age + d, Grace) <= Min2(steady + d, Grace)
    BY <2>1, PairConstants DEF Min2, PairRest
  <2> QED
    BY <2>1, <2>2, <2>3, <2>4
<1>3. ASSUME NEW d \in 1..MaxGap, NEW ok \in BOOLEAN, ScanNew(ok, d)
      PROVE ActiveIsPartial' /\ AgeIsSeen'
  <2>1. status' = PairStatus /\ PairStatus \in Partial /\ age' = 0 /\ Saw(PairStatus, d)
    BY <1>3 DEF ScanNew, Remember
  <2>2. steady' \in 0..Grace
    BY <2>1, Sees
  <2> QED
    BY <2>1, <2>2 DEF Saw
<1>4. ASSUME NEW d \in 1..MaxGap, NEW ok \in BOOLEAN,
             ScanGone(ok, d) \/ ScanWhole(ok, d) \/ ScanDone(ok, d)
      PROVE ~active'
  BY <1>4 DEF ScanGone, ScanWhole, ScanDone, Remember
<1>5. ASSUME NEW d \in 1..MaxGap, Scan(d) PROVE ActiveIsPartial' /\ AgeIsSeen'
  <2>1. \/ Persisting(d)
        \/ \E ok \in BOOLEAN : \/ ScanGone(ok, d) \/ ScanWhole(ok, d)
                               \/ ScanDone(ok, d) \/ ScanNew(ok, d)
    BY <1>5 DEF Scan, ScanFindsAlert, ScanAlerts, ScanWaits
  <2> QED
    BY <1>2, <1>3, <1>4, <2>1
<1>6. CASE Restart
  BY <1>6 DEF Restart
<1>7. CASE \/ Registers \/ Leaves \/ HalfChanges \/ TasksChange \/ CeoReads
           \/ UNCHANGED pairVars
  BY <1>1, <1>7 DEF Registers, Leaves, HalfChanges, TasksChange, CeoReads, pairVars,
                    memory, ghosts
<1> QED
  BY <1>5, <1>6, <1>7 DEF PairNext

(* A scan that finds the cause gone leaves no alert, or a failed UPDATE.   *)
LEMMA AlertsSettledStep ==
  ActiveIsPartial /\ AlertsSettled /\ [PairNext]_pairVars => AlertsSettled'
<1> SUFFICES ASSUME ActiveIsPartial, AlertsSettled, [PairNext]_pairVars PROVE AlertsSettled'
  OBVIOUS
<1> USE DEF AlertsSettled
<1>1. CASE UNCHANGED <<alerts, status, active, unresolved>>
  BY <1>1 DEF AnyAlert
<1>2. CASE alerts' = NoAlert
  <2>1. ~AnyAlert'
    BY <1>2 DEF AnyAlert, NoAlert
  <2> QED
    BY <2>1
<1>3. ASSUME NEW d \in 1..MaxGap, NEW ok \in BOOLEAN, ScanGone(ok, d) PROVE AlertsSettled'
  BY <1>3 DEF ScanGone, Remember
(* Nothing is resolved only where the status is the one already known of   *)
(* an inactive pair, which AlertsSettled is about.                         *)
<1>4. ASSUME NEW d \in 1..MaxGap, NEW ok \in BOOLEAN,
             ScanWhole(ok, d) \/ ScanDone(ok, d)
      PROVE AlertsSettled'
  <2>1. CASE Resolve(ok)
    BY <2>1, ResolveLeaves
  <2>2. CASE ~Resolve(ok)
    <3>1. status = PairStatus /\ ~active /\ NoResolve
      BY <1>4, <2>2 DEF ScanWhole, ScanDone, ActiveIsPartial
    <3>2. status # "unknown"
      BY <3>1, PairStatusKnown
    <3>3. alerts' = alerts /\ unresolved' = unresolved
      BY <3>1 DEF NoResolve
    <3> QED
      BY <3>1, <3>2, <3>3 DEF AnyAlert
  <2> QED
    BY <2>1, <2>2
<1>5. ASSUME NEW d \in 1..MaxGap, NEW ok \in BOOLEAN, ScanNew(ok, d) PROVE active'
  BY <1>5 DEF ScanNew, Remember
<1>6. ASSUME NEW d \in 1..MaxGap, Persisting(d) PROVE active'
  BY <1>6 DEF Persisting, Continuing
<1>7. ASSUME NEW d \in 1..MaxGap, Scan(d) PROVE AlertsSettled'
  BY <1>3, <1>4, <1>5, <1>6, <1>7 DEF Scan, ScanFindsAlert, ScanAlerts, ScanWaits
<1>8. CASE Restart
  BY <1>8 DEF Restart
<1>9. CASE CeoReads
  BY <1>2, <1>9 DEF CeoReads
<1>10. CASE Registers \/ Leaves \/ HalfChanges \/ TasksChange \/ UNCHANGED pairVars
  BY <1>1, <1>10 DEF Registers, Leaves, HalfChanges, TasksChange, pairVars, memory, ghosts
<1> QED
  BY <1>7, <1>8, <1>9, <1>10 DEF PairNext

PairInv == PairRest /\ OneAlert /\ AlertsSettled /\ ActiveIsPartial /\ AgeIsSeen

(* The invariant of PairWatch holds at first.                              *)
LEMMA PairInvInit == PairInit => PairInv
<1>1. PairInit => PairRest
  BY PairConstants DEF PairInit, PairRest, NoAlert
<1>2. PairInit => OneAlert
  BY DEF PairInit, OneAlert, NoAlert, Partial
<1>3. PairInit => AlertsSettled /\ ActiveIsPartial /\ AgeIsSeen
  BY DEF PairInit, AlertsSettled, ActiveIsPartial, AgeIsSeen
<1> QED
  BY <1>1, <1>2, <1>3 DEF PairInv

(* Every step keeps it.                                                    *)
LEMMA PairInductive == PairInv /\ [PairNext]_pairVars => PairInv'
  BY PairRestStep, OneAlertStep, MemoryStep, AlertsSettledStep DEF PairInv

(* However the halves flap and whatever fails, the CEO has at most one     *)
(* unread alert of the pair, and none once the cause was seen gone.        *)
THEOREM AlertsFit == PairSpec => []UnreadAlertsFit
<1>1. PairInv => UnreadAlertsFit
  BY FitParts DEF PairInv
<1> QED
  BY <1>1, PairInvInit, PairInductive, PTL DEF PairSpec

(* An alert is written only after a whole grace period in which every scan *)
(* saw the half it names alone.                                            *)
THEOREM AlertsAfterGrace == PairSpec => AlertAfterGrace
<1>1. PairInv /\ [PairNext]_pairVars =>
        [\A s \in Partial :
           alerts'[s] > alerts[s] => last' = s /\ steady' >= Grace]_pairVars
  <2> SUFFICES ASSUME PairInv, [PairNext]_pairVars, NEW s \in Partial, alerts'[s] > alerts[s]
               PROVE  last' = s /\ steady' >= Grace
    OBVIOUS
  <2>1. alerts' # alerts /\ alerts' # NoAlert
    BY DEF PairInv, PairRest, NoAlert
  <2>2. PICK d \in 1..MaxGap : \E ok \in BOOLEAN : ScanAlerts(ok, d)
    BY <2>1 DEF PairNext, Registers, Leaves, HalfChanges, TasksChange, CeoReads, Scan,
         ScanGone, ScanWhole, ScanDone, ScanNew, ScanFindsAlert, ScanWaits,
         Resolve, NoResolve, Restart, pairVars
  <2>3. Persisting(d) /\ Aged(d) >= Grace
    BY <2>2 DEF ScanAlerts
  <2>4. alerts' = [alerts EXCEPT ![PairStatus] = @ + 1]
    BY <2>1, <2>2 DEF ScanAlerts
  <2>5. s = PairStatus
    BY <2>4 DEF PairInv, PairRest
  <2>6. last = PairStatus /\ age <= steady
    BY <2>3 DEF PairInv, AgeIsSeen, Persisting, Continuing
  <2>7. last' = PairStatus /\ steady' = Min2(steady + d, Grace)
    BY <2>3, <2>6 DEF Persisting, Saw, Partial
  <2>8. Min2(steady + d, Grace) >= Grace
    BY <2>3, <2>6, PairConstants DEF Aged, Min2, PairInv, PairRest
  <2> QED
    BY <2>5, <2>7, <2>8
<1> QED
  BY <1>1, PairInvInit, PairInductive, PTL DEF PairSpec, AlertAfterGrace

=============================================================================

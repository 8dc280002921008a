------------------------------ MODULE Sessions ------------------------------
(***************************************************************************)
(* The dashboard's control of the CTO sessions and of the servers of a     *)
(* build: start, fresh start, stop and delete of one project, start-all    *)
(* and stop-all, shutdown-all, and the dev and docker toggles.  Every      *)
(* request is a thread of the backend; most run ./run.sh under the lock of *)
(* their project (taken or answered "busy" at once) and, except delete and *)
(* shutdown-all, under one lock for all sessions.                          *)
(*                                                                         *)
(* A member of a CTO session is a tab of Orca, titled with its role, and a *)
(* keeper, the process that holds the agent and survives its tab.  The     *)
(* keeper's socket, by which everybody finds it, appears some time after   *)
(* the tab was created.  A member counts as alive with both a tab and a    *)
(* socket.  When Orca does not answer, nobody counts as alive.             *)
(***************************************************************************)
EXTENDS Sequences, FiniteSets, Naturals

CONSTANTS
  Projects,    (* the builds                                               *)
  RoleOrder,   (* the members of a session, in the order they are started  *)
  Requests,    (* the requests made of the dashboard, each by one thread   *)
  Ops,         (* what they may ask for                                    *)
  MaxFaults,   (* bound: tabs that do not close, time-outs, outages of     *)
               (* Orca and deaths of agents                                *)
  Nobody       (* holder of a free lock                                    *)

Roles == {RoleOrder[i] : i \in DOMAIN RoleOrder}

ASSUME SessionsAssumption ==
  /\ RoleOrder \in Seq(Roles) /\ RoleOrder # <<>>
  /\ Nobody \notin Requests
  /\ MaxFaults \in Nat

Members == Projects \X Roles

VARIABLES
  dir,         (* projects whose build directory exists                    *)
  tabs,        (* member -> number of its live tabs                        *)
  keeper,      (* member -> "none", "booting" (no socket yet) or "up"      *)
  orca,        (* Orca answers                                             *)
  late,        (* tabs whose creation outlives the script that ordered it  *)
  listener,    (* project -> who listens on its app ports                  *)
  building,    (* projects with a docker build in the background           *)
  cache,       (* the dashboard's snapshot of who is alive, and its age    *)
  holder,      (* project -> the request that has its lock                 *)
  session,     (* the request that has the session lock                    *)
  req,         (* request -> what it is and how far it got                 *)
  faults       (* bounded by MaxFaults                                     *)

servers == <<listener, building>>
agents == <<dir, tabs, keeper, orca, late>>
locks == <<holder, session>>
vars == <<agents, servers, cache, locks, req, faults>>

SingleOps == {"start", "fresh", "stop", "delete", "dev", "docker"}
AllOps == {"start-all", "stop-all"}
Answers == {"none", "ok", "noop", "failed", "busy", "cut"}

NotAsked == [op |-> "none", pc |-> "idle"]

(* [failed]: a tab did not close, or a look at the ports did not answer;   *)
(* [swept]: the script got as far as killing the keepers; [todo]: projects *)
(* an -all request has still to visit; [left]: tabs still to close;        *)
(* [roles]: members still to start.                                        *)
Threads == [op : Ops, pc : {"next", "hold", "look", "wait", "list", "close", "kill",
                            "remove", "role", "create", "end", "settle", "toggle",
                            "devup", "devdown", "dockerup", "dockerdown", "done"},
            project : Projects, todo : SUBSET Projects, left : SUBSET (Members \X {1, 2}),
            roles : Seq(Roles), failed : BOOLEAN, swept : BOOLEAN, answer : Answers]

TypeOK ==
  /\ dir \subseteq Projects
  /\ tabs \in [Members -> 0..2]
  /\ keeper \in [Members -> {"none", "booting", "up"}]
  /\ orca \in BOOLEAN
  /\ late \subseteq Members
  /\ listener \in [Projects -> {"free", "mock", "dev", "docker"}]
  /\ building \subseteq Projects
  /\ cache \in [alive : SUBSET Members, fresh : BOOLEAN]
  /\ holder \in [Projects -> Requests \cup {Nobody}]
  /\ session \in Requests \cup {Nobody}
  /\ req \in [Requests -> {NotAsked} \cup Threads]
  /\ faults \in 0..MaxFaults

(* Sessions all run, perhaps with a CTO that serves a mock-up of its pages *)
(* on the app ports, or none runs.                                         *)
Running == [pr \in Members |-> "up"]
Stopped == [pr \in Members |-> "none"]

Init ==
  /\ dir = Projects
  /\ \/ /\ tabs = [pr \in Members |-> 1] /\ keeper = Running
        /\ listener \in [Projects -> {"free", "mock"}]
     \/ /\ tabs = [pr \in Members |-> 0] /\ keeper = Stopped
        /\ listener = [p \in Projects |-> "free"]
  /\ orca = TRUE
  /\ late = {}
  /\ building = {}
  /\ cache = [alive |-> {}, fresh |-> FALSE]
  /\ holder = [p \in Projects |-> Nobody]
  /\ session = Nobody
  /\ req = [t \in Requests |-> NotAsked]
  /\ faults = 0

-----------------------------------------------------------------------------
(* Who is alive.                                                           *)

HasSocket(pr) == keeper[pr] = "up"
Alive == IF orca THEN {pr \in Members : tabs[pr] > 0 /\ HasSocket(pr)} ELSE {}

(* The snapshot is a second old at most: older, it is taken again.         *)
Snapshot == IF cache.fresh THEN cache ELSE [alive |-> Alive, fresh |-> TRUE]
Active(S, p) == \E r \in Roles : <<p, r>> \in S.alive
Ready(S, p) == \A r \in Roles : <<p, r>> \in S.alive
Stale(c) == [c EXCEPT !.fresh = FALSE]

(* No agent of [p] runs or is about to.                                    *)
Quiet(p) == \A r \in Roles : keeper[<<p, r>>] = "none"

-----------------------------------------------------------------------------
(* The course of a request.                                                *)

Project(t) == req[t].project
At(t, pc) == req[t].pc = pc
Starts(t) == req[t].op \in {"start", "fresh", "start-all"}

Goto(t, pc) == req' = [req EXCEPT ![t].pc = pc]
OneMoreFault == faults < MaxFaults /\ faults' = faults + 1

(* Leaving the project: its lock goes back, a single request answers, an   *)
(* -all request remembers a failure and visits the next project.           *)
Leave(t, answer) ==
  req' = [req EXCEPT ![t].pc = IF req[t].op \in AllOps THEN "next" ELSE "done",
                     ![t].answer = IF req[t].op \notin AllOps THEN answer
                                   ELSE IF answer = "failed" THEN "failed" ELSE @]
Unlock(t) == holder' = [holder EXCEPT ![Project(t)] = Nobody]

(* A request names a build that exists; an -all request lists the builds   *)
(* now and visits them later.                                              *)
Ask(t, op) ==
  /\ req[t] = NotAsked
  /\ \E p \in Projects :
       /\ op \in SingleOps => p \in dir
       /\ req' = [req EXCEPT ![t] =
            [op |-> op, project |-> p, todo |-> IF op \in AllOps THEN dir ELSE {},
             pc |-> CASE op \in AllOps -> "next" [] op = "shutdown" -> "list" [] OTHER -> "hold",
             left |-> {}, roles |-> <<>>, failed |-> FALSE, swept |-> FALSE,
             answer |-> "none"]]
  /\ UNCHANGED <<agents, servers, cache, locks, faults>>

NextProject(t) ==
  /\ At(t, "next")
  /\ \/ \E p \in req[t].todo :
          req' = [req EXCEPT ![t].project = p, ![t].todo = @ \ {p}, ![t].pc = "hold",
                             ![t].failed = FALSE, ![t].swept = FALSE]
     \/ req[t].todo = {} /\ req' = [req EXCEPT ![t].pc = "done",
                                    ![t].answer = IF @ = "failed" THEN @ ELSE "ok"]
  /\ UNCHANGED <<agents, servers, cache, locks, faults>>

(* Slip: start-all and stop-all go ahead without the lock of the project.  *)
FreeForAll(t) == req[t].op \in AllOps \/ holder[Project(t)] = Nobody
(* Slip: the docker toggle goes ahead without it.                          *)
FreeForDocker(t) == req[t].op = "docker" \/ holder[Project(t)] = Nobody
(* The lock of a project is never waited for.                              *)
Free(t) == holder[Project(t)] = Nobody

Hold(t) ==
  /\ At(t, "hold")
  /\ \/ /\ Free(t)
        /\ holder' = [holder EXCEPT ![Project(t)] = t]
        /\ Goto(t, CASE req[t].op = "delete" -> "list"
                     [] req[t].op \in {"dev", "docker"} -> "toggle"
                     [] OTHER -> "look")
     \/ ~Free(t) /\ Leave(t, "busy") /\ UNCHANGED holder
  /\ UNCHANGED <<agents, servers, cache, session, faults>>

(* Nothing to do when the snapshot already shows what was asked for.       *)
Look(t) ==
  /\ At(t, "look")
  /\ cache' = Snapshot
  /\ LET already == CASE req[t].op = "fresh" -> FALSE
                      [] req[t].op \in {"start", "start-all"} -> Ready(cache', Project(t))
                      [] OTHER -> ~Active(cache', Project(t))
     IN \/ already /\ Leave(t, "noop") /\ Unlock(t)
        \/ ~already /\ Goto(t, "wait") /\ UNCHANGED holder
  /\ UNCHANGED <<agents, servers, session, faults>>

(* The scripts of sessions run one at a time.  add-cto refuses a build     *)
(* whose directory is gone.                                                *)
Serialize(t) ==
  /\ At(t, "wait")
  /\ session = Nobody
  /\ session' = t
  /\ req' = [req EXCEPT
       ![t].pc = IF Starts(t) /\ Project(t) \notin dir THEN "end"
                 ELSE IF req[t].op \in {"start", "start-all"} THEN "role" ELSE "list",
       ![t].roles = RoleOrder]
  /\ UNCHANGED <<agents, servers, cache, holder, faults>>

-----------------------------------------------------------------------------
(* Closing: list the tabs, close each, kill the keepers.                   *)

Listed(t) == {x \in Members \X {1, 2} : /\ x[2] <= tabs[x[1]]
                                        /\ req[t].op = "shutdown" \/ x[1][1] = Project(t)}

(* Without a list nothing is closed and nothing killed; a fresh start goes *)
(* on, the others end.                                                     *)
List(t) ==
  /\ At(t, "list")
  /\ req' = [req EXCEPT ![t].left = IF orca THEN Listed(t) ELSE {},
                        ![t].pc = IF orca THEN "close"
                                  ELSE IF req[t].op = "fresh" THEN "role" ELSE "end",
                        ![t].failed = ~orca]
  /\ UNCHANGED <<agents, servers, cache, locks, faults>>

(* The command typed into a tab dies with its last tab, unless it has come *)
(* as far as its socket.                                                   *)
CloseTab(pr) ==
  /\ tabs' = [tabs EXCEPT ![pr] = @ - 1]
  /\ keeper' = [keeper EXCEPT ![pr] = IF @ = "booting" /\ tabs[pr] = 1 THEN "none" ELSE @]

(* A tab that does not close is only remembered by stop, delete and fresh; *)
(* shutdown-all's `down` returns there and then.                           *)
AfterRefusal(t) == IF req[t].op = "shutdown" THEN "end" ELSE "close"

Close(t) ==
  /\ At(t, "close")
  /\ \E x \in req[t].left :
       \/ /\ orca /\ tabs[x[1]] > 0
          /\ CloseTab(x[1])
          /\ req' = [req EXCEPT ![t].left = @ \ {x}]
          /\ UNCHANGED faults
       \/ /\ IF orca /\ tabs[x[1]] > 0 THEN OneMoreFault ELSE UNCHANGED faults
          /\ req' = [req EXCEPT ![t].left = @ \ {x}, ![t].failed = TRUE,
                                ![t].pc = AfterRefusal(t)]
          /\ UNCHANGED <<tabs, keeper>>
  /\ UNCHANGED <<dir, orca, late, servers, cache, locks>>

Closed(t) ==
  /\ At(t, "close")
  /\ req[t].left = {}
  /\ Goto(t, "kill")
  /\ UNCHANGED <<agents, servers, cache, locks, faults>>

(* Keepers are found by their sockets.                                     *)
Killed(scope) ==
  [pr \in Members |-> IF pr[1] \in scope /\ keeper[pr] = "up" THEN "none" ELSE keeper[pr]]

Scope(t) == IF req[t].op = "shutdown" THEN Projects ELSE {Project(t)}

AfterKill(t) ==
  CASE req[t].op = "shutdown" -> "remove"
    [] req[t].op = "delete" /\ ~req[t].failed -> "remove"
    [] req[t].op = "fresh" -> "role"
    [] OTHER -> "end"

(* Slip: a tab of every member is retired, listed or not.                  *)
RetiredBlindly(t) ==
  IF req[t].op = "fresh" /\ req[t].failed /\ orca
  THEN [pr \in Members |-> IF pr[1] = Project(t) THEN tabs[pr] - 1 ELSE tabs[pr]]
  ELSE tabs
(* A fresh start whose tabs did not close takes their titles away, so that *)
(* the start below does not take them for members.                         *)
Retired(t) ==
  IF req[t].op = "fresh" /\ req[t].failed /\ orca
  THEN [pr \in Members |-> IF pr[1] = Project(t) THEN 0 ELSE tabs[pr]]
  ELSE tabs

Kill(t) ==
  /\ At(t, "kill")
  /\ keeper' = Killed(Scope(t))
  /\ tabs' = Retired(t)
  /\ req' = [req EXCEPT ![t].pc = AfterKill(t), ![t].swept = TRUE]
  /\ UNCHANGED <<dir, orca, late, servers, cache, locks, faults>>

(* delete and down then kill every process that works in the build         *)
(* directory, and its containers; delete removes the directory.            *)
Remove(t) ==
  LET scope == IF req[t].op = "shutdown" THEN dir ELSE {Project(t)} IN
  /\ At(t, "remove")
  /\ keeper' = [pr \in Members |-> IF pr[1] \in scope THEN "none" ELSE keeper[pr]]
  /\ listener' = [p \in Projects |-> IF p \in scope THEN "free" ELSE listener[p]]
  /\ building' = building \ scope
  /\ dir' = IF req[t].op = "delete" THEN dir \ scope ELSE dir
  /\ Goto(t, "end")
  /\ UNCHANGED <<tabs, orca, late, cache, locks, faults>>

-----------------------------------------------------------------------------
(* Starting: for each member look its tab up, then create it, or type the  *)
(* start command again into a tab that has lost its agent.                 *)

Member(t) == <<Project(t), Head(req[t].roles)>>
Booted(pr) == [keeper EXCEPT ![pr] = IF @ = "none" THEN "booting" ELSE @]
NextRole(t) == [req EXCEPT ![t].roles = Tail(@),
                           ![t].pc = IF Len(req[t].roles) = 1 THEN "end" ELSE "role"]

LookUp(t) ==
  /\ At(t, "role")
  /\ \/ orca /\ tabs[Member(t)] = 0 /\ Goto(t, "create") /\ UNCHANGED keeper
     \/ orca /\ tabs[Member(t)] = 1 /\ keeper' = Booted(Member(t)) /\ req' = NextRole(t)
     \/ (~orca \/ tabs[Member(t)] > 1) /\ Goto(t, "end") /\ UNCHANGED keeper
  /\ UNCHANGED <<dir, tabs, orca, late, servers, cache, locks, faults>>

Create(t) ==
  /\ At(t, "create")
  /\ \/ /\ orca /\ tabs[Member(t)] < 2
        /\ tabs' = [tabs EXCEPT ![Member(t)] = @ + 1]
        /\ keeper' = Booted(Member(t))
        /\ req' = NextRole(t)
     \/ ~orca /\ Goto(t, "end") /\ UNCHANGED <<tabs, keeper>>
  /\ UNCHANGED <<dir, orca, late, servers, cache, locks, faults>>

-----------------------------------------------------------------------------
(* The end of a request.                                                   *)

(* Slip: a script that is killed does not give the session lock back.      *)
ReleaseAtEnd(t) == session' = IF session = t /\ At(t, "end") THEN Nobody ELSE session

Release(t) == session' = IF session = t THEN Nobody ELSE session

(* The script is over: the session lock goes back and the snapshot is      *)
(* dropped.  delete answers by the directory, shutdown-all always ok.      *)
End(t) ==
  /\ At(t, "end")
  /\ Release(t)
  /\ cache' = Stale(cache)
  /\ CASE req[t].op = "shutdown" -> Leave(t, "ok") /\ UNCHANGED holder
       [] req[t].op = "delete" ->
            Leave(t, IF Project(t) \in dir THEN "failed" ELSE "ok") /\ Unlock(t)
       [] OTHER -> Goto(t, "settle") /\ UNCHANGED holder
  /\ UNCHANGED <<agents, servers, faults>>

(* start takes snapshots for ten seconds, until all members are alive: a   *)
(* socket that was going to appear has appeared by then.                   *)
Settled(t) == ~Starts(t) \/ \A r \in Roles : keeper[<<Project(t), r>>] # "booting"

Settle(t) ==
  /\ At(t, "settle")
  /\ Settled(t)
  /\ cache' = Snapshot
  /\ LET ok == IF Starts(t) THEN Ready(cache', Project(t)) ELSE ~Active(cache', Project(t))
     IN Leave(t, IF ok THEN "ok" ELSE "failed")
  /\ Unlock(t)
  /\ UNCHANGED <<agents, servers, session, faults>>

(* A script over its time is killed and the request fails with what the    *)
(* script had done.  A creation it had ordered may still happen.           *)
InScript(t) == req[t].pc \in {"list", "close", "kill", "remove", "role", "create"}

Cut(t) ==
  /\ InScript(t)
  /\ OneMoreFault
  /\ late' \in {late, IF At(t, "create") THEN late \cup {Member(t)} ELSE late}
  /\ Release(t)
  /\ holder' = [p \in Projects |-> IF holder[p] = t THEN Nobody ELSE holder[p]]
  /\ req' = [req EXCEPT ![t].pc = "done", ![t].answer = "cut"]
  /\ UNCHANGED <<dir, tabs, keeper, orca, servers, cache>>

-----------------------------------------------------------------------------
(* The dev and docker toggles: both bind the app ports of the build, so    *)
(* each looks for the other before it starts.                              *)

(* What ss and docker ps show of the app ports; one that does not answer   *)
(* in time (it is in [blind]) shows nothing.                               *)
Published(p, blind) == listener[p] = "docker" /\ "docker" \notin blind
Listening(p, blind) == listener[p] # "free" /\ "ss" \notin blind
Mocked(p, blind) == listener[p] = "mock" /\ "mock" \notin blind
DevUp(p, blind) ==
  Listening(p, blind) /\ ~Published(p, blind) /\ ~Mocked(p, blind)

(* dev looks whether it is up itself before it looks for the other,        *)
(* docker likewise.                                                        *)
Toggled(op, p, blind) ==
  CASE op = "dev" /\ DevUp(p, blind) -> "devdown"
    [] op = "docker" /\ Published(p, blind) -> "dockerdown"
    [] op = "dev" /\ Published(p, blind) -> "refused"
    [] op = "docker" /\ DevUp(p, blind) -> "refused"
    [] Mocked(p, blind) -> "refused"
    [] OTHER -> IF op = "dev" THEN "devup" ELSE "dockerup"

Toggle(t) ==
  /\ At(t, "toggle")
  /\ \E blind \in SUBSET {"docker", "ss", "mock"} :
       LET next == Toggled(req[t].op, Project(t), blind) IN
         /\ IF blind = {} THEN UNCHANGED faults ELSE OneMoreFault
         /\ \/ /\ next # "refused"
               /\ req' = [req EXCEPT ![t].pc = next, ![t].failed = blind # {}]
               /\ UNCHANGED holder
            \/ next = "refused" /\ Leave(t, "failed") /\ Unlock(t)
  /\ UNCHANGED <<agents, servers, cache, session>>

(* dev.sh refuses ports that are taken by then.  On the way down whoever   *)
(* has the ports by then is killed and the ports are looked at again,      *)
(* whatever dev.sh did.                                                    *)
DevDone(t) ==
  LET p == Project(t) IN
  /\ \/ /\ At(t, "devup") /\ listener[p] = "free"
        /\ listener' = [listener EXCEPT ![p] = "dev"] /\ Leave(t, "ok")
     \/ At(t, "devup") /\ Leave(t, "failed") /\ UNCHANGED listener
     \/ /\ At(t, "devdown")
        /\ listener' = [listener EXCEPT ![p] = "free"] /\ Leave(t, "ok")
     \/ /\ At(t, "devdown") /\ listener[p] # "free"
        /\ Leave(t, "failed") /\ UNCHANGED listener
  /\ Unlock(t)
  /\ UNCHANGED <<agents, building, cache, session, faults>>

(* docker down is waited for; docker up is started in the background and   *)
(* answered at once, minutes before it binds a port.                       *)
DockerDone(t) ==
  LET p == Project(t) IN
  /\ \/ /\ At(t, "dockerup")
        /\ building' = building \cup {p} /\ Leave(t, "ok") /\ UNCHANGED listener
     \/ /\ At(t, "dockerdown")
        /\ listener' = [listener EXCEPT ![p] = IF @ = "docker" THEN "free" ELSE @]
        /\ Leave(t, "ok") /\ UNCHANGED building
     \/ At(t, "dockerdown") /\ Leave(t, "failed") /\ UNCHANGED servers
  /\ Unlock(t)
  /\ UNCHANGED <<agents, cache, session, faults>>

-----------------------------------------------------------------------------
(* What happens by itself.                                                 *)

SocketAppears(pr) ==
  /\ keeper[pr] = "booting"
  /\ keeper' = [keeper EXCEPT ![pr] = "up"]
  /\ UNCHANGED <<dir, tabs, orca, late, servers, cache, locks, req, faults>>

AgentDies(pr) ==
  /\ keeper[pr] = "up"
  /\ OneMoreFault
  /\ keeper' = [keeper EXCEPT ![pr] = "none"]
  /\ UNCHANGED <<dir, tabs, orca, late, servers, cache, locks, req>>

LateTab(pr) ==
  /\ pr \in late /\ tabs[pr] < 2
  /\ late' = late \ {pr}
  /\ tabs' = [tabs EXCEPT ![pr] = @ + 1]
  /\ keeper' = Booted(pr)
  /\ UNCHANGED <<dir, orca, servers, cache, locks, req, faults>>

OrcaFalters ==
  /\ \/ orca /\ OneMoreFault
     \/ ~orca /\ UNCHANGED faults
  /\ orca' = ~orca
  /\ UNCHANGED <<dir, tabs, keeper, late, servers, cache, locks, req>>

(* Any view of the page refreshes the snapshot; a second makes it stale.   *)
PollOrAge ==
  /\ cache' = IF cache.fresh THEN Stale(cache) ELSE Snapshot
  /\ UNCHANGED <<agents, servers, locks, req, faults>>

(* A build ends, with containers if the ports are free by then.            *)
BuildEnds(p) ==
  /\ p \in building
  /\ building' = building \ {p}
  /\ listener' \in {listener, [listener EXCEPT ![p] = IF @ = "free" THEN "docker" ELSE @]}
  /\ UNCHANGED <<agents, cache, locks, req, faults>>

Step(t) ==
  \/ NextProject(t) \/ Hold(t) \/ Look(t) \/ Serialize(t)
  \/ List(t) \/ Close(t) \/ Closed(t) \/ Kill(t) \/ Remove(t)
  \/ LookUp(t) \/ Create(t) \/ End(t) \/ Settle(t)
  \/ Toggle(t) \/ DevDone(t) \/ DockerDone(t)

Next ==
  \/ \E t \in Requests : Step(t) \/ Cut(t) \/ \E op \in Ops : Ask(t, op)
  \/ \E pr \in Members : SocketAppears(pr) \/ AgentDies(pr) \/ LateTab(pr)
  \/ OrcaFalters \/ PollOrAge
  \/ \E p \in Projects : BuildEnds(p)

(* A thread runs on, and a keeper makes its socket; requests need not come *)
(* and nothing else need happen.                                           *)
Fairness ==
  /\ \A t \in Requests : WF_vars(Step(t))
  /\ \A pr \in Members : WF_vars(SocketAppears(pr))

Spec == Init /\ [][Next]_vars /\ Fairness

-----------------------------------------------------------------------------

(* A stop that ran its script as far as the keepers and answers ok, and a  *)
(* delete that answers ok, leave no agent of the project running or coming *)
(* up, whatever tabs did not close and whatever else the dashboard was     *)
(* asked meanwhile.  Beyond them are a creation outliving a timed-out      *)
(* start and an add-cto typed into a shell; and a stop that finds nobody   *)
(* alive in its snapshot answers ok without the script, and says nothing.  *)
Ended(t, op) == req[t].op = op /\ req[t].pc # "done" /\ req'[t].pc = "done"
OkMeansQuiet ==
  [][\A t \in Requests :
       /\ Ended(t, "delete") \/ (Ended(t, "stop") /\ req[t].swept)
       /\ req'[t].answer = "ok"
       => \/ Quiet(Project(t))
          \/ \E u \in Requests : req[u].answer = "cut" /\ Starts(u)]_vars

(* A docker build is never started over dev servers that could be seen:    *)
(* between the look at the ports and the start only a dev toggle of the    *)
(* same project could have bound them, and the lock of the project is      *)
(* held.  (The other way round there is no such promise: the lock is given *)
(* back while the build still runs, so dev servers may start under it.)    *)
BuildNotOverDev ==
  [][\A p \in building' \ building :
       \/ listener[p] # "dev"
       \/ \E t \in Requests : At(t, "dockerup") /\ Project(t) = p /\ req[t].failed]_vars

(* Every request is answered: no order of locks makes two requests wait    *)
(* for each other, and no time-out keeps a lock.                           *)
Answered == \A t \in Requests : req[t].op # "none" ~> At(t, "done")

=============================================================================

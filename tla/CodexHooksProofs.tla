--------------------------- MODULE CodexHooksProofs ---------------------------
(***************************************************************************)
(* Theorems about CodexHooks, for any number of launches, hooks, rounds,   *)
(* rewrites and edits: its types, and its three safety properties.         *)
(***************************************************************************)
EXTENDS CodexHooks, TLAPS

Jsons == {NoJson, Garbled} \cup {Json(S) : S \in SUBSET Hooks}
Places == {"idle", "create", "command", "json", "config", "check", "replace",
           "recheck", "unlink", "codex", "failed"}
Runs == [at : Places, json : Jsons, config : Config, tries : 0..(Tries - 1)]

(* What a hooks.json holds: hooks only where it can be read.               *)
LEMMA HooksOfJson ==
  ASSUME NEW j \in Jsons
  PROVE  /\ j.hooks \in SUBSET Hooks
         /\ j.is = "hooks" => j = Json(j.hooks)
         /\ j.is \in {"none", "garbled", "hooks"}
         /\ j.is = "none" <=> j = NoJson
  BY DEF Jsons, NoJson, Garbled, Json

(* A run at its start has the type of one.                                 *)
LEMMA FreshType == ASSUME NEW pc \in Places PROVE Fresh(pc) \in Runs
<1>1. NoConfig \in Config
  BY CodexHooksAssumption DEF NoConfig, Config
<1>2. NoJson \in Jsons /\ 0 \in 0..(Tries - 1)
  BY CodexHooksAssumption DEF Jsons
<1> QED
  BY <1>1, <1>2 DEF Fresh, Runs

-----------------------------------------------------------------------------
(* What a fold makes of the table of one hook: one that carries a command  *)
(* of the fold goes first, then every hook of the fold is appended.        *)
LEMMA FoldedTable ==
  ASSUME NEW c \in Config, NEW S \in SUBSET Hooks, NEW h \in Hooks
  PROVE  LET before == IF Command[h] \in Owned(S) THEN 0 ELSE c.tables[h]
         IN Updated(c, S).tables[h]
              = IF h \in Merged(S) /\ before < 2 THEN before + 1 ELSE before
  BY DEF Updated, Config, Appended, Strip

(* Folding changes the tables and leaves the rest of the file.             *)
LEMMA FoldedRest ==
  ASSUME NEW c \in Config, NEW S \in SUBSET Hooks
  PROVE  Updated(c, S) \in Config /\ Updated(c, S).rest = c.rest
<1> DEFINE t == Appended(Strip(c.tables, Owned(S)), Merged(S))
<1>1. Strip(c.tables, Owned(S)) \in [Hooks -> 0..2]
  BY DEF Strip, Config
<1>2. t \in [Hooks -> 0..2]
  BY <1>1 DEF Appended
<1>3. Updated(c, S) = [c EXCEPT !.there = TRUE, !.tables = t]
  BY DEF Updated
<1> HIDE DEF t
<1> QED
  BY <1>2, <1>3 DEF Config

(* A fold leaves each hook of the harness exactly once, no other hook with *)
(* its command, and every other hook of Orca's at least once.              *)
LEMMA FoldLeaves ==
  ASSUME NEW c \in Config, NEW S \in SUBSET Hooks, NEW h \in Hooks
  PROVE  LET t == Updated(c, S).tables[h]
         IN /\ h \in Canonical => t = 1
            /\ h \notin Canonical /\ Command[h] \in Harness => t = 0
            /\ h \in S /\ Command[h] \notin Harness => t > 0
            /\ h \in Named /\ c.tables[h] <= 1 => t <= 1
            /\ Command[h] \notin Owned(S) /\ c.tables[h] > 0 => t > 0
<1>1. c.tables[h] \in 0..2
  BY DEF Config
<1>2. h \in Canonical => h \in Merged(S) /\ Command[h] \in Owned(S)
  BY DEF Merged, Owned, Harness
<1>3. h \notin Canonical /\ Command[h] \in Harness
        => h \notin Merged(S) /\ Command[h] \in Owned(S)
  BY DEF Merged, Owned
<1>4. h \in S /\ Command[h] \notin Harness => h \in Merged(S)
  BY DEF Merged
<1>5. h \in Named /\ h \in Merged(S) => Command[h] \in Owned(S)
  BY DEF Merged, Owned, Named, Harness
<1> QED
  BY <1>1, <1>2, <1>3, <1>4, <1>5, FoldedTable

(* A fold of what Orca writes keeps the user's hooks.                      *)
LEMMA FoldKeepsOwn ==
  ASSUME NEW c \in Config, NEW S \in Written, NEW h \in Own, c.tables[h] > 0
  PROVE  Updated(c, S).tables[h] > 0
<1>1. h \in Hooks /\ Command[h] \notin Harness /\ S \in SUBSET Hooks
  BY CodexHooksAssumption
<1>2. Command[h] \in Owned(S) => h \in S
  BY <1>1, CodexHooksAssumption DEF Owned, Named
<1> QED
  BY <1>1, <1>2, FoldLeaves

-----------------------------------------------------------------------------
(* The types have parts: the truth values, and the rest.                   *)
Bools == {rewritten, edited} \subseteq BOOLEAN
Rest ==
  /\ json \in Jsons /\ config \in Config
  /\ lock \in Launches \cup {Nobody}
  /\ run \in [Launches -> Runs]
  /\ last \subseteq Hooks /\ mine \subseteq Own
  /\ writes \in 0..MaxWrites /\ edits \in 0..MaxEdits

(* The types in two groups, one for each kind of prover.                   *)
LEMMA TypeParts == TypeOK <=> Bools /\ Rest
  BY DEF TypeOK, Bools, Rest, Runs, Places, Jsons

(* The truth values stay truth values.                                     *)
LEMMA BoolsStep == Bools /\ [Next]_vars => Bools'
<1> SUFFICES ASSUME Bools, [Next]_vars PROVE Bools'
  OBVIOUS
<1> USE DEF Bools
<1>1. CASE OtherTerminal \/ Edit
  BY <1>1 DEF OtherTerminal, OrcaWrites, Edit
<1>2. ASSUME NEW l \in Launches, Create(l) PROVE Bools'
  BY <1>2 DEF Create, OrcaWrites, history
<1>3. CASE UNCHANGED history
  BY <1>3 DEF history
<1> QED
  BY <1>1, <1>2, <1>3 DEF Next, Preflight, Lock, SnapJson, SnapConfig, CheckConfig,
     ReplaceConfig, CheckJson, Unlink, Crash, vars

(* A round begun again, or given up.                                       *)
LEMMA AgainType ==
  ASSUME Rest, NEW l \in Launches, Again(l)
  PROVE  run' \in [Launches -> Runs] /\ lock' \in Launches \cup {Nobody}
<1>1. CASE run[l].tries + 1 = Tries
  BY <1>1, FreshType DEF Again, Ends, Goes, Rest, Places
<1>2. CASE run[l].tries + 1 # Tries
  <2>1. run[l].tries + 1 \in 0..(Tries - 1)
    BY <1>2, CodexHooksAssumption DEF Rest, Runs
  <2>2. Fresh("json") \in Runs
    BY FreshType DEF Places
  <2>3. [Fresh("json") EXCEPT !.tries = run[l].tries + 1] \in Runs
    BY <2>1, <2>2 DEF Runs
  <2> QED
    BY <1>2, <2>3 DEF Again, Goes, Rest
<1> QED
  BY <1>1, <1>2

(* A run that goes on keeps its type.                                      *)
LEMMA ToType ==
  ASSUME Rest, NEW l \in Launches, NEW pc \in Places
  PROVE  To(l, pc) \in Runs
  BY DEF To, Rest, Runs

(* So does hooks.json when Orca writes it.                                 *)
LEMMA OrcaWritesType ==
  ASSUME Rest, OrcaWrites
  PROVE  json' \in Jsons /\ last' \subseteq Hooks /\ writes' \in 0..MaxWrites /\ mine' = mine
  BY CodexHooksAssumption DEF Rest, OrcaWrites, Jsons

(* Every step keeps the other types.                                       *)
LEMMA RestStep == Rest /\ [Next]_vars => Rest'
<1> SUFFICES ASSUME Rest, [Next]_vars PROVE Rest'
  OBVIOUS
<1> USE DEF Rest, Places
<1>1. ASSUME NEW l \in Launches, Preflight(l) PROVE Rest'
  BY <1>1, ToType DEF Preflight, Goes, history
<1>2. ASSUME NEW l \in Launches, Create(l) PROVE Rest'
  BY <1>2, ToType, OrcaWritesType DEF Create, Goes, history
<1>3. ASSUME NEW l \in Launches, Lock(l) PROVE Rest'
  BY <1>3, FreshType DEF Lock, Goes, history
<1>4. ASSUME NEW l \in Launches, SnapJson(l) PROVE Rest'
  <2>1. [To(l, "config") EXCEPT !.json = json] \in Runs
    BY ToType DEF Runs
  <2> QED
    BY <1>4, <2>1 DEF SnapJson, Goes, history
<1>5. ASSUME NEW l \in Launches, SnapConfig(l) PROVE Rest'
  <2>1. [To(l, "check") EXCEPT !.config = config] \in Runs
    BY ToType DEF Runs
  <2>2. run' \in [Launches -> Runs] /\ lock' \in Launches \cup {Nobody}
    BY <1>5, <2>1, FreshType DEF SnapConfig, Ends, Goes
  <2> QED
    BY <1>5, <2>2 DEF SnapConfig, history
<1>6. ASSUME NEW l \in Launches, CheckConfig(l) \/ CheckJson(l) PROVE Rest'
  <2>1. run' \in [Launches -> Runs] /\ lock' \in Launches \cup {Nobody}
    BY <1>6, AgainType, ToType DEF CheckConfig, CheckJson, Goes
  <2> QED
    BY <1>6, <2>1 DEF CheckConfig, CheckJson, history
<1>7. ASSUME NEW l \in Launches, ReplaceConfig(l) PROVE Rest'
  <2>1. run[l].config \in Config /\ run[l].json.hooks \in SUBSET Hooks
    BY HooksOfJson DEF Runs
  <2>2. config' \in Config
    BY <1>7, <2>1, FoldedRest DEF ReplaceConfig
  <2> QED
    BY <1>7, <2>2, ToType DEF ReplaceConfig, Goes, history
<1>8. ASSUME NEW l \in Launches, Unlink(l) \/ Crash(l) PROVE Rest'
  <2>1. json' \in Jsons
    BY <1>8 DEF Unlink, Crash, Jsons
  <2> QED
    BY <1>8, <2>1, FreshType DEF Unlink, Crash, Ends, Goes, history
<1>9. CASE OtherTerminal
  BY <1>9, OrcaWritesType DEF OtherTerminal
<1>10. CASE Edit
  <2>1. PICK S \in SUBSET Own, sound \in BOOLEAN :
          /\ config' = [there |-> TRUE, rest |-> edits + 1, sound |-> sound,
                        tables |-> [h \in Hooks |-> IF h \in S /\ config.tables[h] = 0
                                                      THEN 1 ELSE config.tables[h]]]
          /\ mine' = mine \cup S
    BY <1>10 DEF Edit
  <2>2. edits + 1 \in 0..MaxEdits /\ edits' = edits + 1
    BY <1>10, CodexHooksAssumption DEF Edit
  <2>3. config.tables \in [Hooks -> 0..2]
    BY DEF Config
  <2>4. config' \in Config
    BY <2>1, <2>2, <2>3 DEF Config
  <2> QED
    BY <1>10, <2>1, <2>2, <2>4 DEF Edit
<1>11. CASE UNCHANGED vars
  BY <1>11 DEF vars, history
<1> QED
  BY <1>1, <1>2, <1>3, <1>4, <1>5, <1>6, <1>7, <1>8, <1>9, <1>10, <1>11 DEF Next

(* The types hold at first.                                                *)
LEMMA TypeInit == Init => Bools /\ Rest
<1> SUFFICES ASSUME Init PROVE Bools /\ Rest
  OBVIOUS
<1>1. json \in Jsons
  BY CodexHooksAssumption DEF Init, Jsons
<1>2. config \in Config
  <2>1. NoConfig \in Config
    BY CodexHooksAssumption DEF NoConfig, Config
  <2>2. ASSUME NEW S \in SUBSET (Canonical \cup Own)
        PROVE [there |-> TRUE, tables |-> [h \in Hooks |-> IF h \in S THEN 1 ELSE 0],
               rest |-> 0, sound |-> TRUE] \in Config
    BY CodexHooksAssumption DEF Config
  <2> QED
    BY <2>1, <2>2 DEF Init
<1>3. run \in [Launches -> Runs]
  BY FreshType DEF Init, Places
<1>4. last \subseteq Hooks /\ mine \subseteq Own
  BY <1>1, HooksOfJson DEF Init
<1>5. lock \in Launches \cup {Nobody} /\ writes \in 0..MaxWrites /\ edits \in 0..MaxEdits
  BY CodexHooksAssumption DEF Init
<1> QED
  BY <1>1, <1>2, <1>3, <1>4, <1>5 DEF Init, Bools, Rest

(* Files, launches and histories stay in their types; a fold never makes   *)
(* a table occur more often than Config counts.                            *)
THEOREM TypeCorrect == Spec => []TypeOK
  BY TypeInit, TypeParts, BoolsStep, RestStep, PTL DEF Spec

-----------------------------------------------------------------------------
(* Once and CodexGuarded.  A fold acts on a snapshot, so that has to be a  *)
(* text with nothing twice as well; and what a launch found in config.toml *)
(* when it was guarded stays there, whoever writes the file next.          *)
OnceIn(c) ==
  /\ \A h \in Named : c.tables[h] <= 1
  /\ \A h \in Hooks \ Canonical : Command[h] \in Harness => c.tables[h] = 0
Guarded == \A h \in Canonical : config.tables[h] = 1
SnapsOnce == \A l \in Launches : OnceIn(run[l].config)
GuardedBy == \A l \in Launches : run[l].at \in {"recheck", "unlink", "codex"} => Guarded
OnceInv == OnceIn(config) /\ SnapsOnce /\ GuardedBy

(* A run at its start has an orderly snapshot, an empty one.               *)
LEMMA FreshOnce == ASSUME NEW pc PROVE OnceIn(Fresh(pc).config) /\ Fresh(pc).at = pc
  BY DEF OnceIn, Fresh, NoConfig, Named

(* A missing hooks.json is believed only if every hook is in its place.    *)
LEMMA FoldedGuards ==
  ASSUME Rest, OnceIn(config), Folded(config)
  PROVE  Guarded
<1> SUFFICES ASSUME NEW h \in Canonical PROVE config.tables[h] = 1
  BY DEF Guarded
<1>1. Command[h] \in Harness /\ h \in Named
  BY CodexHooksAssumption DEF Harness
<1>2. PICK g \in Named : config.tables[g] > 0 /\ Command[g] = Command[h]
  BY <1>1 DEF Folded, Seen
<1>3. g \in Hooks /\ config.tables[g] \in 0..2
  BY DEF Named, Rest, Config
<1>4. g \in Canonical
  BY <1>1, <1>2, <1>3 DEF OnceIn
<1>5. g = h
  BY <1>2, <1>4, CodexHooksAssumption
<1> QED
  BY <1>2, <1>3, <1>5 DEF OnceIn

(* An edit adds no hook a second time and takes none out.                  *)
LEMMA EditKeeps ==
  ASSUME Rest, Edit
  PROVE  /\ OnceIn(config) => OnceIn(config)'
         /\ Guarded => Guarded'
         /\ \A h \in Hooks : config.tables[h] > 0 => config'.tables[h] > 0
<1>1. PICK S \in SUBSET Own :
        config'.tables = [h \in Hooks |-> IF h \in S /\ config.tables[h] = 0
                                            THEN 1 ELSE config.tables[h]]
  BY DEF Edit
<1>2. \A h \in S : Command[h] \notin Harness /\ h \notin Canonical
  BY CodexHooksAssumption DEF Harness
<1>3. \A h \in Hooks : config.tables[h] \in 0..2
  BY DEF Rest, Config
<1>4. \A h \in Hooks : config'.tables[h] = IF h \in S /\ config.tables[h] = 0
                                            THEN 1 ELSE config.tables[h]
  BY <1>1
<1>5. Named \subseteq Hooks /\ Canonical \subseteq Hooks
  BY CodexHooksAssumption DEF Named
<1>6. OnceIn(config) => OnceIn(config)'
  BY <1>2, <1>3, <1>4, <1>5 DEF OnceIn
<1>7. Guarded => Guarded'
  BY <1>2, <1>4, <1>5 DEF Guarded
<1> QED
  BY <1>3, <1>4, <1>6, <1>7

(* Every step keeps files and snapshots orderly, and the guards in place.  *)
LEMMA OnceStep == Rest /\ OnceInv /\ [Next]_vars => OnceInv'
<1> SUFFICES ASSUME Rest, OnceInv, [Next]_vars PROVE OnceInv'
  OBVIOUS
<1> USE DEF OnceInv, SnapsOnce, GuardedBy
(* Steps that leave config.toml alone only have to say where they lead.    *)
<1>1. ASSUME UNCHANGED config PROVE OnceIn(config)' /\ (Guarded <=> Guarded')
  BY <1>1 DEF OnceIn, Guarded
<1>2. ASSUME NEW l \in Launches, UNCHANGED config,
             NEW r, Goes(l, r), OnceIn(r.config),
             r.at \in {"recheck", "unlink", "codex"} => Guarded
      PROVE OnceInv'
  <2>1. run'[l] = r /\ \A m \in Launches \ {l} : run'[m] = run[m]
    BY <1>2 DEF Goes, Rest
  <2>2. SnapsOnce'
    <3> SUFFICES ASSUME NEW m \in Launches PROVE OnceIn(run'[m].config)
      BY DEF SnapsOnce, OnceIn
    <3> QED
      BY <1>2, <2>1
  <2>3. GuardedBy'
    BY <1>1, <1>2, <2>1
  <2> QED
    BY <1>1, <1>2, <2>2, <2>3
<1>3. ASSUME NEW l \in Launches, NEW pc \in Places
      PROVE To(l, pc).at = pc /\ OnceIn(To(l, pc).config)
  <2>1. run[l] \in Runs
    BY DEF Rest
  <2>2. To(l, pc).config = run[l].config /\ To(l, pc).at = pc
    BY <2>1 DEF To, Runs
  <2> QED
    BY <2>2
<1>4. ASSUME NEW l \in Launches, Preflight(l) \/ Create(l) PROVE OnceInv'
  BY <1>2, <1>3, <1>4 DEF Preflight, Create, Places
<1>5. ASSUME NEW l \in Launches, Lock(l) \/ Crash(l) PROVE OnceInv'
  BY <1>2, <1>5, FreshOnce DEF Lock, Crash, Ends
<1>6. ASSUME NEW l \in Launches, SnapJson(l) PROVE OnceInv'
  <2> DEFINE r == [To(l, "config") EXCEPT !.json = json]
  <2>1. r.at = "config" /\ r.config = To(l, "config").config
    BY DEF To, Rest, Runs
  <2>2. OnceIn(r.config)
    BY <1>3, <2>1 DEF Places
  <2> HIDE DEF r
  <2>3. Goes(l, r) /\ UNCHANGED config
    BY <1>6 DEF SnapJson, r
  <2> QED
    BY <1>2, <2>1, <2>2, <2>3
<1>7. ASSUME NEW l \in Launches, SnapConfig(l) PROVE OnceInv'
  <2>1. CASE Folded(config) /\ Ends(l, "codex")
    BY <1>2, <1>7, <2>1, FreshOnce, FoldedGuards DEF SnapConfig, Ends
  <2>2. CASE Ends(l, "failed")
    BY <1>2, <1>7, <2>2, FreshOnce DEF SnapConfig, Ends
  <2>3. CASE Goes(l, [To(l, "check") EXCEPT !.config = config])
    <3> DEFINE r == [To(l, "check") EXCEPT !.config = config]
    <3>1. r.at = "check" /\ r.config = config
      BY DEF To, Rest, Runs
    <3> HIDE DEF r
    <3>2. Goes(l, r) /\ UNCHANGED config
      BY <1>7, <2>3 DEF SnapConfig, r
    <3> QED
      BY <1>2, <3>1, <3>2
  <2> QED
    BY <1>7, <2>1, <2>2, <2>3 DEF SnapConfig
<1>8. ASSUME NEW l \in Launches, UNCHANGED config, Again(l) PROVE OnceInv'
  <2>1. CASE Ends(l, "failed")
    BY <1>2, <1>8, <2>1, FreshOnce DEF Ends
  <2>2. CASE Goes(l, [Fresh("json") EXCEPT !.tries = run[l].tries + 1])
    <3> DEFINE r == [Fresh("json") EXCEPT !.tries = run[l].tries + 1]
    <3>1. r.at = "json" /\ r.config = Fresh("json").config
      BY DEF Fresh
    <3> HIDE DEF r
    <3>2. Goes(l, r)
      BY <2>2 DEF r
    <3> QED
      BY <1>2, <1>8, <3>1, <3>2, FreshOnce
  <2> QED
    BY <1>8, <2>1, <2>2 DEF Again
<1>9. ASSUME NEW l \in Launches, CheckConfig(l) PROVE OnceInv'
  BY <1>2, <1>3, <1>8, <1>9 DEF CheckConfig, Places
<1>10. ASSUME NEW l \in Launches, CheckJson(l) PROVE OnceInv'
  BY <1>2, <1>3, <1>8, <1>10 DEF CheckJson, Places, At
<1>11. ASSUME NEW l \in Launches, Unlink(l) PROVE OnceInv'
  BY <1>2, <1>11, FreshOnce DEF Unlink, Ends, At
(* The rename: whatever the snapshot held, every hook is in its place.     *)
<1>12. ASSUME NEW l \in Launches, ReplaceConfig(l) PROVE OnceInv'
  <2> DEFINE c == run[l].config  S == run[l].json.hooks
  <2>1. c \in Config /\ S \in SUBSET Hooks /\ config' = Updated(c, S)
    BY <1>12, HooksOfJson DEF ReplaceConfig, Rest, Runs
  <2>2. OnceIn(c)
    OBVIOUS
  <2> HIDE DEF c, S
  <2>3. Named \subseteq Hooks /\ Canonical \subseteq Hooks
    BY CodexHooksAssumption DEF Named
  <2>4. OnceIn(config)'
    BY <2>1, <2>2, <2>3, FoldLeaves DEF OnceIn
  <2>5. Guarded'
    BY <2>1, <2>3, FoldLeaves DEF Guarded
  <2>6. run' = [run EXCEPT ![l] = To(l, "recheck")]
    BY <1>12 DEF ReplaceConfig, Goes
  <2>7. SnapsOnce'
    <3> SUFFICES ASSUME NEW m \in Launches PROVE OnceIn(run'[m].config)
      BY DEF SnapsOnce, OnceIn
    <3> QED
      BY <1>3, <2>6 DEF Rest, Places
  <2> QED
    BY <2>4, <2>5, <2>7
<1>13. CASE Edit
  <2>1. UNCHANGED run
    BY <1>13 DEF Edit
  <2> QED
    BY <1>13, <2>1, EditKeeps DEF OnceIn
<1>14. CASE OtherTerminal \/ UNCHANGED vars
  <2>1. UNCHANGED <<run, config>>
    BY <1>14 DEF OtherTerminal, vars
  <2> QED
    BY <2>1 DEF OnceIn, Guarded
<1> QED
  BY <1>4, <1>5, <1>6, <1>7, <1>9, <1>10, <1>11, <1>12, <1>13, <1>14 DEF Next

(* They are so at first.                                                   *)
LEMMA OnceInit == Init => OnceInv
<1> SUFFICES ASSUME Init PROVE OnceInv
  OBVIOUS
<1>1. OnceIn(config)
  <2>1. Named \subseteq Hooks
    BY DEF Named
  <2>2. OnceIn(NoConfig)
    BY <2>1 DEF OnceIn, NoConfig
  <2>3. ASSUME NEW S \in SUBSET (Canonical \cup Own),
               config = [there |-> TRUE, rest |-> 0, sound |-> TRUE,
                         tables |-> [h \in Hooks |-> IF h \in S THEN 1 ELSE 0]]
        PROVE OnceIn(config)
    BY <2>1, <2>3, CodexHooksAssumption DEF OnceIn
  <2> QED
    BY <2>2, <2>3 DEF Init
<1>2. \A l \in Launches : run[l] = Fresh("idle")
  BY DEF Init
<1> QED
  BY <1>1, <1>2, FreshOnce DEF OnceInv, SnapsOnce, GuardedBy

(* However many launches fold, die and fold again, no hook with a command  *)
(* is there twice, and the harness's commands only in their places.        *)
THEOREM HooksOnce == Spec => []Once
<1>1. OnceInv => Once
  BY DEF OnceInv, OnceIn, Once
<1> QED
  BY <1>1, TypeInit, OnceInit, RestStep, OnceStep, PTL DEF Spec

(* A launch that became Codex has every safety hook in config.toml.        *)
THEOREM GuardsInPlace == Spec => []CodexGuarded
<1>1. OnceInv => CodexGuarded
  BY DEF OnceInv, GuardedBy, Guarded, CodexGuarded, At
<1> QED
  BY <1>1, TypeInit, OnceInit, RestStep, OnceStep, PTL DEF Spec

-----------------------------------------------------------------------------
(* NothingLost.  Only the lock keeps two folds apart; under it the text a  *)
(* fold renames over config.toml is the one it looked at, unless an edit   *)
(* came (Looked), hooks.json is there from the snapshot to the unlink      *)
(* (Waiting) and is the one that was folded, unless Orca wrote (Relooked), *)
(* and what was folded stays in config.toml (Carried).                     *)
Folding(l) == run[l].at \in {"json", "config", "check", "replace", "recheck", "unlink"}
LockHeld == \A l \in Launches : Folding(l) => lock = l
FromOrca ==
  /\ json.is = "hooks" => json.hooks = last /\ (json.hooks \in Written)
  /\ json.is = "none" \/ json.is = "garbled" \/ json.is = "hooks"
SnapFromOrca ==
  \A l \in Launches :
     /\ run[l].json.is = "hooks" => run[l].json.hooks \in Written
     /\ run[l].at \in {"check", "replace", "recheck", "unlink"}
          => run[l].json.is = "hooks"
Waiting ==
  \A l \in Launches : Folding(l) /\ run[l].at # "json" /\ run[l].json.is = "hooks"
                     => json # NoJson
Looked == \A l \in Launches : run[l].at = "replace" => edited \/ run[l].config = config
Relooked == \A l \in Launches : run[l].at = "unlink" => rewritten \/ run[l].json = json
InConfig(S) == \A h \in S : Command[h] \in Harness \/ config.tables[h] > 0
Carried == \A l \in Launches : run[l].at \in {"recheck", "unlink"} => InConfig(run[l].json.hooks)
MineKept == edited \/ (config.rest = edits /\ \A h \in mine : config.tables[h] > 0)
OrcaKept == rewritten \/ json # NoJson \/ InConfig(last)
KeptInv == /\ LockHeld /\ FromOrca /\ SnapFromOrca /\ Waiting /\ Looked
           /\ Relooked /\ Carried /\ MineKept /\ OrcaKept

(* A step of one launch that touches neither file: it may hand the lock on *)
(* or give it back, if it then folds no longer.                            *)
LEMMA QuietStep ==
  ASSUME Rest, KeptInv, NEW l \in Launches, NEW r, Goes(l, r),
         UNCHANGED <<json, config, history, writes, edits>>,
         lock = l \/ lock = Nobody \/ (~Folding(l) /\ lock' = lock),
         r.at \in {"json", "config", "check", "replace", "recheck", "unlink"}
           => lock' = l,
         lock' # lock => lock' = l \/ lock' = Nobody,
         r.json.is = "hooks" => r.json.hooks \in Written,
         r.at \in {"check", "replace", "recheck", "unlink"} => r.json.is = "hooks",
         r.at \in {"config", "check", "replace", "recheck", "unlink"}
           /\ r.json.is = "hooks" => json # NoJson,
         r.at = "replace" => r.config = config,
         r.at = "unlink" => r.json = json,
         r.at \in {"recheck", "unlink"} => InConfig(r.json.hooks)
  PROVE  KeptInv'
<1> USE DEF KeptInv, Folding
<1>1. run'[l] = r /\ \A m \in Launches \ {l} : run'[m] = run[m]
  BY DEF Goes, Rest
<1>2. /\ json' = json /\ config' = config /\ last' = last /\ mine' = mine
      /\ rewritten' = rewritten /\ edited' = edited /\ edits' = edits
  BY DEF history
<1>3. \A m \in Launches \ {l} : Folding(m) => lock = m /\ lock' = m
  BY CodexHooksAssumption DEF LockHeld
<1>4. LockHeld'
  BY <1>1, <1>3 DEF LockHeld
<1>5. FromOrca' /\ MineKept' /\ OrcaKept' /\ \A S : InConfig(S)' <=> InConfig(S)
  BY <1>2 DEF FromOrca, MineKept, OrcaKept, InConfig
<1>6. SnapFromOrca'
  BY <1>1 DEF SnapFromOrca
<1>7. Waiting'
  BY <1>1, <1>2 DEF Waiting
<1>8. Looked' /\ Relooked'
  BY <1>1, <1>2 DEF Looked, Relooked
<1>9. Carried'
  BY <1>1, <1>2 DEF Carried, InConfig
<1> QED
  BY <1>4, <1>5, <1>6, <1>7, <1>8, <1>9

(* A run at its start has no snapshot.                                     *)
LEMMA FreshIs == ASSUME NEW pc PROVE Fresh(pc).at = pc /\ Fresh(pc).json.is = "none"
  BY DEF Fresh, NoJson

(* Going on changes the place and no snapshot.                             *)
LEMMA ToIs ==
  ASSUME Rest, NEW l \in Launches, NEW pc
  PROVE  /\ To(l, pc).at = pc /\ To(l, pc).json = run[l].json
         /\ To(l, pc).config = run[l].config
  BY DEF To, Rest, Runs

(* A fold that ends, or looks again, leaves nothing to be kept.            *)
LEMMA FreshStep ==
  ASSUME Rest, KeptInv, NEW l \in Launches, NEW pc, Goes(l, Fresh(pc)),
         UNCHANGED <<json, config, history, writes, edits>>,
         \/ pc \in {"codex", "failed"} /\ lock = l /\ lock' = Nobody
         \/ pc = "json" /\ lock = Nobody /\ lock' = l
  PROVE  KeptInv'
<1> DEFINE r == Fresh(pc)
<1>1. r.at = pc /\ r.json.is = "none"
  BY FreshIs
<1>2. Goes(l, r)
  OBVIOUS
<1> HIDE DEF r
<1> QED
  BY <1>1, <1>2, QuietStep

(* Nor is anything lost when a round begins anew.                          *)
LEMMA AgainStep ==
  ASSUME Rest, KeptInv, NEW l \in Launches, Again(l), Folding(l),
         UNCHANGED <<json, config, history, writes, edits>>
  PROVE  KeptInv'
<1>1. lock = l
  BY DEF KeptInv, LockHeld
<1>2. CASE Ends(l, "failed")
  BY <1>1, <1>2, FreshStep DEF Ends
<1>3. CASE Goes(l, [Fresh("json") EXCEPT !.tries = run[l].tries + 1]) /\ UNCHANGED lock
  <2> DEFINE r == [Fresh("json") EXCEPT !.tries = run[l].tries + 1]
  <2>1. r.at = "json" /\ r.json.is = "none"
    BY DEF Fresh, NoJson
  <2>2. Goes(l, r)
    BY <1>3
  <2> HIDE DEF r
  <2> QED
    BY <1>1, <1>3, <2>1, <2>2, QuietStep
<1> QED
  BY <1>2, <1>3 DEF Again

(* Orca writes: nobody's snapshot changes, and nothing waits any longer.   *)
LEMMA OrcaStep ==
  ASSUME Rest, KeptInv, OrcaWrites, UNCHANGED <<config, lock, edits>>,
         \/ UNCHANGED run
         \/ \E l \in Launches : At(l, "create") /\ Goes(l, To(l, "command"))
  PROVE  KeptInv'
<1> USE DEF KeptInv, Folding
<1>1. /\ mine' = mine /\ edited' = edited /\ config' = config /\ edits' = edits
      /\ rewritten => rewritten'
      /\ (\E l \in Launches : At(l, "unlink")) => rewritten'
  BY DEF OrcaWrites
<1>2. PICK S \in Written : json' \in {Json(S), Garbled} /\ last' = S
  BY DEF OrcaWrites
<1>3. json' # NoJson /\ FromOrca'
  BY <1>2 DEF Json, Garbled, NoJson, FromOrca
<1>4. \A m \in Launches :
        \/ run'[m] = run[m]
        \/ run'[m].at = "command" /\ run'[m].json = run[m].json
  BY ToIs DEF Goes, Rest
<1>5. LockHeld' /\ SnapFromOrca'
  BY <1>4 DEF LockHeld, SnapFromOrca
<1>6. Waiting' /\ OrcaKept'
  BY <1>3 DEF Waiting, OrcaKept
<1>7. Looked'
  BY <1>1, <1>4 DEF Looked
<1>8. Relooked'
  BY <1>1, <1>4 DEF Relooked, At
<1>9. Carried' /\ MineKept'
  BY <1>1, <1>4 DEF Carried, MineKept, InConfig
<1> QED
  BY <1>3, <1>5, <1>6, <1>7, <1>8, <1>9

(* An edit keeps every table, and spoils a rename that was decided.        *)
LEMMA EditStep ==
  ASSUME Rest, KeptInv, Edit
  PROVE  KeptInv'
<1> USE DEF KeptInv, Folding
<1>1. /\ UNCHANGED <<json, lock, run, last, rewritten>> /\ edits' = edits + 1
      /\ edited => edited'
      /\ (\E l \in Launches : At(l, "replace")) => edited'
  BY DEF Edit
<1>2. PICK S \in SUBSET Own :
        /\ mine' = mine \cup S
        /\ config'.rest = edits + 1
        /\ config'.tables = [h \in Hooks |-> IF h \in S /\ config.tables[h] = 0
                                               THEN 1 ELSE config.tables[h]]
  BY DEF Edit
<1>3. \A h \in Hooks : config.tables[h] > 0 => config'.tables[h] > 0
  BY EditKeeps
<1>4. \A l \in Launches : run[l].json.hooks \in SUBSET Hooks
  BY HooksOfJson DEF Rest, Runs
<1>5. ASSUME NEW T \in SUBSET Hooks, InConfig(T) PROVE InConfig(T)'
  BY <1>3, <1>5 DEF InConfig
<1>6. LockHeld' /\ FromOrca' /\ SnapFromOrca' /\ Waiting' /\ Relooked'
  BY <1>1 DEF LockHeld, FromOrca, SnapFromOrca, Waiting, Relooked
<1>7. Looked'
  BY <1>1 DEF Looked, At
<1>8. Carried'
  BY <1>1, <1>3, <1>4 DEF Carried, InConfig
<1>9. OrcaKept'
  BY <1>1, <1>3 DEF OrcaKept, InConfig, Rest
<1>10. MineKept'
  <2>1. CASE edited
    BY <1>1, <2>1 DEF MineKept
  <2>2. CASE ~edited
    <3>1. \A h \in mine : config'.tables[h] > 0
      BY <1>3, <2>2, CodexHooksAssumption DEF MineKept, Rest
    <3>2. \A h \in S : config'.tables[h] > 0
      <4> SUFFICES ASSUME NEW h \in S PROVE config'.tables[h] > 0
        OBVIOUS
      <4>1. h \in Hooks /\ config.tables[h] \in 0..2
        BY CodexHooksAssumption DEF Rest, Config
      <4> QED
        BY <1>2, <4>1
    <3> QED
      BY <1>1, <1>2, <3>1, <3>2 DEF MineKept
  <2> QED
    BY <2>1, <2>2
<1> QED
  BY <1>6, <1>7, <1>8, <1>9, <1>10

(* The rename.                                                             *)
LEMMA ReplaceStep ==
  ASSUME Rest, KeptInv, NEW l \in Launches, ReplaceConfig(l)
  PROVE  KeptInv'
<1> USE DEF KeptInv, Folding
<1> DEFINE c == run[l].config  S == run[l].json.hooks
<1>1. run[l].at = "replace" /\ run[l].json.is = "hooks" /\ lock = l
  BY DEF ReplaceConfig, At, SnapFromOrca, LockHeld
<1>2. c \in Config /\ S \in Written /\ S \in SUBSET Hooks
  <2>1. c \in Config
    BY DEF Rest, Runs
  <2>2. S \in Written
    BY <1>1 DEF SnapFromOrca
  <2> QED
    BY <2>1, <2>2, CodexHooksAssumption
<1>3. /\ config' = Updated(c, S) /\ lock' = lock /\ json' = json /\ last' = last
      /\ mine' = mine /\ edits' = edits /\ edited' = edited /\ rewritten' = rewritten
  BY DEF ReplaceConfig, history
<1>4. /\ run'[l].at = "recheck" /\ run'[l].json = run[l].json
      /\ \A m \in Launches \ {l} : run'[m] = run[m]
  BY ToIs DEF ReplaceConfig, Goes, Rest
<1>5. \A m \in Launches \ {l} : ~Folding(m)
  BY <1>1 DEF LockHeld
<1>6. json # NoJson
  BY <1>1 DEF Waiting
<1>7. InConfig(S)'
  <2> SUFFICES ASSUME NEW h \in S PROVE Command[h] \in Harness \/ config'.tables[h] > 0
    BY <1>3, <1>4 DEF InConfig
  <2> HIDE DEF c, S
  <2> QED
    BY <1>2, <1>3, FoldLeaves
<1>8. MineKept'
  <2> SUFFICES ASSUME ~edited PROVE config'.rest = edits /\ \A h \in mine : config'.tables[h] > 0
    BY <1>3 DEF MineKept
  <2>1. c = config /\ config.rest = edits
    BY <1>1 DEF Looked, MineKept
  <2>2. config'.rest = edits
    BY <1>2, <1>3, <2>1, FoldedRest
  <2>3. ASSUME NEW h \in mine PROVE config'.tables[h] > 0
    <3>1. h \in Own /\ c.tables[h] > 0
      BY <2>1 DEF MineKept, Rest
    <3> HIDE DEF c, S
    <3> QED
      BY <1>2, <1>3, <3>1, FoldKeepsOwn
  <2> QED
    BY <2>2, <2>3
<1>9. LockHeld' /\ FromOrca' /\ SnapFromOrca' /\ Waiting'
  BY <1>1, <1>3, <1>4, <1>6 DEF LockHeld, FromOrca, SnapFromOrca, Waiting
<1>10. Looked' /\ Relooked'
  BY <1>3, <1>4, <1>5 DEF Looked, Relooked
<1>11. Carried' /\ OrcaKept'
  BY <1>3, <1>4, <1>5, <1>6, <1>7 DEF Carried, OrcaKept, InConfig
<1> QED
  BY <1>8, <1>9, <1>10, <1>11

(* The unlink: what goes with hooks.json is in config.toml.                *)
LEMMA UnlinkStep ==
  ASSUME Rest, KeptInv, NEW l \in Launches, Unlink(l)
  PROVE  KeptInv'
<1> USE DEF KeptInv, Folding
<1>1. run[l].at = "unlink" /\ run[l].json.is = "hooks" /\ lock = l
  BY DEF Unlink, At, SnapFromOrca, LockHeld
<1>2. /\ config' = config /\ json' = NoJson /\ last' = last /\ lock' = Nobody
      /\ mine' = mine /\ edits' = edits /\ edited' = edited /\ rewritten' = rewritten
  BY DEF Unlink, Ends, history
<1>3. \E pc \in {"codex", "failed"} : run' = [run EXCEPT ![l] = Fresh(pc)]
  BY DEF Unlink, Ends, Goes
<1>4. /\ run'[l].at \in {"codex", "failed"} /\ run'[l].json.is = "none"
      /\ \A m \in Launches \ {l} : run'[m] = run[m]
  BY <1>3, FreshIs DEF Rest
<1>5. \A m \in Launches \ {l} : ~Folding(m)
  BY <1>1 DEF LockHeld
<1>6. OrcaKept'
  <2> SUFFICES ASSUME ~rewritten PROVE InConfig(last)
    BY <1>2 DEF OrcaKept, InConfig
  <2>1. run[l].json = json
    BY <1>1 DEF Relooked
  <2> QED
    BY <1>1, <2>1 DEF FromOrca, Carried
<1>7. LockHeld' /\ Waiting' /\ Looked' /\ Relooked' /\ Carried'
  BY <1>4, <1>5 DEF LockHeld, Waiting, Looked, Relooked, Carried
<1>8. FromOrca' /\ SnapFromOrca' /\ MineKept'
  BY <1>2, <1>4 DEF FromOrca, SnapFromOrca, MineKept, NoJson
<1> QED
  BY <1>6, <1>7, <1>8

(* Every step keeps what the lock protects.                                *)
LEMMA KeptStep == Rest /\ KeptInv /\ [Next]_vars => KeptInv'
<1> SUFFICES ASSUME Rest, KeptInv, [Next]_vars PROVE KeptInv'
  OBVIOUS
<1> USE DEF Folding
<1>1. LockHeld /\ FromOrca /\ SnapFromOrca /\ Waiting /\ Carried
  BY DEF KeptInv
(* A launch that only goes on, with the snapshots it has.                  *)
<1>2. ASSUME NEW l \in Launches, NEW pc, Goes(l, To(l, pc)),
             UNCHANGED <<json, config, lock, history, writes, edits>>,
             \/ pc \in {"create", "failed", "command"} /\ ~Folding(l)
             \/ pc = "replace" /\ At(l, "check") /\ run[l].config = config
             \/ pc = "unlink" /\ At(l, "recheck") /\ run[l].json = json
      PROVE KeptInv'
  <2> DEFINE r == To(l, pc)
  <2>1. r.at = pc /\ r.json = run[l].json /\ r.config = run[l].config
    BY ToIs
  <2>2. Goes(l, r)
    BY <1>2
  <2> HIDE DEF r
  <2>3. CASE pc \in {"create", "failed", "command"} /\ ~Folding(l)
    <3>1. r.json.is = "hooks" => r.json.hooks \in Written
      BY <1>1, <2>1 DEF SnapFromOrca
    <3> QED
      BY <1>2, <2>1, <2>2, <2>3, <3>1, QuietStep
  <2>4. CASE pc = "replace" /\ At(l, "check") /\ run[l].config = config
    <3>1. lock = l /\ r.json.is = "hooks" /\ r.json.hooks \in Written /\ json # NoJson
      BY <1>1, <2>1, <2>4 DEF At, LockHeld, SnapFromOrca, Waiting
    <3> QED
      BY <1>2, <2>1, <2>2, <2>4, <3>1, QuietStep
  <2>5. CASE pc = "unlink" /\ At(l, "recheck") /\ run[l].json = json
    <3>1. lock = l /\ r.json.is = "hooks" /\ r.json.hooks \in Written /\ json # NoJson
      BY <1>1, <2>1, <2>5 DEF At, LockHeld, SnapFromOrca, Waiting
    <3>2. InConfig(r.json.hooks)
      BY <1>1, <2>1, <2>5 DEF At, Carried
    <3> QED
      BY <1>2, <2>1, <2>2, <2>5, <3>1, <3>2, QuietStep
  <2> QED
    BY <1>2, <2>3, <2>4, <2>5
<1>3. ASSUME NEW l \in Launches, Preflight(l) PROVE KeptInv'
  BY <1>2, <1>3 DEF Preflight
<1>4. ASSUME NEW l \in Launches, Create(l) PROVE KeptInv'
  <2>1. CASE OrcaWrites
    BY <1>4, <2>1, OrcaStep DEF Create
  <2>2. CASE UNCHANGED <<json, history, writes>>
    BY <1>2, <1>4, <2>2 DEF Create, At
  <2> QED
    BY <1>4, <2>1, <2>2 DEF Create
<1>5. ASSUME NEW l \in Launches, Lock(l) PROVE KeptInv'
  BY <1>5, FreshStep DEF Lock
<1>6. ASSUME NEW l \in Launches, SnapJson(l) PROVE KeptInv'
  <2> DEFINE r == [To(l, "config") EXCEPT !.json = json]
  <2>1. r.at = "config" /\ r.json = json
    BY DEF To, Rest, Runs
  <2>2. Goes(l, r) /\ UNCHANGED <<json, config, lock, history, writes, edits>>
    BY <1>6 DEF SnapJson
  <2> HIDE DEF r
  <2>3. lock = l
    BY <1>1, <1>6 DEF SnapJson, At, LockHeld
  <2>4. r.json.is = "hooks" => r.json.hooks \in Written /\ json # NoJson
    BY <1>1, <2>1 DEF FromOrca, NoJson
  <2> QED
    BY <2>1, <2>2, <2>3, <2>4, QuietStep
<1>7. ASSUME NEW l \in Launches, SnapConfig(l) PROVE KeptInv'
  <2>1. lock = l /\ UNCHANGED <<json, config, history, writes, edits>>
    BY <1>1, <1>7 DEF SnapConfig, At, LockHeld
  <2>2. CASE Ends(l, "codex") \/ Ends(l, "failed")
    BY <2>1, <2>2, FreshStep DEF Ends
  <2>3. CASE /\ run[l].json.is = "hooks" /\ UNCHANGED lock
             /\ Goes(l, [To(l, "check") EXCEPT !.config = config])
    <3> DEFINE r == [To(l, "check") EXCEPT !.config = config]
    <3>1. r.at = "check" /\ r.json = run[l].json
      BY DEF To, Rest, Runs
    <3>2. Goes(l, r)
      BY <2>3
    <3> HIDE DEF r
    <3>3. r.json.is = "hooks" /\ r.json.hooks \in Written /\ json # NoJson
      BY <1>1, <1>7, <2>3, <3>1 DEF SnapConfig, At, SnapFromOrca, Waiting
    <3> QED
      BY <2>1, <2>3, <3>1, <3>2, <3>3, QuietStep
  <2> QED
    BY <1>7, <2>2, <2>3 DEF SnapConfig
<1>8. ASSUME NEW l \in Launches, CheckConfig(l) PROVE KeptInv'
  <2>1. CASE Again(l)
    BY <1>8, <2>1, AgainStep DEF CheckConfig, At
  <2>2. CASE ~Again(l)
    BY <1>2, <1>8, <2>2 DEF CheckConfig, At
  <2> QED
    BY <2>1, <2>2
<1>9. ASSUME NEW l \in Launches, CheckJson(l) PROVE KeptInv'
  <2>1. CASE Again(l)
    BY <1>9, <2>1, AgainStep DEF CheckJson, At
  <2>2. CASE ~Again(l)
    BY <1>2, <1>9, <2>2 DEF CheckJson, At
  <2> QED
    BY <2>1, <2>2
<1>10. ASSUME NEW l \in Launches, Crash(l) PROVE KeptInv'
  BY <1>10, FreshStep DEF Crash, Ends
<1>11. CASE OtherTerminal
  BY <1>11, OrcaStep DEF OtherTerminal
<1>12. CASE UNCHANGED vars
  BY <1>12 DEF vars, history, KeptInv, LockHeld, FromOrca, SnapFromOrca, Waiting,
               Looked, Relooked, Carried, InConfig, MineKept, OrcaKept
<1> QED
  BY <1>3, <1>4, <1>5, <1>6, <1>7, <1>8, <1>9, <1>10, <1>11, <1>12,
     ReplaceStep, UnlinkStep, EditStep DEF Next

(* It holds at first.                                                      *)
LEMMA KeptInit == Init => KeptInv
<1> SUFFICES ASSUME Init PROVE KeptInv
  OBVIOUS
<1>1. \A l \in Launches : run[l].at = "idle" /\ run[l].json.is = "none"
  BY FreshIs DEF Init
<1>2. /\ json.is \in {"none", "hooks"} /\ last = json.hooks
      /\ json.is = "hooks" => json.hooks \in Written
      /\ json.is = "none" => last = {}
  BY DEF Init, NoJson, Json
<1>3. LockHeld /\ SnapFromOrca /\ Waiting /\ Looked /\ Relooked /\ Carried
  BY <1>1 DEF LockHeld, SnapFromOrca, Waiting, Looked, Relooked, Carried, Folding
<1>4. FromOrca /\ OrcaKept
  BY <1>2 DEF FromOrca, OrcaKept, InConfig, NoJson
<1>5. config.rest = edits /\ \A h \in mine : config.tables[h] > 0
  BY DEF Init, NoConfig
<1> QED
  BY <1>3, <1>4, <1>5 DEF KeptInv, MineKept

(* A fold loses nothing: what a user or Orca wrote is in config.toml, or   *)
(* still waits in hooks.json, unless somebody wrote in the moment between  *)
(* the last look at a file and its rename or unlink.                       *)
THEOREM NothingIsLost == Spec => []NothingLost
<1>1. KeptInv => NothingLost
  BY DEF KeptInv, MineKept, OrcaKept, InConfig, NothingLost
<1> QED
  BY <1>1, TypeInit, KeptInit, RestStep, KeptStep, PTL DEF Spec

=============================================================================

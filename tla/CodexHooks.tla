------------------------------ MODULE CodexHooks ------------------------------
(***************************************************************************)
(* Starting the Codex half of a CTO (harness/codex_hooks.py, run.sh).      *)
(* Orca writes its hooks to hooks.json whenever it creates a terminal; the *)
(* terminal's command folds them and the harness's own safety hooks into   *)
(* config.toml, removes hooks.json and only then becomes Codex.  Several   *)
(* CTOs start in one codex home: a file lock keeps the folds apart, but    *)
(* neither Orca nor whoever edits config.toml takes it.                    *)
(*                                                                         *)
(* A hook is one entry under one event; two may run the same command, and  *)
(* a hook table of config.toml is known by its command alone.  All of      *)
(* config.toml that is not a hook table is the number of its last edit.    *)
(***************************************************************************)
EXTENDS Naturals, FiniteSets

CONSTANTS
  Launches,     (* Codex sessions being started in one codex home          *)
  Hooks, Commands, NoCommand,
  Command,      (* hook -> its command                                     *)
  Canonical,    (* the hooks of the harness, in their places               *)
  Own,          (* the hooks the user may add to config.toml               *)
  Written,      (* the contents Orca may give hooks.json                   *)
  Nobody,
  Tries,        (* rounds of one activate (5 in the code)                  *)
  MaxWrites, MaxEdits      (* bounds                                       *)

Harness == {Command[h] : h \in Canonical}
Named == {h \in Hooks : Command[h] # NoCommand}

ASSUME CodexHooksAssumption ==
  /\ Command \in [Hooks -> Commands \cup {NoCommand}] /\ NoCommand \notin Commands
  /\ Canonical \subseteq Named
  /\ \A g, h \in Canonical : Command[g] = Command[h] => g = h
  /\ Own \subseteq {h \in Hooks : Command[h] \notin Harness}
  /\ Written \subseteq SUBSET Hooks
  (* A user's hook with a command of Orca's is a copy of Orca's hook.      *)
  /\ \A S \in Written, h \in Own :
       h \in Named /\ (\E g \in S : Command[g] = Command[h]) => h \in S
  /\ Nobody \notin Launches
  /\ Tries \in Nat \ {0} /\ {MaxWrites, MaxEdits} \subseteq Nat

VARIABLES
  json,         (* hooks.json                                              *)
  config,       (* config.toml                                             *)
  lock,         (* the launch that holds the lock file, or Nobody          *)
  run,          (* launch -> how far it is, and the snapshots it acts on   *)
  last,         (* history: the hooks Orca wrote last                      *)
  mine,         (* history: the hooks the user added to config.toml        *)
  rewritten,    (* history: Orca wrote between a last look and its unlink  *)
  edited,       (* history: an edit came between a last look and a rename  *)
  writes, edits (* bounded                                                 *)

history == <<last, mine, rewritten, edited>>
vars == <<json, config, lock, run, history, writes, edits>>

-----------------------------------------------------------------------------
(* The two files.                                                          *)

NoJson == [is |-> "none", hooks |-> {}]
Garbled == [is |-> "garbled", hooks |-> {}]
Json(S) == [is |-> "hooks", hooks |-> S]

(* Tables are counted up to two, which stands for several.                 *)
Config == [there : BOOLEAN, tables : [Hooks -> 0..2], rest : 0..MaxEdits,
           sound : BOOLEAN]

NoConfig == [there |-> FALSE, tables |-> [h \in Hooks |-> 0], rest |-> 0,
             sound |-> TRUE]

(* The commands the strip sees, and the text without those in C.           *)
Seen(c) == {Command[h] : h \in {g \in Named : c.tables[g] > 0}}
Strip(tables, C) == [h \in Hooks |-> IF Command[h] \in C THEN 0 ELSE tables[h]]

(* The hooks of hooks.json without old copies of the harness's, and the    *)
(* harness's in their places.                                              *)
Merged(S) == {h \in S : Command[h] \notin Harness} \cup Canonical

Appended(tables, S) ==
  [h \in Hooks |-> IF h \in S /\ tables[h] < 2 THEN tables[h] + 1 ELSE tables[h]]

(* Slip: only the harness's own tables are taken out first.                *)
OwnedHarness(S) == Harness

(* What this fold takes out: the commands it is about to append.           *)
Owned(S) == ({Command[h] : h \in S} \ {NoCommand}) \cup Harness

Updated(c, S) ==
  [c EXCEPT !.there = TRUE, !.tables = Appended(Strip(@, Owned(S)), Merged(S))]

Fresh(pc) == [at |-> pc, json |-> NoJson, config |-> NoConfig, tries |-> 0]

TypeOK ==
  /\ json \in {NoJson, Garbled} \cup {Json(S) : S \in SUBSET Hooks}
  /\ config \in Config
  /\ lock \in Launches \cup {Nobody}
  /\ run \in [Launches ->
       [at : {"idle", "create", "command", "json", "config", "check", "replace",
              "recheck", "unlink", "codex", "failed"},
        json : {NoJson, Garbled} \cup {Json(S) : S \in SUBSET Hooks},
        config : Config, tries : 0..(Tries - 1)]]
  /\ last \subseteq Hooks /\ mine \subseteq Own
  /\ {rewritten, edited} \subseteq BOOLEAN
  /\ writes \in 0..MaxWrites /\ edits \in 0..MaxEdits

(* Nothing says how much of an earlier fold config.toml still has.         *)
Init ==
  /\ json \in {NoJson} \cup {Json(S) : S \in Written}
  /\ config \in
       {NoConfig}
       \cup {[there |-> TRUE, tables |-> [h \in Hooks |-> IF h \in S THEN 1 ELSE 0],
              rest |-> 0, sound |-> TRUE] : S \in SUBSET (Canonical \cup Own)}
  /\ lock = Nobody
  /\ run = [l \in Launches |-> Fresh("idle")]
  /\ last = json.hooks /\ mine = {h \in Own : config.tables[h] > 0}
  /\ rewritten = FALSE /\ edited = FALSE
  /\ writes = 0 /\ edits = 0

At(l, pc) == run[l].at = pc
Goes(l, r) == run' = [run EXCEPT ![l] = r]
To(l, pc) == [run[l] EXCEPT !.at = pc]

Ends(l, pc) == Goes(l, Fresh(pc)) /\ lock' = Nobody

(* A round that found a file changed under it.                             *)
Again(l) ==
  LET n == run[l].tries + 1 IN
    IF n = Tries THEN Ends(l, "failed")
    ELSE Goes(l, [Fresh("json") EXCEPT !.tries = n]) /\ UNCHANGED lock

-----------------------------------------------------------------------------
(* A launch, up to its terminal.                                           *)

(* _ensure_codex_hooks: both files must be readable beforehand.            *)
Preflight(l) ==
  /\ run[l].at \in {"idle", "codex", "failed"}
  /\ Goes(l, To(l, IF json.is # "garbled" /\ (config.there => config.sound)
                     THEN "create" ELSE "failed"))
  /\ UNCHANGED <<json, config, lock, history, writes, edits>>

(* Orca writes hooks.json, well or badly.                                  *)
OrcaWrites ==
  /\ writes < MaxWrites /\ writes' = writes + 1
  /\ \E S \in Written :
       /\ json' \in {Json(S), Garbled}
       /\ last' = S
  /\ rewritten' = (rewritten \/ \E l \in Launches : At(l, "unlink"))
  /\ UNCHANGED <<mine, edited>>

(* The terminal runs the command, whether or not Orca wrote its hooks.     *)
Create(l) ==
  /\ At(l, "create")
  /\ Goes(l, To(l, "command"))
  /\ OrcaWrites \/ UNCHANGED <<json, history, writes>>
  /\ UNCHANGED <<config, lock, edits>>

-----------------------------------------------------------------------------
(* activate                                                                *)

Lock(l) ==
  /\ At(l, "command") /\ lock = Nobody
  /\ lock' = l
  /\ Goes(l, Fresh("json"))
  /\ UNCHANGED <<json, config, history, writes, edits>>

SnapJson(l) ==
  /\ At(l, "json")
  /\ Goes(l, [To(l, "config") EXCEPT !.json = json])
  /\ UNCHANGED <<json, config, lock, history, writes, edits>>

(* Slip: one hook of the harness is taken for all of them.                 *)
FoldedSome(c) == c.there /\ c.sound /\ Harness \cap Seen(c) # {}

(* Without hooks.json a fold is taken for done if config.toml has the      *)
(* harness's commands.                                                     *)
Folded(c) == c.there /\ c.sound /\ Harness \subseteq Seen(c)

SnapConfig(l) ==
  /\ At(l, "config")
  /\ \/ /\ run[l].json.is = "none" /\ Folded(config)
        /\ Ends(l, "codex")
     \/ /\ \/ run[l].json.is = "none" /\ ~Folded(config)
           \/ run[l].json.is = "garbled"
           \/ run[l].json.is = "hooks" /\ config.there /\ ~config.sound
        /\ Ends(l, "failed")
     \/ /\ run[l].json.is = "hooks" /\ (config.there => config.sound)
        /\ Goes(l, [To(l, "check") EXCEPT !.config = config])
        /\ UNCHANGED lock
  /\ UNCHANGED <<json, config, history, writes, edits>>

(* Slip: the new text replaces whatever is there.                          *)
CheckConfigNever(l) ==
  /\ At(l, "check")
  /\ Goes(l, To(l, "replace")) /\ UNCHANGED lock
  /\ UNCHANGED <<json, config, history, writes, edits>>

(* _atomic_replace looks once more, then renames.                          *)
CheckConfig(l) ==
  /\ At(l, "check")
  /\ IF config = run[l].config THEN Goes(l, To(l, "replace")) /\ UNCHANGED lock
     ELSE Again(l)
  /\ UNCHANGED <<json, config, history, writes, edits>>

ReplaceConfig(l) ==
  /\ At(l, "replace")
  /\ config' = Updated(run[l].config, run[l].json.hooks)
  /\ Goes(l, To(l, "recheck"))
  /\ UNCHANGED <<json, lock, history, writes, edits>>

CheckJson(l) ==
  /\ At(l, "recheck")
  /\ IF json = run[l].json THEN Goes(l, To(l, "unlink")) /\ UNCHANGED lock
     ELSE Again(l)
  /\ UNCHANGED <<json, config, history, writes, edits>>

(* Only after this does the shell go on to Codex.                          *)
Unlink(l) ==
  /\ At(l, "unlink")
  /\ json' = NoJson
  /\ Ends(l, IF json = NoJson THEN "failed" ELSE "codex")
  /\ UNCHANGED <<config, history, writes, edits>>

(* The process dies, by a failed write for one; the lock goes with it.     *)
Crash(l) ==
  /\ lock = l
  /\ Ends(l, "failed")
  /\ UNCHANGED <<json, config, history, writes, edits>>

-----------------------------------------------------------------------------
(* Orca creating another terminal, and an edit of config.toml: the trust a *)
(* running Codex records, or the user's.                                   *)

OtherTerminal == OrcaWrites /\ UNCHANGED <<config, lock, run, edits>>

Edit ==
  /\ edits < MaxEdits /\ edits' = edits + 1
  /\ \E S \in SUBSET Own, sound \in BOOLEAN :
       /\ config' = [there |-> TRUE, rest |-> edits + 1, sound |-> sound,
                     tables |-> [h \in Hooks |-> IF h \in S /\ config.tables[h] = 0
                                                   THEN 1 ELSE config.tables[h]]]
       /\ mine' = mine \cup S
  /\ edited' = (edited \/ \E l \in Launches : At(l, "replace"))
  /\ UNCHANGED <<json, lock, run, last, rewritten, writes>>

Next ==
  \/ \E l \in Launches :
       \/ Preflight(l) \/ Create(l) \/ Lock(l) \/ SnapJson(l) \/ SnapConfig(l)
       \/ CheckConfig(l) \/ ReplaceConfig(l) \/ CheckJson(l) \/ Unlink(l) \/ Crash(l)
  \/ OtherTerminal \/ Edit

Spec == Init /\ [][Next]_vars

-----------------------------------------------------------------------------
(* However many launches fold, crash between the rename and the unlink and *)
(* fold again, config.toml never has a hook with a command twice, and a    *)
(* command of the harness only in its place ("exactly once each",          *)
(* tests/smoke.sh 658).                                                    *)
Once ==
  /\ \A h \in Named : config.tables[h] <= 1
  /\ \A h \in Hooks \ Canonical : Command[h] \in Harness => config.tables[h] = 0

(* A fold loses nothing it does not own: the rest of config.toml and the   *)
(* user's hooks are as last edited, and what Orca wrote last waits in      *)
(* hooks.json or is in config.toml; unless somebody wrote in the moment    *)
(* between the last look at a file and its rename or unlink.               *)
NothingLost ==
  /\ edited \/ (config.rest = edits /\ \A h \in mine : config.tables[h] > 0)
  /\ \/ rewritten \/ json # NoJson
     \/ \A h \in last : Command[h] \in Harness \/ config.tables[h] > 0

(* A session that became Codex found every safety hook of the harness in   *)
(* config.toml, whoever folded them and whatever hooks were added to the   *)
(* file meanwhile; an edit that takes hooks out of it is not modelled.     *)
CodexGuarded ==
  \A l \in Launches : At(l, "codex") => \A h \in Canonical : config.tables[h] = 1

=============================================================================

---------------------------- MODULE MCCodexHooks ----------------------------
(* Two commands of the harness, an old copy of one under another event, a  *)
(* hook of Orca's, one of the user's that Orca copies, one without a       *)
(* command.                                                                *)
EXTENDS CodexHooks, TLC

CONSTANTS l1, l2, git, guard, old, orca, own, mute

MCLaunches == {l1, l2}
MCHooks == {git, guard, old, orca, own, mute}
MCCommands == {"git_guard", "inbox_guard", "orca_hook", "own_hook"}
MCCommand == git :> "git_guard" @@ guard :> "inbox_guard" @@ old :> "inbox_guard"
             @@ orca :> "orca_hook" @@ own :> "own_hook" @@ mute :> "none"
MCCanonical == {git, guard}
MCOwn == {own}
MCWritten == {{orca}, {orca, old, own, mute}}
Symmetry == Permutations(MCLaunches)
=============================================================================

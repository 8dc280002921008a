------------------------------- MODULE MCInbox -------------------------------
(* One project, two reader processes, MaxMsg rows: enough for two readers   *)
(* of one role, a reader against the dashboard, and an older and a newer    *)
(* row of one inbox.                                                        *)
EXTENDS Inbox, TLC

CONSTANTS p1, r1, r2

MCProjects == {p1}
MCRoles == {Ceo, Harnessd, Cto(p1), [kind |-> "codex-cto", name |-> p1]}
MCSessions == {Ceo, Cto(p1)}
MCReaders == {r1, r2}
MCServes == (r1 :> {Ceo, Cto(p1)}) @@ (r2 :> {Cto(p1)})

=============================================================================

----------------------------- MODULE MCSnapshots -----------------------------
(* TLC instances of Snapshots: an ignore file that hides nothing or the log. *)
EXTENDS Snapshots, TLC

CONSTANTS gi, a, log, v1, v2

MCPaths == {gi, a, log}
MCContents == {v1, v2}
MCHides == (v1 :> {log}) @@ (v2 :> {})
MCQuoted == {a}

\* The second content comes in by a change or half-written.
MCInit ==
    /\ Init
    /\ worktree \in [Paths -> {v1, Absent}]
    /\ \A n \in Names : refs[n] \in [Paths -> {v1, Absent}] \cup {NoTree}

MCSpec == MCInit /\ [][Next]_vars

Symmetry == Permutations(Calls)
=============================================================================

---------------------------- MODULE SnapshotStore ----------------------------
(***************************************************************************)
(* What snapshot_create promises while anybody may change the workspace: a *)
(* snapshot appears under its name in one step, replacing the old one, and *)
(* holds for every path something the path was at some moment of the call; *)
(* nothing else changes a snapshot.  A call that reports success has       *)
(* published; one that reports a failure may have, too.  Nothing is        *)
(* promised about paths being taken at the same moment.                    *)
(***************************************************************************)
EXTENDS Worktree

VARIABLES worktree, refs,
          making,   \* the name a create call under way is going to set
          seen,     \* what each path has been since that call began
          told      \* what a create call has answered

NothingSeen == [p \in Paths |-> {}]

storeVars == <<worktree, refs, making, seen, told>>

Init ==
    /\ worktree \in Trees
    /\ refs \in [Names -> Trees \cup {NoTree}]
    /\ making = [c \in Calls |-> NoName]
    /\ seen = [c \in Calls |-> NothingSeen]
    /\ told = [c \in Calls |-> "none"]

\* Any tool or command changes the workspace.
Change ==
    /\ worktree' \in Trees
    /\ seen' = [c \in Calls |->
                  IF making[c] = NoName THEN seen[c]
                  ELSE [p \in Paths |-> seen[c][p] \cup Readings(worktree')[p]]]
    /\ UNCHANGED <<refs, making, told>>

Begin(c, n) ==
    /\ making[c] = NoName /\ told[c] = "none"
    /\ making' = [making EXCEPT ![c] = n]
    /\ seen' = [seen EXCEPT ![c] = Readings(worktree)]
    /\ UNCHANGED <<worktree, refs, told>>

\* The request may be cancelled when the name is set and the call not over.
Publish(c) ==
    /\ making[c] # NoName
    /\ \E t \in Trees :
          /\ \A p \in Paths : t[p] \in seen[c][p]
          /\ refs' = [refs EXCEPT ![making[c]] = t]
    /\ making' = [making EXCEPT ![c] = NoName]
    /\ seen' = [seen EXCEPT ![c] = NothingSeen]
    /\ \E answer \in {"done", "failed"} : told' = [told EXCEPT ![c] = answer]
    /\ UNCHANGED worktree

Abort(c) ==
    /\ making[c] # NoName
    /\ making' = [making EXCEPT ![c] = NoName]
    /\ seen' = [seen EXCEPT ![c] = NothingSeen]
    /\ told' = [told EXCEPT ![c] = "failed"]
    /\ UNCHANGED <<worktree, refs>>

Next ==
    \/ Change
    \/ \E c \in Calls : Publish(c) \/ Abort(c) \/ \E n \in Names : Begin(c, n)

Spec == Init /\ [][Next]_storeVars
=============================================================================

------------------------------ MODULE Worktree ------------------------------
(***************************************************************************)
(* The workspace's files as git sees them.  Paths and contents are atoms;  *)
(* the content of one path, the ignore file, decides which paths git       *)
(* skips.  Shared by the snapshot tools and their abstract specification.  *)
(***************************************************************************)
CONSTANTS Paths, Contents,
          Absent,       \* no file at a path
          IgnoreFile,   \* .gitignore
          Hides,        \* the paths each content of the ignore file names
          Names,        \* snapshot names
          Calls,        \* tool calls
          NoTree, NoName

ASSUME WorktreeAssumption ==
    /\ Absent \notin Contents
    /\ IgnoreFile \in Paths
    /\ Hides \in [Contents -> SUBSET Paths]
    /\ NoName \notin Names \cup Calls

Trees == [Paths -> Contents \cup {Absent}]
Empty == [p \in Paths |-> Absent]
Files(t) == {p \in Paths : t[p] # Absent}

ASSUME NoTreeAssumption == NoTree \notin Trees

\* What --exclude-standard and git add leave out.
Ignored(wt) == IF wt[IgnoreFile] = Absent THEN {} ELSE Hides[wt[IgnoreFile]]

Visible(wt) == Files(wt) \ Ignored(wt)

\* The tree git add --all stages from an empty index when nothing moves.
View(wt) == [p \in Paths |-> IF p \in Visible(wt) THEN wt[p] ELSE Absent]

\* What a git command that looks at p at this moment may take it for.
Readings(wt) ==
    [p \in Paths |-> {wt[p]} \cup (IF p \in Ignored(wt) THEN {Absent} ELSE {})]
=============================================================================

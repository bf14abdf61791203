----------------------------- MODULE MCFileTools ----------------------------
(* TLC instances of FileTools. *)
EXTENDS FileTools, TLC

Symmetry == Permutations(Calls) \cup Permutations(Names)

\* Nothing is promised beyond a crossing.
Uncrossed == ~crossed

\* A call that has ended has no locals, and no inode unless a name links to it.
Linked == {file, disk.file} \cup {tmp[n] : n \in Names}
Left(c) == pc[c] = "left" /\ c \in Linked
SeenState ==
    <<file, tmp, disk, tracker, pc, crossed, blind \cap Active,
      known \cap ({TextOf(i) : i \in Linked} \cup {data[c] : c \in Active}),
      [c \in Calls |-> IF c \in Active \cup Linked THEN <<data[c], inode[c]>> ELSE <<>>],
      [c \in Calls |-> IF c \in Active THEN op[c] ELSE "Read"],
      [c \in Calls |-> IF c \in Active \/ Left(c) THEN tmpOf[c] ELSE NoFile]>>
=============================================================================

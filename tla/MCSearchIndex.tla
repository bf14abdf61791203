---------------------------- MODULE MCSearchIndex ----------------------------
(* TLC instance of SearchIndex: two texts, one of which repeats a token and   *)
(* has two declarations; the broken one has none. The workspace starts with   *)
(* one file and no subdirectory: changes before the build give the others.    *)
EXTENDS SearchIndex

CONSTANTS fa, gb, one, broken, t1, t2

MCUnitsOf == (one :> <<<<t1, t1, t2>>, <<t1>>>>) @@ (broken :> <<>>) @@ (Absent :> <<>>)

MCInit ==
    /\ Init
    /\ files[fa] = one
    /\ ~sub

MCSpec == MCInit /\ [][Next]_vars /\ Fairness
=============================================================================

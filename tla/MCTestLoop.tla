------------------------------ MODULE MCTestLoop ------------------------------
EXTENDS TestLoop, TLC

\* Two packages of one module; TestA has a subtest.
A == <<"mod", "a">>
B == <<"mod", "b">>
MCSuite == {[pkg |-> A, test |-> <<"TestA">>],
            [pkg |-> A, test |-> <<"TestA", "sub">>],
            [pkg |-> B, test |-> <<"TestB">>]}
MCLines == (A :> {1, 2}) @@ (B :> {3})
Symmetry == Permutations(Handlers)
================================================================================

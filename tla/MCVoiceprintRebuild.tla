------------------------ MODULE MCVoiceprintRebuild ------------------------
(* For TLC, a speaker with one snippet, and an unnamed one with two, one of   *)
(* which has lost its audio and could not be embedded.                        *)
EXTENDS VoiceprintRebuild

CONSTANTS n1, n2, u1, r1, s1, s2

Starts == (s1 :> 0) @@ (s2 :> 300)
Lengths == (s1 :> 100) @@ (s2 :> 100)
Slots == (s1 :> 1) @@ (s2 :> 2)

BrokenStock ==
    LET one == WriteSnippet(EmptyStore, n1, r1, s1)
        two == WriteSnippet(WriteSnippet(one, u1, r1, s1), u1, r1, s2)
        fitted == RefineAll(two, {n1, u1}, TRUE)
    IN  SetPending([fitted EXCEPT !.disk = Unlink(@, {PathOf(u1, r1, s2)})], u1, TRUE)

============================================================================

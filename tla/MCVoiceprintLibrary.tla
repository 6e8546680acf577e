------------------------ MODULE MCVoiceprintLibrary ------------------------
(* A small library for TLC, in tenths of a second.  s1 and s2 start          *)
(* together, s3 is named as s2 is, and s4 and s5 come later; s5 is shorter   *)
(* than what is kept.                                                        *)
EXTENDS VoiceprintLibrary

CONSTANTS n1, n2, u1, r1, s1, s2, s3, s4, s5

Starts == (s1 :> 0) @@ (s2 :> 0) @@ (s3 :> 4) @@ (s4 :> 300) @@ (s5 :> 600)
Lengths == (s1 :> 200) @@ (s2 :> 100) @@ (s3 :> 100) @@ (s4 :> 100) @@ (s5 :> 30)
Slots == (s1 :> 1) @@ (s2 :> 2) @@ (s3 :> 2) @@ (s4 :> 3) @@ (s5 :> 4)

(* A registered speaker with one snippet, and an unnamed one with another    *)
(* and with a file that has no row                                           *)
StockedStore ==
    LET one == WriteSnippet(EmptyStore, n1, r1, s2)
        two == WriteSnippet(one, u1, r1, s1)
        fitted == RefineAll(two, {n1, u1}, TRUE)
    IN  SetPending(WriteAudio(fitted, u1, r1, s4), u1, TRUE)

============================================================================

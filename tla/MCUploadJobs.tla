---------------------------- MODULE MCUploadJobs ----------------------------
(* Instances of UploadJobs for TLC: who calls what. *)
EXTENDS UploadJobs, TLC

CONSTANTS j1, j2, ann, bob

AnnAndBob == j1 :> ann @@ j2 :> bob
AllAnn    == j1 :> ann @@ j2 :> ann

(* j1 transcribes; what j2 does *)
OneDiarizes    == j1 :> "transcribe" @@ j2 :> "diarize"
OneLibrary     == j1 :> "transcribe" @@ j2 :> "library"
OneSpeaker     == j1 :> "transcribe" @@ j2 :> "speaker"

AnnFollows == [f \in Followers |-> ann]
AnnWatches == [w \in Watchers |-> ann]
=============================================================================

----------------------------- MODULE TurnDetector -----------------------------
(***************************************************************************)
(* The endpointing state machine of asr_mcp/streaming/turn_detector.py,    *)
(* class TurnDetector, frame by frame.                                     *)
(*                                                                         *)
(* What a frame's energy decides is where it lies against the two          *)
(* thresholds of its moment; the adaptive noise floor that moves them is   *)
(* abstracted to that level: "loud" reaches the start threshold, "voiced"  *)
(* only the end threshold below it, "quiet" neither.                       *)
(***************************************************************************)
EXTENDS Naturals, Sequences, FiniteSetsExt

CONSTANTS   \* in frames, as the code rounds them
  PreRoll, Confirm, Hangover, PostRoll, MinVoiced, MaxTurn,
  MaxFrames   \* bound: frames of a stream

ASSUME DetectorAssumption ==
  /\ {PreRoll, Confirm, Hangover} \subseteq Nat \ {0}
  /\ {PostRoll, MinVoiced, MaxTurn, MaxFrames} \subseteq Nat
  /\ Confirm <= PreRoll      \* or the turn's start is not where its audio is
  /\ PreRoll < MaxTurn

VARIABLES
  frameIdx,    \* frames accepted so far
  inSpeech,
  startRun,    \* consecutive loud frames
  belowRun,    \* consecutive quiet frames
  preRoll,     \* the ring buffer of recent frames
  turnStart,
  turnFrames,  \* the frames of the open turn
  voiced,      \* how many of them are voiced
  turns,       \* history: the turns emitted
  cut          \* history: the frames the last close cut off, and why it closed

stateVars == <<frameIdx, inSpeech, startRun, belowRun, preRoll, turnStart, turnFrames, voiced>>
detectorVars == <<stateVars, turns, cut>>

Levels == {"loud", "voiced", "quiet"}
Frame(i, level) == [at |-> i, level |-> level]
Larger(m, n) == IF m < n THEN n ELSE m
LastOf(s, n) == IF Len(s) > n THEN SubSeq(s, Len(s) - n + 1, Len(s)) ELSE s

DetectorInit ==
  /\ frameIdx = 0 /\ inSpeech = FALSE
  /\ startRun = 0 /\ belowRun = 0
  /\ preRoll = <<>> /\ turnStart = 0 /\ turnFrames = <<>> /\ voiced = 0
  /\ turns = <<>> /\ cut = [frames |-> <<>>, reason |-> "none"]

\* _close_turn: the tail is trimmed, and the turn emitted unless it is a click.
CloseTurn(frames, voicedFrames, reason) ==
  LET surplus == IF Hangover > PostRoll THEN Hangover - PostRoll ELSE 0
      keep == IF Len(frames) > surplus THEN Len(frames) - surplus ELSE 1
      turn == [start |-> turnStart, end |-> turnStart + keep,
               audio |-> SubSeq(frames, 1, keep), reason |-> reason]
  IN  /\ inSpeech' = FALSE /\ startRun' = 0 /\ belowRun' = 0
      /\ preRoll' = <<>> /\ turnFrames' = <<>> /\ voiced' = 0
      /\ cut' = [frames |-> SubSeq(frames, keep + 1, Len(frames)), reason |-> reason]
      /\ turns' = IF voicedFrames < MinVoiced THEN turns ELSE Append(turns, turn)

\* A frame outside a turn.  When the start is confirmed, the frames that
\* confirmed it count as voiced if they reach the end threshold of now: the last
\* one does, for the others the noise floor may have risen since.
Listen(level) ==
  LET recent == LastOf(Append(preRoll, Frame(frameIdx, level)), PreRoll)
      run == IF level = "loud" THEN startRun + 1 ELSE 0
      confirmIdx == frameIdx + 1 - Confirm
      older == {k \in 1..Len(recent) : recent[k].at < confirmIdx}
  IN  /\ ~inSpeech
      /\ frameIdx' = frameIdx + 1
      /\ preRoll' = recent
      /\ startRun' = run
      /\ IF run < Confirm
         THEN UNCHANGED <<inSpeech, belowRun, turnStart, turnFrames, voiced>>
         ELSE /\ inSpeech' = TRUE /\ belowRun' = 0
              /\ turnStart' = IF older = {} THEN confirmIdx ELSE recent[Min(older)].at
              /\ turnFrames' = recent
              /\ voiced' \in 1..Confirm
      /\ UNCHANGED <<turns, cut>>

\* A frame of the open turn.
Follow(level) ==
  LET frames == Append(turnFrames, Frame(frameIdx, level))
      voicedFrames == IF level = "quiet" THEN voiced ELSE voiced + 1
      below == IF level = "quiet" THEN belowRun + 1 ELSE 0
  IN  /\ inSpeech
      /\ frameIdx' = frameIdx + 1
      /\ IF Len(frames) >= MaxTurn THEN CloseTurn(frames, voicedFrames, "max_turn")
         ELSE IF below >= Hangover THEN CloseTurn(frames, voicedFrames, "hangover")
         ELSE /\ turnFrames' = frames /\ voiced' = voicedFrames /\ belowRun' = below
              /\ UNCHANGED <<inSpeech, startRun, preRoll, turns, cut>>
      /\ UNCHANGED turnStart

ProcessFrame ==
  /\ frameIdx < MaxFrames
  /\ \E level \in Levels : Listen(level) \/ Follow(level)

\* flush: the stream ends.
Flush ==
  /\ inSpeech /\ CloseTurn(turnFrames, voiced, "flush")
  /\ UNCHANGED <<frameIdx, turnStart>>

DetectorNext == ProcessFrame \/ Flush

DetectorSpec == DetectorInit /\ [][DetectorNext]_detectorVars

-----------------------------------------------------------------------------
(* Properties. *)

Frames == [at : 0..MaxFrames - 1, level : Levels]

DetectorTypeOK ==
  /\ frameIdx \in 0..MaxFrames /\ inSpeech \in BOOLEAN
  /\ startRun \in 0..Confirm /\ belowRun \in 0..Hangover - 1
  /\ preRoll \in Seq(Frames) /\ Len(preRoll) <= PreRoll
  /\ turnStart \in 0..MaxFrames
  /\ turnFrames \in Seq(Frames) /\ Len(turnFrames) < MaxTurn
  /\ voiced \in 0..Len(turnFrames)
  /\ cut \in [frames : Seq(Frames), reason : {"none", "max_turn", "hangover", "flush"}]

=============================================================================

------------------------------- MODULE MicTurns -------------------------------
(***************************************************************************)
(* The raw microphone stream of a live session: the detector, and behind   *)
(* it the coalescer that holds a closed turn and merges it with the next   *)
(* (turn_detector.py, class TurnCoalescer; fed by handler.py).  The live   *)
(* client has the same pair in front of its turn frames.  What is          *)
(* submitted is trimmed at its edges before it is decoded (SpeechGate).    *)
(***************************************************************************)
EXTENDS TurnDetector, SpeechGate

CONSTANTS MergeGap, MaxMerge    \* in frames

ASSUME CoalescerAssumption == MergeGap \in Nat /\ MaxMerge \in Nat

VARIABLES
  pending,    \* the held turn, if any
  audioEnd,   \* where its audio ends in the recording, 0 without one
  released,   \* history: the turns submitted, in order
  ended       \* the stream is over

micVars == <<detectorVars, pending, audioEnd, released, ended>>

MicInit == DetectorInit /\ pending = <<>> /\ audioEnd = 0 /\ released = <<>> /\ ended = FALSE

\* Digital silence that puts the tail where it was spoken.
Silence(n) == [i \in 1..n |-> Frame(0, "silence")]

\* Mutant of Merge: the pause is left out.
MergeWithoutPause(head, tail) ==
  LET audio == head.audio \o tail.audio
  IN  [start |-> head.start, end |-> head.start + Len(audio),
       audio |-> audio, reason |-> "merged"]

\* The turn that carries both; its end is where its audio ends.
Merge(head, tail) ==
  LET headEnd == head.start + Len(head.audio)
      pad == IF tail.start > headEnd THEN tail.start - headEnd ELSE 0
      audio == head.audio \o Silence(pad) \o tail.audio
  IN  [start |-> head.start, end |-> head.start + Len(audio),
       audio |-> audio, reason |-> "merged"]

\* The gap and the span are those of the recording.
Mergeable(turn) ==
  /\ pending # <<>>
  /\ audioEnd <= turn.start /\ turn.start - audioEnd <= MergeGap
  /\ turn.end - pending[1].start <= MaxMerge

\* TurnCoalescer.submit: what is held and what is ready afterwards.
Offered(turn) ==
  IF Mergeable(turn) THEN [held |-> <<Merge(pending[1], turn)>>, ready |-> <<>>]
  ELSE [held |-> <<turn>>, ready |-> pending]

Newest == turns'[Len(turns')]

\* TurnCoalescer.submit of a turn the detector closes.
Submit(turn) ==
  /\ pending' = Offered(turn).held /\ audioEnd' = turn.end
  /\ released' = released \o Offered(turn).ready

\* poll and flush: the held turn goes.
Release ==
  /\ pending' = <<>> /\ audioEnd' = 0
  /\ released' = released \o pending

\* A frame of a raw packet.  The deadline of the held turn, polled after each
\* packet, may have passed or not.
HearFrame ==
  /\ ~ended /\ ProcessFrame
  /\ IF turns' # turns THEN Submit(Newest)
     ELSE Release \/ UNCHANGED <<pending, audioEnd, released>>
  /\ UNCHANGED ended

\* Mutants of EndStream: the held turn is forgotten; the tail overtakes it.
EndForgetsHeld ==
  /\ ~ended /\ ended' = TRUE
  /\ IF inSpeech THEN Flush ELSE UNCHANGED detectorVars
  /\ released' = released \o (IF turns' # turns THEN Offered(Newest).ready ELSE <<>>)
  /\ pending' = <<>> /\ audioEnd' = 0
EndTailFirst ==
  /\ ~ended /\ ended' = TRUE
  /\ IF inSpeech THEN Flush ELSE UNCHANGED detectorVars
  /\ released' = released \o (IF turns' # turns THEN <<Newest>> ELSE <<>>) \o pending
  /\ pending' = <<>> /\ audioEnd' = 0
\* The client hangs up: the open turn goes through the coalescer.
EndStream ==
  /\ ~ended /\ ended' = TRUE
  /\ IF inSpeech THEN Flush ELSE UNCHANGED detectorVars
  /\ IF turns' # turns
     THEN LET o == Offered(Newest) IN released' = released \o o.ready \o o.held
     ELSE released' = released \o pending
  /\ pending' = <<>> /\ audioEnd' = 0

MicNext == HearFrame \/ EndStream

MicSpec == MicInit /\ [][MicNext]_micVars

-----------------------------------------------------------------------------
(* Properties. *)

MicTypeOK ==
  /\ DetectorTypeOK
  /\ Len(pending) <= 1
  /\ audioEnd \in 0..MaxFrames
  /\ (pending = <<>>) = (audioEnd = 0)
  /\ ended \in BOOLEAN
  /\ \A k \in 1..Len(released) : released[k].end <= MaxFrames

Submitted == released \o pending

\* A turn's declared span is the audio it carries, and what was spoken lies in it
\* where it was spoken.
InPlace(t) ==
  /\ t.end = t.start + Len(t.audio)
  /\ \A i \in 1..Len(t.audio) :
       t.audio[i].level # "silence" => t.audio[i].at = t.start + i - 1

\* A submitted turn is in place, across merges (the docstring of TurnCoalescer
\* tells what went wrong when it was not), and so is what the edge trim of the
\* handler makes of it, wherever its voiced frames lie: it keeps them all, and
\* loses no more than the share of the turn the trim is allowed.
AudioStaysInPlace ==
  \A k \in 1..Len(Submitted) : LET t == Submitted[k] IN
    /\ InPlace(t)
    /\ \A f, l \in 1..Len(t.audio) : f <= l =>
         LET s == TrimTurnEdges(t, {f, l}) IN
         /\ InPlace(s)
         /\ s.start <= t.start + f - 1 /\ t.start + l <= s.end
         /\ 100 * (Len(t.audio) - Len(s.audio)) <= TrimPercent * Len(t.audio)

\* Every frame the detector put into a turn is submitted exactly once, across
\* merges, deadlines and the end of the stream.
SpeechIsSubmittedOnce ==
  LET heardIn(ts) == {p \in (1..Len(ts)) \X (1..MaxFrames) :
                        /\ p[2] <= Len(ts[p[1]].audio)
                        /\ ts[p[1]].audio[p[2]].level # "silence"}
      atOf(ts) == {ts[p[1]].audio[p[2]] : p \in heardIn(ts)}
  IN  /\ atOf(Submitted) = atOf(turns)
      /\ \A p, q \in heardIn(Submitted) :
           Submitted[p[1]].audio[p[2]] = Submitted[q[1]].audio[q[2]] => p = q

\* Turns are submitted in the order they were spoken and do not overlap.
SubmittedInOrder ==
  \A i, k \in 1..Len(Submitted) : i < k => Submitted[i].end <= Submitted[k].start

=============================================================================

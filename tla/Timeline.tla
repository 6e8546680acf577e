------------------------------- MODULE Timeline -------------------------------
(***************************************************************************)
(* The timeline of a live session's turn frames: the client declares where *)
(* a turn lies in its recording, TimelineGuard (asr_mcp/streaming/         *)
(* protocol.py) checks the claim, and handle_ws_stream builds the turn     *)
(* from the start the guard returns.  Positions are in samples, time in    *)
(* samples of the canonical rate.                                          *)
(***************************************************************************)
EXTENDS Integers, Sequences

CONSTANTS
  Channels,
  Tolerance,     \* timeline_overlap_tolerance_sec
  MaxLead,       \* timeline_max_lead_sec
  LeadDivisor,   \* 1 / timeline_max_lead_ratio
  MaxTime,       \* bound: elapsed time and declared starts
  MaxLength,     \* bound: samples of a turn
  MaxTurns       \* bound: turns of a session

ASSUME TimelineAssumption ==
  /\ {Tolerance, MaxLead, MaxTime, MaxLength, MaxTurns} \subseteq Nat
  /\ LeadDivisor \in Nat \ {0}

VARIABLES
  elapsed,     \* since the connection was accepted
  lastEnd,     \* TimelineGuard._last_end, Unseen for a channel not in it
  highWater,   \* TimelineGuard._high_water
  counts,      \* TimelineGuard._counts
  drifted,     \* TimelineGuard._drifted
  notified,    \* history: faults the client was told of, in order
  emitted,     \* history: the turns built, with the start the client declared
  covered,     \* stream_end_sample
  honest       \* history: the client declared what it recorded

timelineVars == <<elapsed, lastEnd, highWater, counts, drifted, notified, emitted, covered, honest>>

Unseen == -1
Reasons == {"regression", "ahead"}
Max2(m, n) == IF m < n THEN n ELSE m

TimelineInit ==
  /\ elapsed = 0 /\ lastEnd = [c \in Channels |-> Unseen] /\ highWater = 0
  /\ counts = [r \in Reasons |-> 0] /\ drifted = {} /\ notified = <<>>
  /\ emitted = <<>> /\ covered = 0 /\ honest = TRUE

Tick ==
  /\ elapsed < MaxTime /\ elapsed' = elapsed + 1
  /\ UNCHANGED <<lastEnd, highWater, counts, drifted, notified, emitted, covered, honest>>

\* Mutant of Regressed: the tolerance is granted twice.
RegressedFar(c, start) == lastEnd[c] # Unseen /\ start < lastEnd[c] - 2 * Tolerance

\* Mutant of Ahead: the time the connection is up is left out.
AheadOfAudio(start) == start > highWater + MaxLead

\* observe: does the declared start go back, which start is used instead, and is
\* that beyond anything that can have been recorded?
Regressed(c, start) == lastEnd[c] # Unseen /\ start < lastEnd[c] - Tolerance
Clamped(c, start) == IF Regressed(c, start) THEN lastEnd[c] ELSE start
Lead == Max2(MaxLead, elapsed \div LeadDivisor)
Ahead(start) == start > Max2(highWater, elapsed) + Lead
Faults(c, start) ==
  (IF Regressed(c, start) THEN {"regression"} ELSE {})
    \cup (IF Ahead(Clamped(c, start)) THEN {"ahead"} ELSE {})

\* The first fault of a channel is told; of two at once, the regression.
Notice(c, faults) ==
  IF faults = {} \/ c \in {notified[i].channel : i \in 1..Len(notified)} THEN <<>>
  ELSE <<[channel |-> c,
          reason |-> IF "regression" \in faults THEN "regression" ELSE "ahead"]>>

\* A recorder's turns on a channel follow each other, and are sent after they
\* were recorded.
Honest(c, start, n) == start >= lastEnd[c] /\ start + n <= elapsed

\* A turn frame: observe, _turn_from_frame, _note_end.
TurnFrame(c, start, n) ==
  LET used == Clamped(c, start)
      faults == Faults(c, start)
  IN  /\ Len(emitted) < MaxTurns
      /\ lastEnd' = [lastEnd EXCEPT ![c] = Max2(start + n, used)]
      /\ highWater' = Max2(Max2(highWater, start + n), used + n)
      /\ covered' = Max2(covered, used + n)
      /\ counts' = [r \in Reasons |-> IF r \in faults THEN counts[r] + 1 ELSE counts[r]]
      /\ drifted' = IF faults = {} THEN drifted ELSE drifted \cup {c}
      /\ notified' = notified \o Notice(c, faults)
      /\ emitted' = Append(emitted, [channel |-> c, declared |-> start,
                                     start |-> used, end |-> used + n])
      /\ honest' = (honest /\ Honest(c, start, n))
      /\ UNCHANGED elapsed

\* A turn the server cut out of the raw stream, whose end is not a claim.
RawTurn(end) ==
  /\ end <= elapsed
  /\ highWater' = Max2(highWater, end)
  /\ covered' = Max2(covered, end)
  /\ UNCHANGED <<elapsed, lastEnd, counts, drifted, notified, emitted, honest>>

TimelineNext ==
  \/ Tick
  \/ \E c \in Channels, start \in 0..MaxTime, n \in 1..MaxLength : TurnFrame(c, start, n)
  \/ \E end \in 1..MaxTime : RawTurn(end)

TimelineSpec == TimelineInit /\ [][TimelineNext]_timelineVars

-----------------------------------------------------------------------------
(* Properties. *)

Consecutive(i, k) ==
  /\ i < k /\ emitted[i].channel = emitted[k].channel
  /\ \A m \in i + 1 .. k - 1 : emitted[m].channel # emitted[i].channel

\* On a channel that was never flagged the turns are where the client declared
\* them, and each begins where the one before it ends, up to the tolerance.
UnflaggedTurnsAreOrdered ==
  \A i, k \in 1..Len(emitted) :
    (Consecutive(i, k) /\ emitted[i].channel \notin drifted) =>
      /\ emitted[k].start >= emitted[i].end - Tolerance
      /\ emitted[i].start = emitted[i].declared /\ emitted[k].start = emitted[k].declared

\* A client that declares what it recorded is never flagged, however the channels
\* interleave and however late a turn is sent.
HonestClientIsTrusted == honest => drifted = {}

=============================================================================

------------------------------ MODULE SpeechGate ------------------------------
(***************************************************************************)
(* The edge trim a live turn goes through before it is decoded             *)
(* (asr_mcp/streaming/speech_gate.py).  Silero's scores are numeric; what  *)
(* the trim sees of them is which frames of the turn it calls voiced.      *)
(***************************************************************************)
EXTENDS Naturals, Sequences, FiniteSetsExt

CONSTANTS
  MaxTrim,        \* edge_max_trim_sec, in frames
  TrimPercent     \* edge_max_trim_ratio

ASSUME TrimAssumption == MaxTrim \in Nat /\ TrimPercent \in 0..100

\* How much of a turn both trims may take together.
TrimCap(total) == Min({MaxTrim, (total * TrimPercent) \div 100})

\* Mutants of TrimTurnEdges: each end has the whole cap; the start stays.
TrimEachEnd(turn, voiced) ==
  LET total == Len(turn.audio)
      lead == Min({Min(voiced) - 1, TrimCap(total)})
      trail == Min({total - Max(voiced), TrimCap(total)})
  IN  IF voiced = {} \/ total < 2 THEN turn
      ELSE [turn EXCEPT !.start = @ + lead, !.end = turn.start + total - trail,
                        !.audio = SubSeq(@, lead + 1, total - trail)]
TrimKeepsStart(turn, voiced) ==
  LET total == Len(turn.audio)
      lead == Min({Min(voiced) - 1, TrimCap(total)})
      trail == Min({total - Max(voiced), TrimCap(total) - lead})
  IN  IF voiced = {} \/ total < 2 THEN turn
      ELSE [turn EXCEPT !.end = turn.start + total - lead - trail,
                        !.audio = SubSeq(@, lead + 1, total - trail)]

\* The turn without the unvoiced frames of its two ends, the head first, as far
\* as the cap goes.  What is left holds every voiced frame, so the check for an
\* empty rest never strikes.
TrimTurnEdges(turn, voiced) ==
  LET total == Len(turn.audio)
      lead == Min({Min(voiced) - 1, TrimCap(total)})
      trail == Min({total - Max(voiced), TrimCap(total) - lead})
  IN  IF voiced = {} \/ total < 2 THEN turn
      ELSE [turn EXCEPT !.start = @ + lead, !.end = turn.start + total - trail,
                        !.audio = SubSeq(@, lead + 1, total - trail)]

=============================================================================

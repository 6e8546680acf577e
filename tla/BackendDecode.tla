---------------------------- MODULE BackendDecode ----------------------------
(***************************************************************************)
(* Speech recognition by the one backend of the process                    *)
(* (asr_mcp/transcribers/qwen3.py, cohere.py, whisper.py), which any        *)
(* number of pool threads use at once: live turns, an upload, a tool call. *)
(* Long audio is decoded piece by piece, and each backend has its own way   *)
(* out when the GPU has no memory left: Qwen3 halves the piece, Cohere      *)
(* makes its encoder anew and then runs it on the CPU, Whisper starts over  *)
(* on the CPU.                                                              *)
(*                                                                         *)
(* Audio is counted in units; what the words are is left out.              *)
(***************************************************************************)
EXTENDS Integers, SequencesExt

CONSTANTS
  Decoders,            \* the pool threads, one piece of audio each
  Kinds,               \* the backends settings may choose
  Total,               \* length of the audio
  MaxChunk, MinChunk,  \* Qwen3: DEFAULT_CHUNK_SEC, MIN_CHUNK_SEC
  Band,                \* Qwen3: how far a cut may move to a quiet frame
  Window,              \* Cohere: MAX_ENCODER_SEC
  MinTail, Snap,       \* Cohere: the shortest last window, and its band
  MaxUnloads           \* bound: how often the models are taken away

ASSUME DecodeAssumption ==
  /\ Kinds \subseteq {"qwen3", "cohere", "whisper"}
  /\ {Total, MaxChunk, MinChunk, Window} \subseteq Nat \ {0} /\ MinChunk <= MaxChunk
  /\ {Band, MinTail, Snap, MaxUnloads} \subseteq Nat

VARIABLES
  kind,      \* the backend of this process
  loaded,    \* its model is in memory
  device,    \* Whisper: where
  encoder,   \* Cohere: whether the encoder session exists
  chunkSec,  \* Qwen3: the piece size all its calls start from
  unloads,
  pc,        \* where each thread is
  pos,       \* what it has decoded of its audio
  chunk,     \* Qwen3: its own piece size
  aim,       \* the end of the piece it is at
  on,        \* Whisper: where the model is that it began to decode with
  parts,     \* what it has: pieces of the audio, decoded or failed
  told,      \* history: the end of the last piece told to the user
  result     \* "none", "text", or "error"

backendVars == <<kind, loaded, device, encoder, chunkSec, unloads>>
threadVars == <<pc, pos, chunk, aim, on, parts, told, result>>
decodeVars == <<backendVars, threadVars>>

DecodeInit ==
  /\ kind \in Kinds
  /\ loaded = FALSE /\ device = "cuda" /\ encoder = FALSE /\ chunkSec = MaxChunk /\ unloads = 0
  /\ pc = [d \in Decoders |-> "begin"] /\ pos = [d \in Decoders |-> 0]
  /\ chunk = [d \in Decoders |-> MaxChunk] /\ aim = [d \in Decoders |-> 0]
  /\ on = [d \in Decoders |-> "cpu"]
  /\ parts = [d \in Decoders |-> <<>>] /\ told = [d \in Decoders |-> 0]
  /\ result = [d \in Decoders |-> "none"]

Goto(d, label) == pc' = [pc EXCEPT ![d] = label]

\* A piece of audio and its words: "all", "some" when the decoder stopped early and
\* nobody was told, "none" when it failed and the error names it.
Part(from, to, words) == [from |-> from, to |-> to, words |-> words]
Decoded(ps) == SelectSeq(ps, LAMBDA p : p.words # "none")

\* The piece at hand becomes a part of the result.
Keep(d, words) ==
  /\ parts' = [parts EXCEPT ![d] = Append(@, Part(pos[d], aim[d], words))]
  /\ pos' = [pos EXCEPT ![d] = aim[d]]

\* progress_cb is given the decoded pieces that are new since it was last called.
Tell(d, ps) ==
  told' = [told EXCEPT ![d] = IF Decoded(ps) = <<>> THEN @ ELSE Last(Decoded(ps)).to]

Finish(d, outcome) ==
  /\ result' = [result EXCEPT ![d] = outcome] /\ Goto(d, "end")

-----------------------------------------------------------------------------
(* The model comes and goes.                                                 *)

\* Qwen3: with a quantised aligner, else with a plain one, else not at all.
QwenLoads == loaded' \in BOOLEAN /\ UNCHANGED <<device, encoder>>

\* Cohere: the encoder session, then the decoder, each if it is missing; what was
\* made before a failure stays.
CohereLoads ==
  /\ \/ encoder' = TRUE /\ loaded' \in {TRUE, loaded}
     \/ UNCHANGED <<encoder, loaded>>
  /\ UNCHANGED device

\* Whisper: on the GPU, there with smaller numbers, on the CPU, or not at all.
WhisperLoads ==
  /\ \/ loaded' = TRUE /\ device' \in {"cuda", "cpu"}
     \/ loaded' = FALSE /\ UNCHANGED device
  /\ UNCHANGED encoder

IsLoaded == loaded /\ (kind = "cohere" => encoder)

\* Before a request the model is loaded if it is not there.
Begin(d) ==
  /\ pc[d] = "begin"
  /\ IF IsLoaded THEN UNCHANGED <<loaded, device, encoder>>
     ELSE \/ kind = "qwen3" /\ QwenLoads
          \/ kind = "cohere" /\ CohereLoads
          \/ kind = "whisper" /\ WhisperLoads
  /\ IF loaded' /\ (kind = "cohere" => encoder')
     THEN Goto(d, "check") /\ UNCHANGED result
     ELSE Finish(d, "error")
  /\ UNCHANGED <<kind, chunkSec, unloads, pos, chunk, aim, on, parts, told>>

\* unload: a request for another model does not ask who is decoding.
Unload ==
  /\ loaded /\ unloads < MaxUnloads
  /\ loaded' = FALSE /\ encoder' = FALSE /\ unloads' = unloads + 1
  /\ UNCHANGED <<kind, device, chunkSec, threadVars>>

\* transcribe_audio_sync looks once; Cohere does not look.
Check(d) ==
  /\ pc[d] = "check"
  /\ chunk' = [chunk EXCEPT ![d] = chunkSec]
  /\ IF loaded \/ kind = "cohere"
     THEN Goto(d, IF kind = "whisper" THEN "run" ELSE "next") /\ UNCHANGED result
     ELSE Finish(d, "error")
  /\ UNCHANGED <<backendVars, pos, aim, on, parts, told>>

-----------------------------------------------------------------------------
(* Qwen3: _transcribe_chunked.                                               *)

\* _snap_cut, and the cut that is made when it finds none behind the start.
ChunkEnds(from, size) ==
  IF Total - from <= size THEN {Total}
  ELSE {IF e <= from THEN from + size ELSE e :
          e \in {n \in from..Total : from + size - Band <= n /\ n <= from + size + Band}}

QwenChunk(d) ==
  /\ kind = "qwen3" /\ pc[d] = "next" /\ pos[d] < Total
  /\ \E e \in ChunkEnds(pos[d], chunk[d]) : aim' = [aim EXCEPT ![d] = e]
  /\ Goto(d, "decode")
  /\ UNCHANGED <<backendVars, pos, chunk, on, parts, told, result>>

Halved(n) == IF n \div 2 > MinChunk THEN n \div 2 ELSE MinChunk

\* Mutant of QwenOutOfMemory: the floor is forgotten.
QwenOutOfMemoryAgain(d) ==
  /\ kind = "qwen3" /\ pc[d] = "decode" /\ loaded
  /\ chunk' = [chunk EXCEPT ![d] = Halved(@)] /\ chunkSec' = chunk'[d]
  /\ Goto(d, "next")
  /\ UNCHANGED <<kind, loaded, device, encoder, unloads, pos, aim, on, parts, told, result>>
\* Out of memory: a smaller piece from the same place, for all calls to come.
QwenOutOfMemory(d) ==
  /\ kind = "qwen3" /\ pc[d] = "decode" /\ loaded /\ chunk[d] > MinChunk
  /\ chunk' = [chunk EXCEPT ![d] = Halved(@)] /\ chunkSec' = chunk'[d]
  /\ Goto(d, "next")
  /\ UNCHANGED <<kind, loaded, device, encoder, unloads, pos, aim, on, parts, told, result>>

QwenDecode(d) ==
  /\ kind = "qwen3" /\ pc[d] = "decode" /\ Goto(d, "next")
  /\ \/ loaded /\ Keep(d, "all") /\ Tell(d, parts'[d])
     \/ Keep(d, "none") /\ UNCHANGED told  \* an error, and the next piece
  /\ UNCHANGED <<backendVars, chunk, aim, on, result>>

-----------------------------------------------------------------------------
(* Cohere: _transcribe_windowed and _run_encoder.                            *)

\* _plan_window_bounds: where the window that starts here may end.  The last one
\* may be longer than the encoder takes at once: it is encoded in overlapping
\* pieces, which one step stands for.
WindowEnds(from) ==
  LET target == from + Window
      lowest == IF from + Window \div 2 > target - Snap THEN from + Window \div 2 ELSE target - Snap
  IN  IF Total - from <= Window \/ Total - target < MinTail THEN {Total}
      ELSE {IF c <= from THEN target ELSE c : c \in lowest..target - 1}

\* The words so far are told before the next window; without an encoder the call
\* ends in an exception nobody catches.
CohereWindow(d) ==
  /\ kind = "cohere" /\ pc[d] = "next" /\ pos[d] < Total
  /\ Tell(d, parts[d])
  /\ \E e \in WindowEnds(pos[d]) : aim' = [aim EXCEPT ![d] = e]
  /\ IF encoder THEN Goto(d, "encode") /\ UNCHANGED result ELSE Finish(d, "error")
  /\ UNCHANGED <<backendVars, pos, chunk, on, parts>>

\* The window failed: an error is noted and the next window tried.
CohereFails(d) ==
  /\ kind = "cohere" /\ pc[d] \in {"encode", "create", "retry", "cpu"}
  /\ Keep(d, "none") /\ Goto(d, "next")
  /\ UNCHANGED <<backendVars, chunk, aim, on, told, result>>

CohereEncode(d) ==
  /\ kind = "cohere" /\ pc[d] \in {"encode", "retry"} /\ encoder
  /\ \/ Goto(d, "parse")
     \/ Goto(d, IF pc[d] = "encode" THEN "drop" ELSE "cpu")  \* out of memory
  /\ UNCHANGED <<backendVars, pos, chunk, aim, on, parts, told, result>>

\* reload_encoder: the session is dropped ...
CohereDrop(d) ==
  /\ kind = "cohere" /\ pc[d] = "drop" /\ Goto(d, "create")
  /\ encoder' = FALSE
  /\ UNCHANGED <<kind, loaded, device, chunkSec, unloads, pos, chunk, aim, on, parts, told, result>>

\* ... and made again, for which there may be no memory either.
CohereCreate(d) ==
  /\ kind = "cohere" /\ pc[d] = "create"
  /\ \/ encoder' = TRUE /\ Goto(d, "retry")
     \/ UNCHANGED encoder /\ Goto(d, "cpu")
  /\ UNCHANGED <<kind, loaded, device, chunkSec, unloads, pos, chunk, aim, on, parts, told, result>>

\* The CPU session encodes the window.
CohereOnCpu(d) ==
  /\ kind = "cohere" /\ pc[d] = "cpu" /\ Goto(d, "parse")
  /\ UNCHANGED <<backendVars, pos, chunk, aim, on, parts, told, result>>

\* The encoder's output is read with the help of the GPU session, whichever
\* session made it: without that session the call ends in an exception.
CohereParse(d) ==
  /\ kind = "cohere" /\ pc[d] = "parse"
  /\ IF encoder THEN Goto(d, "generate") /\ UNCHANGED result ELSE Finish(d, "error")
  /\ UNCHANGED <<backendVars, pos, chunk, aim, on, parts, told>>

\* The decoder's loop, token by token: it goes through, or a step of it fails, for
\* whatever reason, and the words it has are returned as if they were all ...
CohereGenerate(d) ==
  /\ kind = "cohere" /\ pc[d] = "generate" /\ Goto(d, "next")
  /\ \/ loaded /\ Keep(d, "all")
     \/ Keep(d, "some")
  /\ UNCHANGED <<backendVars, chunk, aim, on, told, result>>

\* ... but where the decoder or the tokenizer is gone outside of the loop, the call
\* ends in an exception.
CohereMissesDecoder(d) ==
  /\ kind = "cohere" /\ pc[d] = "generate" /\ ~loaded /\ Finish(d, "error")
  /\ UNCHANGED <<backendVars, pos, chunk, aim, on, parts, told>>

-----------------------------------------------------------------------------
(* Whisper: transcribe_audio_sync and _run.                                  *)

\* The model is asked for its segments, if there still is one.
WhisperRun(d) ==
  /\ kind = "whisper" /\ pc[d] = "run"
  /\ on' = [on EXCEPT ![d] = device]
  /\ IF loaded THEN Goto(d, "next") /\ UNCHANGED result ELSE Finish(d, "error")
  /\ UNCHANGED <<backendVars, pos, chunk, aim, parts, told>>

\* A segment is yielded and told.
WhisperSegment(d) ==
  /\ kind = "whisper" /\ pc[d] = "next" /\ pos[d] < Total
  /\ \E e \in pos[d] + 1..Total :
       /\ aim' = [aim EXCEPT ![d] = e]
       /\ parts' = [parts EXCEPT ![d] = Append(@, Part(pos[d], e, "all"))]
       /\ pos' = [pos EXCEPT ![d] = e]
  /\ Tell(d, parts'[d])
  /\ UNCHANGED <<backendVars, pc, chunk, on, result>>

\* Any other error than memory ends the decode where it is; the rest is lost, and
\* said to be.
WhisperFails(d) ==
  /\ kind = "whisper" /\ pc[d] = "next" /\ pos[d] < Total
  /\ aim' = [aim EXCEPT ![d] = Total]
  /\ parts' = [parts EXCEPT ![d] = Append(@, Part(pos[d], Total, "none"))]
  /\ pos' = [pos EXCEPT ![d] = Total]
  /\ UNCHANGED <<backendVars, pc, chunk, on, told, result>>

\* Out of memory: the model is dropped, unless another thread has already moved
\* it to the CPU.
WhisperOutOfMemory(d) ==
  /\ kind = "whisper" /\ pc[d] = "next" /\ pos[d] < Total /\ on[d] = "cuda"
  /\ IF device = "cuda" THEN Goto(d, "fallback") /\ loaded' = FALSE /\ UNCHANGED result
     ELSE Finish(d, "error") /\ UNCHANGED loaded
  /\ UNCHANGED <<kind, device, encoder, chunkSec, unloads, pos, chunk, aim, on, parts, told>>

\* _fallback_to_cpu, and the whole decode once more from the start.
WhisperOnCpu(d) ==
  /\ kind = "whisper" /\ pc[d] = "fallback"
  /\ \/ /\ loaded' = TRUE /\ device' = "cpu" /\ Goto(d, "run")
        /\ pos' = [pos EXCEPT ![d] = 0]
        /\ parts' = [parts EXCEPT ![d] = <<>>]
        /\ UNCHANGED result
     \/ /\ Finish(d, "error")
        /\ UNCHANGED <<loaded, device, pos, parts>>
  /\ UNCHANGED <<kind, encoder, chunkSec, unloads, chunk, aim, on, told>>

-----------------------------------------------------------------------------

\* The whole audio is through: the text, and the errors that were noted.
Return(d) ==
  /\ pc[d] = "next" /\ pos[d] = Total /\ Finish(d, "text")
  /\ UNCHANGED <<backendVars, pos, chunk, aim, on, parts, told>>

Qwen(d) == QwenChunk(d) \/ QwenOutOfMemory(d) \/ QwenDecode(d)
Cohere(d) ==
  \/ CohereWindow(d) \/ CohereFails(d) \/ CohereEncode(d) \/ CohereDrop(d)
  \/ CohereCreate(d) \/ CohereOnCpu(d) \/ CohereParse(d)
  \/ CohereGenerate(d) \/ CohereMissesDecoder(d)
Whisper(d) == WhisperRun(d) \/ WhisperSegment(d) \/ WhisperFails(d) \/ WhisperOutOfMemory(d) \/ WhisperOnCpu(d)

Thread(d) == Begin(d) \/ Check(d) \/ Qwen(d) \/ Cohere(d) \/ Whisper(d) \/ Return(d)

DecodeNext == Unload \/ \E d \in Decoders : Thread(d)

DecodeSpec ==
  /\ DecodeInit /\ [][DecodeNext]_decodeVars
  /\ \A d \in Decoders : WF_decodeVars(Thread(d))

-----------------------------------------------------------------------------
(* Properties. *)

\* Pieces that follow one another from the start without gap or overlap.
Abut(ps, to) ==
  /\ \A i \in 1..Len(ps) : ps[i].from = (IF i = 1 THEN 0 ELSE ps[i - 1].to) /\ ps[i].from < ps[i].to
  /\ to = IF ps = <<>> THEN 0 ELSE ps[Len(ps)].to

Pieces(d) == {parts[d][i] : i \in 1..Len(parts[d])}

\* What ends without an error has gone through all of its audio, each moment of
\* which was put to the decoder, or named as failed, exactly once: across smaller
\* pieces, retries, fallbacks and the model being taken away.  Qwen3 and Whisper have
\* all the words of what they do not name; Cohere is excepted, whose decoder may
\* stop early (EveryWordIsThere, below).
NothingIsSkipped ==
  \A d \in Decoders : pc[d] = "end" /\ result[d] # "error" =>
    /\ Abut(parts[d], Total)
    /\ kind # "cohere" => \A p \in Pieces(d) : p.words # "some"

\* And every decode comes to its end, whatever fails.
AudioIsAccountedFor == []NothingIsSkipped /\ \A d \in Decoders : <>(pc[d] = "end")

\* "GPU with arena-reset retry, then CPU fallback on OOM" (_run_encoder): nothing
\* but memory failing, no call should end in an error.  It is not so: when the
\* encoder cannot be made again, the CPU's output is read by a session that is gone.
MemoryIsSurvived ==
  kind = "cohere" /\ loaded /\ unloads = 0 =>
    \A d \in Decoders : result[d] = "error" => \E p \in Pieces(d) : p.words = "none"

\* A text without an error has all the words.  It is not so for Cohere: a decoder
\* step that fails, be it that the decoder was unloaded, is logged, and what there is
\* of the window is returned as its text.
EveryWordIsThere ==
  \A d \in Decoders : result[d] = "text" => \A p \in Pieces(d) : p.words # "some"

\* A segment is told once.  It is not so for Whisper, which starts over on the CPU.
SegmentsAreToldOnce == [][\A d \in Decoders : told'[d] >= told[d]]_decodeVars

=============================================================================

--------------------------- MODULE ModelResidency ---------------------------
(* Which models are in memory (core/model_state.py) while the callers that  *)
(* load and unload them interleave: an upload between two progress events,  *)
(* live turns in pool threads, short requests that hold the event loop, the *)
(* idle monitor and its repair pass (server.py).  Nothing reserves a model: *)
(* each caller makes the state it needs and finds later what is left of it. *)
EXTENDS Naturals, FiniteSets

CONSTANTS
    Uploads,    \* transcribe uploads, one at a time (UploadJobs!OneJobAtATime)
    Sessions,   \* live sessions
    Ttl,        \* model_ttl_minutes, in ticks
    Windows,    \* bound: the decoder windows of an upload
    Turns,      \* bound: the turns of a live session
    Requests,   \* bound: short requests, and repair passes
    Failures,   \* bound: loads that raise
    Never       \* _last_used = 0

ASSUME ResidencyAssumption ==
    /\ {Ttl, Windows, Turns, Requests, Failures} \subseteq Nat
    /\ Never \notin Nat
    /\ Uploads \cap (Sessions \cup {"repair"}) = {}

Models == {"backend", "vad", "embedding"}

(* Who put a model where it is: loaded it or took it away ("load": a load   *)
(* of it that raised)                                                       *)
Callers == {"upload", "live", "request", "mcp", "repair", "ttl", "load", "nobody"}

VARIABLES
    st,         \* ModelState: resident, last (who did that), idle (since touch)
    upload,     \* upload |-> where its producer is
    left,       \* upload |-> windows still to decode
    live,       \* session |-> where it is
    turns,      \* session |-> turns it has sent
    repair,     \* the drain of the rebuild queue
    starved,    \* history: who missed a model, and who had taken it
    spent       \* how much of Requests and Failures is used

vars == <<st, upload, left, live, turns, repair, starved, spent>>

----------------------------------------------------------------------------
(* ModelState.  An operator returns the state its method leaves.            *)

Resident(s, ms) == ms \subseteq s.resident
ReadyForDiarize(s) == Resident(s, {"vad", "embedding"})
ReadyForTranscribe(s) == Resident(s, {"backend"})

Touch(s) == [s EXCEPT !.idle = 0]
IdleSeconds(s) == IF s.idle = Never THEN 0 ELSE s.idle

Drop(s, ms, who) ==
    [s EXCEPT !.resident = @ \ ms,
              !.last = [m \in Models |-> IF m \in ms \cap s.resident THEN who ELSE @[m]]]

Add(s, ms, who) ==
    [s EXCEPT !.resident = @ \cup ms,
              !.last = [m \in Models |-> IF m \in ms \ s.resident THEN who ELSE @[m]]]

(* Load what is missing of `first`, then of `then`, and touch.  `broken` is *)
(* the model whose load raises: what came before it stays, unmarked as used.*)
Fill(s, first, then, who, broken) ==
    LET missing == (first \cup then) \ s.resident
        kept == IF broken \in first THEN {} ELSE first \cap missing
    IN  IF broken \in missing
        THEN [Add(s, kept, who) EXCEPT !.last[broken] = "load"]
        ELSE Touch(Add(s, missing, who))

UnloadModels(s) ==
    IF s.resident = {} THEN s
    ELSE [Drop(s, Models, "ttl") EXCEPT !.idle = Never]

UnloadEmbedding(s, who) == Drop(s, {"embedding"}, who)

(* Mutant of EnsureDiarizeReady: a resident backend is left alone. *)
EnsureDiarizeBeside(s, who, broken) == Fill(s, {"vad"}, {"embedding"}, who, broken)

EnsureDiarizeReady(s, who, broken) ==
    Fill(Drop(s, {"backend"}, who), {"vad"}, {"embedding"}, who, broken)

EnsureBackendReady(s, who, broken) == Fill(s, {"backend"}, {}, who, broken)

(* Mutant of EnsureReady: the load is not counted as a use. *)
EnsureReadyUntouched(s, who, broken) ==
    [Fill(s, {"backend"}, {"vad", "embedding"}, who, broken) EXCEPT !.idle = s.idle]

EnsureReady(s, who, broken) ==
    IF broken = "embedding" /\ broken \notin s.resident
    THEN [Add(s, {"backend", "vad"}, who) EXCEPT !.last[broken] = "load"]
    ELSE Fill(s, {"backend"}, {"vad", "embedding"}, who, broken)

SwitchToBackendPhase(s, who, broken) ==
    EnsureBackendReady(UnloadEmbedding(s, who), who, broken)

----------------------------------------------------------------------------
(* The loads of one step: at most one of them raises, within the bound. *)
Breaks(broken) ==
    \/ broken = "none" /\ spent' = spent
    \/ /\ broken \in Models
       /\ spent.failures < Failures
       /\ spent' = [spent EXCEPT !.failures = @ + 1]

Misses(who, models) ==
    {[who |-> who, by |-> st.last[m]] : m \in models \ st.resident}

AtWork == {u \in Uploads : upload[u] \in {"queued", "diarizing", "embedded", "whole",
                                          "decoding"}}

(* /transcribe/upload up to start_job: VAD and embedding are loaded unless  *)
(* both are there, beside whatever else is resident.                        *)
StartUpload(u, broken) ==
    /\ upload[u] = "new" /\ AtWork = {}
    /\ Breaks(broken)
    /\ st' = IF ReadyForDiarize(st) THEN st ELSE EnsureDiarizeReady(st, "upload", broken)
    /\ upload' = [upload EXCEPT ![u] = IF ReadyForDiarize(st') THEN "queued" ELSE "refused"]
    /\ UNCHANGED <<left, live, turns, repair, starved>>

(* Diarizer.run asks for the models again; without them there are no        *)
(* segments and the file is decoded whole.                                  *)
BeginDiarize(u) ==
    /\ upload[u] = "queued"
    /\ starved' = starved \cup Misses(u, {"vad", "embedding"})
    /\ upload' = [upload EXCEPT ![u] = IF ReadyForDiarize(st) THEN "diarizing" ELSE "whole"]
    /\ UNCHANGED <<st, left, live, turns, repair, spent>>

(* The windows are embedded after three progress events, with the session   *)
(* of that moment: without one the job fails.                               *)
Embed(u) ==
    /\ upload[u] = "diarizing"
    /\ starved' = starved \cup Misses(u, {"embedding"})
    /\ upload' = [upload EXCEPT ![u] = IF Resident(st, {"embedding"}) THEN "embedded" ELSE "failed"]
    /\ UNCHANGED <<st, left, live, turns, repair, spent>>

HandOver(u, broken) ==
    /\ upload[u] \in {"embedded", "whole"}
    /\ Breaks(broken)
    /\ st' = LET handed == SwitchToBackendPhase(st, "upload", broken)
             IN  IF upload[u] = "embedded" THEN Touch(handed) ELSE handed
    /\ upload' = [upload EXCEPT ![u] = "decoding"]
    /\ UNCHANGED <<left, live, turns, repair, starved>>

(* One window in the pool thread.  A backend that is gone costs the window: *)
(* the error is part of the result.                                         *)
DecodeWindow(u) ==
    /\ upload[u] = "decoding" /\ left[u] > 0
    /\ left' = [left EXCEPT ![u] = @ - 1]
    /\ starved' = starved \cup Misses(u, {"backend"})
    /\ UNCHANGED <<st, upload, live, turns, repair, spent>>

FinishUpload(u) ==
    /\ upload[u] = "decoding" /\ left[u] = 0
    /\ upload' = [upload EXCEPT ![u] = "done"]
    /\ UNCHANGED <<st, left, live, turns, repair, starved, spent>>

----------------------------------------------------------------------------
Connect(s, broken) ==
    /\ live[s] = "off"
    /\ Breaks(broken)
    /\ st' = EnsureReady(st, "live", broken)
    /\ live' = [live EXCEPT ![s] = "open"]
    /\ UNCHANGED <<upload, left, turns, repair, starved>>

TurnArrives(s) ==
    /\ live[s] = "open" /\ turns[s] < Turns
    /\ st' = Touch(st)
    /\ live' = [live EXCEPT ![s] = "decoding"]
    /\ turns' = [turns EXCEPT ![s] = @ + 1]
    /\ UNCHANGED <<upload, left, repair, starved, spent>>

(* Without a backend the turn is answered as empty, and nothing reloads it. *)
TurnDecoded(s) ==
    /\ live[s] = "decoding"
    /\ starved' = starved \cup Misses(s, {"backend"})
    /\ live' = [live EXCEPT ![s] = "open"]
    /\ UNCHANGED <<st, upload, left, turns, repair, spent>>

Disconnect(s) ==
    /\ live[s] = "open"
    /\ live' = [live EXCEPT ![s] = "closed"]
    /\ UNCHANGED <<st, upload, left, turns, repair, starved, spent>>

----------------------------------------------------------------------------
(* Requests that never suspend, so that each is one step: a voiceprint or   *)
(* diarization request, the JSON transcription, the transcription tool.     *)
Asked(broken, next) ==
    /\ spent.requests < Requests
    /\ \/ broken = "none" /\ spent' = [spent EXCEPT !.requests = @ + 1]
       \/ /\ broken \in Models /\ spent.failures < Failures
          /\ spent' = [spent EXCEPT !.requests = @ + 1, !.failures = @ + 1]
    /\ st' = next
    /\ UNCHANGED <<upload, left, live, turns, repair, starved>>

EmbeddingRequest(broken) == Asked(broken, EnsureDiarizeReady(st, "request", broken))

JsonTranscribe(broken) ==
    LET ready == EnsureDiarizeReady(st, "request", broken)
    IN  Asked(broken, IF ReadyForDiarize(ready)
                      THEN SwitchToBackendPhase(ready, "request", broken) ELSE ready)

McpTranscribe(broken) == Asked(broken, EnsureBackendReady(st, "mcp", broken))

----------------------------------------------------------------------------
Tick ==
    /\ st.idle # Never /\ st.idle <= Ttl
    /\ st' = [st EXCEPT !.idle = @ + 1]
    /\ UNCHANGED <<upload, left, live, turns, repair, starved, spent>>

(* Mutant of MonitorUnloads: any job there may be is not asked for. *)
MonitorUnloadsUnasked ==
    /\ repair = "off" /\ st.resident # {} /\ IdleSeconds(st) > Ttl
    /\ st' = UnloadModels(st)
    /\ UNCHANGED <<upload, left, live, turns, repair, starved, spent>>

(* The idle monitor, which waits while its own repair pass runs *)
MonitorUnloads ==
    /\ repair = "off" /\ st.resident # {} /\ IdleSeconds(st) > Ttl /\ AtWork = {}
    /\ st' = UnloadModels(st)
    /\ UNCHANGED <<upload, left, live, turns, repair, starved, spent>>

(* _drain_rebuild_queue asks for a running job once, and then works in pool *)
(* threads while the loop goes on.                                          *)
DrainBegins ==
    /\ repair = "off" /\ AtWork = {} /\ spent.requests < Requests
    /\ spent' = [spent EXCEPT !.requests = @ + 1]
    /\ repair' = "ensuring"
    /\ UNCHANGED <<st, upload, left, live, turns, starved>>

DrainClears ==
    /\ repair = "ensuring"
    /\ LET ready == ReadyForDiarize(st) /\ ~ReadyForTranscribe(st) IN
       /\ st' = IF ready THEN Touch(st) ELSE Drop(st, {"backend"}, "repair")
       /\ repair' = IF ready THEN "running" ELSE "loading"
    /\ UNCHANGED <<upload, left, live, turns, starved, spent>>

DrainLoads(broken) ==
    /\ repair = "loading"
    /\ Breaks(broken)
    /\ st' = Fill(st, {"vad"}, {"embedding"}, "repair", broken)
    /\ repair' = "running"
    /\ UNCHANGED <<upload, left, live, turns, starved>>

DrainRuns ==
    /\ repair = "running"
    /\ repair' = "off"
    /\ starved' = starved \cup Misses("repair", {"embedding"})
    /\ UNCHANGED <<st, upload, left, live, turns, spent>>

----------------------------------------------------------------------------
Init ==
    /\ st = [resident |-> {}, last |-> [m \in Models |-> "nobody"],
             idle |-> Never]
    /\ upload = [u \in Uploads |-> "new"]
    /\ left = [u \in Uploads |-> Windows]
    /\ live = [s \in Sessions |-> "off"]
    /\ turns = [s \in Sessions |-> 0]
    /\ repair = "off"
    /\ starved = {}
    /\ spent = [requests |-> 0, failures |-> 0]

Producer(u) ==
    \/ BeginDiarize(u) \/ Embed(u) \/ DecodeWindow(u) \/ FinishUpload(u)
    \/ \E broken \in Models \cup {"none"} : HandOver(u, broken)

Drain ==
    \/ DrainClears \/ DrainRuns
    \/ \E broken \in Models \cup {"none"} : DrainLoads(broken)

Next ==
    \/ \E u \in Uploads, broken \in Models \cup {"none"} : StartUpload(u, broken)
    \/ \E u \in Uploads : Producer(u)
    \/ \E s \in Sessions, broken \in Models \cup {"none"} : Connect(s, broken)
    \/ \E s \in Sessions : TurnArrives(s) \/ TurnDecoded(s) \/ Disconnect(s)
    \/ \E broken \in Models \cup {"none"} :
          EmbeddingRequest(broken) \/ JsonTranscribe(broken) \/ McpTranscribe(broken)
    \/ Tick \/ MonitorUnloads \/ DrainBegins \/ Drain

(* Time passes, the monitor's loop goes round, tasks and threads return. *)
Fairness ==
    /\ WF_vars(Tick) /\ WF_vars(MonitorUnloads) /\ WF_vars(Drain)
    /\ \A u \in Uploads : WF_vars(Producer(u))
    /\ \A s \in Sessions : WF_vars(TurnDecoded(s))

Spec == Init /\ [][Next]_vars /\ Fairness

----------------------------------------------------------------------------
(* The recogniser and the voice model share the card only where a caller    *)
(* that asks for both, or one that loads beside a job, has put them there:  *)
(* uploads, voiceprint requests and JSON transcriptions, in any order, hand *)
(* the card over (_switch_to_backend_phase, ensure_diarize_ready).          *)
PhasesTakeTurns ==
    Resident(st, {"backend", "embedding"}) =>
        \E m \in {"backend", "embedding"} : st.last[m] \in {"live", "mcp", "repair"}

(* An upload that misses a model in the middle of its run lost it to a      *)
(* request or a repair pass, or to a load that failed: never to the idle    *)
(* monitor, to a live session, or to the hand-over of an upload.            *)
MonitorSparesJobs ==
    \A miss \in starved :
        miss.who \in Uploads => miss.by \in {"request", "repair", "load"}

(* Nothing is in memory for ever: when the calls stop, the models go.  Only *)
(* a load that failed half-way leaves models no touch has marked as used,   *)
(* which the monitor takes for never used.                                  *)
IdleModelsAreReleased == <>[](st.resident = {} \/ spent.failures > 0)
=============================================================================

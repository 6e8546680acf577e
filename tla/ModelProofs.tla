---------------------------- MODULE ModelProofs ----------------------------
(* Theorems about ModelResidency, for any uploads, sessions and bounds: two *)
(* models share the card only through callers that hand nothing over, and   *)
(* the idle monitor takes no model from an upload at work.  Theorems about  *)
(* BackendDecode, for any threads, backends and sizes: what is returned as  *)
(* a text skips nothing of the audio.                                       *)
EXTENDS ModelResidency, BackendDecode, TLAPS

(* Which models are in memory                                               *)

ModelStates == [resident : SUBSET Models, last : [Models -> Callers], idle : Nat \cup {Never}]

Guests == {"live", "mcp", "repair"}
Takers == {"request", "repair", "load"}

(* PhasesTakeTurns, of any state of the models *)
Shared(s) ==
    Resident(s, {"backend", "embedding"}) =>
        \E m \in {"backend", "embedding"} : s.last[m] \in Guests

(* m is in memory, or gone by the hand of one who may take it from a job *)
Held(s, m) == m \in s.resident \/ s.last[m] \in Takers

(* What a step by `who` that takes only `taken` may do to the models *)
Harmless(s, t, taken) ==
    /\ t \in ModelStates /\ Shared(t)
    /\ \A m \in Models \ taken : Held(s, m) => Held(t, m)

----------------------------------------------------------------------------
LEMMA TouchHarmless ==
    ASSUME NEW s \in ModelStates, Shared(s)
    PROVE  Harmless(s, Touch(s), {}) /\ Touch(s).resident = s.resident
BY DEF ModelStates, Shared, Harmless, Touch, Resident, Held

(* Taking models away leaves the others, and no two that were not there. *)
LEMMA DropHarmless ==
    ASSUME NEW s \in ModelStates, Shared(s), NEW ms \in SUBSET Models, NEW who \in Callers
    PROVE  /\ Harmless(s, Drop(s, ms, who), ms)
           /\ who \in Takers => Harmless(s, Drop(s, ms, who), {})
           /\ Drop(s, ms, who).resident = s.resident \ ms
<1> DEFINE t == Drop(s, ms, who)
<1>1. t \in ModelStates /\ t.resident = s.resident \ ms
      /\ t.last = [m \in Models |-> IF m \in ms \cap s.resident THEN who ELSE s.last[m]]
    BY DEF ModelStates, Drop
<1> HIDE DEF t
<1>2. Shared(t)
    BY <1>1 DEF Shared, Resident, Models
<1>3. \A m \in Models : (m \notin ms \/ who \in Takers) => (Held(s, m) => Held(t, m))
    BY <1>1 DEF Held
<1> QED
    BY <1>1, <1>2, <1>3 DEF Harmless, t

(* Loading models leaves every other one, and makes two share the card only *)
(* for a guest.                                                             *)
LEMMA AddHarmless ==
    ASSUME NEW s \in ModelStates, Shared(s), NEW ms \in SUBSET Models, NEW who \in Callers,
           who \in Guests \/ ~({"backend", "embedding"} \subseteq s.resident \cup ms)
    PROVE  /\ Harmless(s, Add(s, ms, who), {})
           /\ Add(s, ms, who).resident = s.resident \cup ms
<1> DEFINE t == Add(s, ms, who)
<1>1. t \in ModelStates /\ t.resident = s.resident \cup ms
      /\ t.last = [m \in Models |-> IF m \in ms \ s.resident THEN who ELSE s.last[m]]
    BY DEF ModelStates, Add
<1> HIDE DEF t
<1>2. Shared(t)
    BY <1>1 DEF Shared, Resident, Models
<1>3. \A m \in Models : Held(s, m) => Held(t, m)
    BY <1>1 DEF Held
<1> QED
    BY <1>1, <1>2, <1>3 DEF Harmless, t

(* A load that raised blames itself for a model that is not there. *)
LEMMA BrokenHarmless ==
    ASSUME NEW s \in ModelStates, Shared(s), NEW broken \in Models \ s.resident
    PROVE  LET t == [s EXCEPT !.last[broken] = "load"]
           IN  Harmless(s, t, {}) /\ t.resident = s.resident /\ Held(t, broken)
<1> DEFINE t == [s EXCEPT !.last[broken] = "load"]
<1>1. t \in ModelStates /\ t.resident = s.resident
      /\ t.last = [s.last EXCEPT ![broken] = "load"]
    BY DEF ModelStates, Callers
<1> HIDE DEF t
<1>2. Shared(t)
    BY <1>1 DEF Shared, Resident, ModelStates
<1>3. Held(t, broken) /\ \A m \in Models : Held(s, m) => Held(t, m)
    BY <1>1 DEF Held, Takers, ModelStates
<1> QED
    BY <1>1, <1>2, <1>3 DEF Harmless, t

LEMMA HarmlessChains ==
    ASSUME NEW s, NEW t, NEW u, NEW a, NEW b, Harmless(s, t, a), Harmless(t, u, b)
    PROVE  Harmless(s, u, a \cup b)
BY DEF Harmless

LEMMA HarmlessChainsFree ==
    ASSUME NEW s, NEW t, NEW u, Harmless(s, t, {}), Harmless(t, u, {})
    PROVE  Harmless(s, u, {})
BY DEF Harmless

----------------------------------------------------------------------------
Broken == Models \cup {"none"}

(* Whatever is loaded or breaks, what was to be loaded is held afterwards,  *)
(* unless something broke before its turn came.                             *)
LEMMA FillHarmless ==
    ASSUME NEW s \in ModelStates, Shared(s), NEW who \in Callers, NEW broken \in Broken,
           NEW first \in SUBSET Models, NEW then \in SUBSET Models,
           who \in Guests \/ ~({"backend", "embedding"} \subseteq s.resident \cup first \cup then)
    PROVE  /\ Harmless(s, Fill(s, first, then, who, broken), {})
           /\ \A m \in first \cup then :
                 first \cup then = {m} => Held(Fill(s, first, then, who, broken), m)
<1> DEFINE missing == (first \cup then) \ s.resident
           kept == IF broken \in first THEN {} ELSE first \cap missing
           t == Fill(s, first, then, who, broken)
<1>0. missing \in SUBSET Models /\ kept \in SUBSET Models
      /\ s.resident \cup missing = s.resident \cup first \cup then
      /\ kept \subseteq missing
    OBVIOUS
<1>1. CASE broken \in missing
  <2> DEFINE a == Add(s, kept, who)
  <2>1. t = [a EXCEPT !.last[broken] = "load"]
      BY <1>1 DEF Fill
  <2>2. Harmless(s, a, {}) /\ a.resident = s.resident \cup kept
      BY <1>0, AddHarmless
  <2>3. broken \in Models \ a.resident
      BY <1>0, <1>1, <2>2
  <2>4. a \in ModelStates /\ Shared(a)
      BY <2>2 DEF Harmless
  <2> HIDE DEF a, t
  <2>5. Harmless(a, t, {}) /\ Held(t, broken)
      BY <2>1, <2>3, <2>4, BrokenHarmless
  <2> QED
      BY <1>1, <2>2, <2>5, HarmlessChainsFree DEF t
<1>2. CASE broken \notin missing
  <2> DEFINE a == Add(s, missing, who)
  <2>1. t = Touch(a)
      BY <1>2 DEF Fill
  <2>2. Harmless(s, a, {}) /\ a.resident = s.resident \cup missing
      BY <1>0, AddHarmless
  <2>3. a \in ModelStates /\ Shared(a)
      BY <2>2 DEF Harmless
  <2> HIDE DEF a, t
  <2>4. Harmless(a, t, {}) /\ t.resident = a.resident
      BY <2>1, <2>3, TouchHarmless
  <2>5. \A m \in first \cup then : Held(t, m)
      BY <2>2, <2>4, <1>0 DEF Held
  <2> QED
      BY <2>2, <2>4, <2>5, HarmlessChainsFree DEF t
<1> QED
    BY <1>1, <1>2

LEMMA EnsureDiarizeReadyHarmless ==
    ASSUME NEW s \in ModelStates, Shared(s), NEW who \in Callers, NEW broken \in Broken
    PROVE  LET t == EnsureDiarizeReady(s, who, broken)
           IN  Harmless(s, t, {"backend"}) /\ (who \in Takers => Harmless(s, t, {}))
<1> DEFINE d == Drop(s, {"backend"}, who)
           t == EnsureDiarizeReady(s, who, broken)
<1>1. /\ Harmless(s, d, {"backend"})
      /\ who \in Takers => Harmless(s, d, {})
      /\ d.resident = s.resident \ {"backend"}
    BY DropHarmless DEF Models
<1>2. d \in ModelStates /\ Shared(d)
    BY <1>1 DEF Harmless
<1>3. t = Fill(d, {"vad"}, {"embedding"}, who, broken)
    BY DEF EnsureDiarizeReady
<1> HIDE DEF d, t
<1>4. Harmless(d, t, {})
  <2>1. ~({"backend", "embedding"} \subseteq d.resident \cup {"vad"} \cup {"embedding"})
      BY <1>1
  <2> QED
      BY <1>2, <1>3, <2>1, FillHarmless DEF Models
<1> QED
    BY <1>1, <1>4, HarmlessChains, HarmlessChainsFree DEF t, Harmless

LEMMA EnsureBackendReadyHarmless ==
    ASSUME NEW s \in ModelStates, Shared(s), NEW who \in Callers, NEW broken \in Broken,
           who \in Guests \/ "embedding" \notin s.resident
    PROVE  LET t == EnsureBackendReady(s, who, broken)
           IN  Harmless(s, t, {}) /\ Held(t, "backend")
<1>1. who \in Guests \/ ~({"backend", "embedding"} \subseteq s.resident \cup {"backend"} \cup {})
    OBVIOUS
<1> QED
    BY <1>1, FillHarmless DEF EnsureBackendReady, Models

LEMMA SwitchHarmless ==
    ASSUME NEW s \in ModelStates, Shared(s), NEW who \in Callers, NEW broken \in Broken
    PROVE  LET t == SwitchToBackendPhase(s, who, broken)
           IN  /\ Harmless(s, t, {"embedding"})
               /\ who \in Takers => Harmless(s, t, {})
               /\ Held(t, "backend")
<1> DEFINE d == UnloadEmbedding(s, who)
           t == SwitchToBackendPhase(s, who, broken)
<1>1. /\ Harmless(s, d, {"embedding"})
      /\ who \in Takers => Harmless(s, d, {})
      /\ d.resident = s.resident \ {"embedding"}
    BY DropHarmless DEF Models, UnloadEmbedding
<1>2. d \in ModelStates /\ Shared(d) /\ "embedding" \notin d.resident
    BY <1>1 DEF Harmless
<1>3. t = EnsureBackendReady(d, who, broken)
    BY DEF SwitchToBackendPhase
<1> HIDE DEF d, t
<1>4. Harmless(d, t, {}) /\ Held(t, "backend")
    BY <1>2, <1>3, EnsureBackendReadyHarmless
<1> QED
    BY <1>1, <1>4, HarmlessChains, HarmlessChainsFree DEF t, Harmless

LEMMA EnsureReadyHarmless ==
    ASSUME NEW s \in ModelStates, Shared(s), NEW broken \in Broken
    PROVE  Harmless(s, EnsureReady(s, "live", broken), {})
<1> DEFINE t == EnsureReady(s, "live", broken)
           a == Add(s, {"backend", "vad"}, "live")
<1>0. "live" \in Callers /\ "live" \in Guests
    BY DEF Callers, Guests
<1>1. CASE broken = "embedding" /\ broken \notin s.resident
  <2>1. t = [a EXCEPT !.last[broken] = "load"]
      BY <1>1 DEF EnsureReady
  <2>2. Harmless(s, a, {}) /\ a.resident = s.resident \cup {"backend", "vad"}
      BY <1>0, AddHarmless DEF Models
  <2>3. broken \in Models \ a.resident
      BY <1>1, <2>2 DEF Models
  <2>4. a \in ModelStates /\ Shared(a)
      BY <2>2 DEF Harmless
  <2> HIDE DEF a, t
  <2>5. Harmless(a, t, {})
      BY <2>1, <2>3, <2>4, BrokenHarmless
  <2> QED
      BY <2>2, <2>5, HarmlessChainsFree DEF t
<1>2. CASE ~(broken = "embedding" /\ broken \notin s.resident)
  <2>1. t = Fill(s, {"backend"}, {"vad", "embedding"}, "live", broken)
      BY <1>2 DEF EnsureReady
  <2> QED
      BY <2>1, <1>0, FillHarmless DEF Models
<1> QED
    BY <1>1, <1>2

----------------------------------------------------------------------------
Stages == {"new", "refused", "queued", "diarizing", "embedded", "whole", "decoding",
           "done", "failed"}

TypeOK ==
    /\ st \in ModelStates
    /\ upload \in [Uploads -> Stages]

(* What an upload made ready for its next step is there, or was taken by a  *)
(* request, the repair pass or a failing load.                              *)
JobsHold ==
    \A u \in Uploads :
        /\ upload[u] \in {"queued", "diarizing"} =>
              Held(st, "vad") /\ Held(st, "embedding")
        /\ upload[u] = "decoding" => Held(st, "backend")

OneAtWork == \A u, v \in AtWork : u = v

PhaseInv == TypeOK /\ Shared(st)

JobInv == PhaseInv /\ JobsHold /\ OneAtWork /\ MonitorSparesJobs

LEMMA InitJobInv == Init => JobInv
<1> SUFFICES ASSUME Init PROVE JobInv
    OBVIOUS
<1>1. TypeOK
  <2>1. [m \in Models |-> "nobody"] \in [Models -> Callers]
      BY DEF Callers
  <2>2. st = [resident |-> {}, last |-> [m \in Models |-> "nobody"], idle |-> Never]
      BY DEF Init
  <2>3. st \in ModelStates
      BY <2>1, <2>2 DEF ModelStates
  <2>4. upload \in [Uploads -> Stages]
      BY DEF Init, Stages
  <2> QED
      BY <2>3, <2>4 DEF TypeOK
<1>2. Shared(st)
    BY DEF Init, Shared, Resident
<1>3. JobsHold /\ OneAtWork /\ MonitorSparesJobs
    BY DEF Init, JobsHold, OneAtWork, AtWork, MonitorSparesJobs
<1> QED
    BY <1>1, <1>2, <1>3 DEF JobInv, PhaseInv

(* Steps that leave the uploads where they are and take nothing from them. *)
LEMMA BystandersKeep ==
    ASSUME JobInv, UNCHANGED <<upload, starved>>, Harmless(st, st', {})
    PROVE  JobInv'
<1>1. TypeOK' /\ Shared(st')
    BY DEF JobInv, PhaseInv, TypeOK, Harmless
<1>2. JobsHold'
    BY DEF JobInv, JobsHold, Harmless, Models
<1>3. OneAtWork' /\ MonitorSparesJobs'
    BY DEF JobInv, OneAtWork, AtWork, MonitorSparesJobs
<1> QED
    BY <1>1, <1>2, <1>3 DEF JobInv, PhaseInv

LEMMA SameIsHarmless ==
    ASSUME PhaseInv PROVE Harmless(st, st, {})
BY DEF PhaseInv, TypeOK, Harmless

(* The same for steps that note who missed a model, if no upload did. *)
LEMMA MissesKeep ==
    ASSUME JobInv, NEW who, who \notin Uploads, NEW models,
           starved' = starved \cup Misses(who, models), UNCHANGED <<st, upload>>
    PROVE  JobInv'
<1>1. PhaseInv' /\ JobsHold' /\ OneAtWork'
    BY DEF JobInv, PhaseInv, TypeOK, Shared, Resident, JobsHold, Held, OneAtWork, AtWork
<1>2. MonitorSparesJobs'
    BY DEF JobInv, MonitorSparesJobs, Misses
<1> QED
    BY <1>1, <1>2 DEF JobInv

(* An upload at work goes on, misses nothing it held, and needs from now on *)
(* nothing it does not hold.                                                *)
LEMMA WorkersKeep ==
    ASSUME JobInv, NEW u \in Uploads, u \in AtWork, NEW to \in Stages,
           upload' = [upload EXCEPT ![u] = to],
           st' \in ModelStates, Shared(st'),
           to \in {"queued", "diarizing"} => Held(st', "vad") /\ Held(st', "embedding"),
           to = "decoding" => Held(st', "backend"),
           NEW models, models \subseteq Models, \A m \in models : Held(st, m),
           starved' = starved \cup Misses(u, models)
    PROVE  JobInv'
<1>1. TypeOK'
  <2>1. upload' \in [Uploads -> Stages]
      BY DEF JobInv, PhaseInv, TypeOK
  <2> QED
      BY <2>1 DEF TypeOK
<1>2. \A v \in Uploads \ {u} : v \notin AtWork /\ upload'[v] = upload[v]
    BY DEF JobInv, PhaseInv, TypeOK, OneAtWork
<1>3. upload'[u] = to
    BY DEF JobInv, PhaseInv, TypeOK
<1>4. JobsHold'
    BY <1>2, <1>3 DEF JobsHold, AtWork
<1>5. OneAtWork'
    BY <1>2 DEF OneAtWork, AtWork
<1>6. MonitorSparesJobs'
    BY DEF JobInv, MonitorSparesJobs, Misses, Held, Takers
<1> QED
    BY <1>1, <1>4, <1>5, <1>6 DEF JobInv, PhaseInv

LEMMA WorkersGoOn ==
    ASSUME JobInv, NEW u \in Uploads, u \in AtWork, NEW to \in Stages,
           upload' = [upload EXCEPT ![u] = to],
           st' \in ModelStates, Shared(st'),
           to \in {"queued", "diarizing"} => Held(st', "vad") /\ Held(st', "embedding"),
           to = "decoding" => Held(st', "backend"),
           starved' = starved
    PROVE  JobInv'
<1> DEFINE nothing == {}
<1>1. nothing \subseteq Models /\ \A m \in nothing : Held(st, m)
    OBVIOUS
<1>2. starved' = starved \cup Misses(u, nothing)
    BY DEF Misses
<1> HIDE DEF nothing
<1> QED
    BY <1>1, <1>2, WorkersKeep

----------------------------------------------------------------------------
LEMMA UploadSteps ==
    ASSUME JobInv, NEW u \in Uploads,
           Producer(u) \/ \E broken \in Broken : StartUpload(u, broken)
    PROVE  JobInv'
<1>0. /\ st \in ModelStates /\ Shared(st) /\ upload \in [Uploads -> Stages]
      /\ "upload" \in Callers
    BY DEF JobInv, PhaseInv, TypeOK, Callers
<1>1. ASSUME NEW broken \in Broken, StartUpload(u, broken) PROVE JobInv'
  <2> DEFINE ready == EnsureDiarizeReady(st, "upload", broken)
             to == IF ReadyForDiarize(st') THEN "queued" ELSE "refused"
  <2>1. AtWork = {} /\ upload' = [upload EXCEPT ![u] = to] /\ starved' = starved
        /\ st' = IF ReadyForDiarize(st) THEN st ELSE ready
      BY <1>1 DEF StartUpload
  <2>2. Harmless(st, ready, {"backend"})
      BY <1>0, EnsureDiarizeReadyHarmless
  <2>3. st' \in ModelStates /\ Shared(st')
      BY <2>1, <2>2, <1>0 DEF Harmless
  <2>4. TypeOK'
    <3>1. to \in Stages
        BY DEF Stages
    <3>2. upload' \in [Uploads -> Stages]
        BY <2>1, <3>1, <1>0
    <3> QED
        BY <2>3, <3>2 DEF TypeOK
  <2>5. upload'[u] = to /\ \A v \in Uploads \ {u} : v \notin AtWork /\ upload'[v] = upload[v]
      BY <2>1, <1>0
  <2>6. to = "queued" => Held(st', "vad") /\ Held(st', "embedding")
      BY DEF ReadyForDiarize, Resident, Held
  <2>7. JobsHold'
      BY <2>5, <2>6 DEF JobsHold, AtWork
  <2>8. OneAtWork'
      BY <2>5 DEF OneAtWork, AtWork
  <2>9. MonitorSparesJobs'
      BY <2>1 DEF JobInv, MonitorSparesJobs
  <2> QED
      BY <2>3, <2>4, <2>7, <2>8, <2>9 DEF JobInv, PhaseInv
<1>2. CASE BeginDiarize(u)
  <2>1. u \in AtWork /\ st' = st /\ starved' = starved \cup Misses(u, {"vad", "embedding"})
        /\ Held(st, "vad") /\ Held(st, "embedding")
      BY <1>2 DEF BeginDiarize, AtWork, JobInv, JobsHold
  <2>2. PICK to \in Stages : to \in {"diarizing", "whole"}
                             /\ upload' = [upload EXCEPT ![u] = to]
      BY <1>2 DEF BeginDiarize, Stages
  <2> QED
      BY <2>1, <2>2, <1>0, WorkersKeep DEF Models
<1>3. CASE Embed(u)
  <2>1. u \in AtWork /\ st' = st /\ starved' = starved \cup Misses(u, {"embedding"})
        /\ Held(st, "embedding")
      BY <1>3 DEF Embed, AtWork, JobInv, JobsHold
  <2>2. PICK to \in Stages : to \in {"embedded", "failed"}
                             /\ upload' = [upload EXCEPT ![u] = to]
      BY <1>3 DEF Embed, Stages
  <2> QED
      BY <2>1, <2>2, <1>0, WorkersKeep DEF Models
<1>4. ASSUME NEW broken \in Broken, HandOver(u, broken) PROVE JobInv'
  <2> DEFINE handed == SwitchToBackendPhase(st, "upload", broken)
  <2>1. u \in AtWork /\ starved' = starved /\ upload' = [upload EXCEPT ![u] = "decoding"]
        /\ st' \in {handed, Touch(handed)}
      BY <1>4 DEF HandOver, AtWork
  <2>2. Harmless(st, handed, {"embedding"}) /\ Held(handed, "backend")
      BY <1>0, SwitchHarmless
  <2>3. handed \in ModelStates /\ Shared(handed)
      BY <2>2 DEF Harmless
  <2> HIDE DEF handed
  <2>4. Harmless(handed, Touch(handed), {})
      BY <2>3, TouchHarmless
  <2>5. st' \in ModelStates /\ Shared(st') /\ Held(st', "backend")
      BY <2>1, <2>2, <2>3, <2>4 DEF Harmless, Models
  <2>6. "decoding" \in Stages
      BY DEF Stages
  <2> QED
      BY <2>1, <2>5, <2>6, WorkersGoOn
<1>5. CASE DecodeWindow(u)
  <2>1. u \in AtWork /\ st' = st /\ starved' = starved \cup Misses(u, {"backend"})
        /\ Held(st, "backend") /\ upload' = upload
      BY <1>5 DEF DecodeWindow, AtWork, JobInv, JobsHold
  <2>2. upload' = [upload EXCEPT ![u] = "decoding"]
      BY <1>5, <2>1, <1>0 DEF DecodeWindow
  <2>3. /\ "decoding" \in Stages /\ "decoding" \notin {"queued", "diarizing"}
        /\ {"backend"} \subseteq Models /\ \A m \in {"backend"} : Held(st, m)
        /\ st' \in ModelStates /\ Shared(st') /\ Held(st', "backend")
      BY <2>1, <1>0 DEF Stages, Models
  <2> QED
      BY <2>1, <2>2, <2>3, WorkersKeep
<1>6. CASE FinishUpload(u)
  <2>1. u \in AtWork /\ st' = st /\ starved' = starved
        /\ upload' = [upload EXCEPT ![u] = "done"]
      BY <1>6 DEF FinishUpload, AtWork
  <2>2. "done" \in Stages
      BY DEF Stages
  <2> QED
      BY <2>1, <2>2, <1>0, WorkersGoOn
<1> QED
    BY <1>1, <1>2, <1>3, <1>4, <1>5, <1>6 DEF Producer, Broken

LEMMA SessionSteps ==
    ASSUME JobInv, NEW s \in Sessions,
           \/ \E broken \in Broken : Connect(s, broken)
           \/ TurnArrives(s) \/ TurnDecoded(s) \/ Disconnect(s)
    PROVE  JobInv'
<1>0. st \in ModelStates /\ Shared(st) /\ PhaseInv /\ s \notin Uploads
    BY ResidencyAssumption DEF JobInv, PhaseInv, TypeOK
<1>1. ASSUME NEW broken \in Broken, Connect(s, broken) PROVE JobInv'
    BY <1>1, <1>0, EnsureReadyHarmless, BystandersKeep DEF Connect
<1>2. CASE TurnArrives(s)
    BY <1>2, <1>0, TouchHarmless, BystandersKeep DEF TurnArrives
<1>3. CASE TurnDecoded(s)
    BY <1>3, <1>0, MissesKeep DEF TurnDecoded
<1>4. CASE Disconnect(s)
  <2>1. st' = st /\ UNCHANGED <<upload, starved>>
      BY <1>4 DEF Disconnect
  <2> QED
      BY <2>1, <1>0, SameIsHarmless, BystandersKeep
<1> QED
    BY <1>1, <1>2, <1>3, <1>4

LEMMA RequestSteps ==
    ASSUME JobInv, NEW broken \in Broken,
           EmbeddingRequest(broken) \/ JsonTranscribe(broken) \/ McpTranscribe(broken)
    PROVE  JobInv'
<1>0. /\ st \in ModelStates /\ Shared(st)
      /\ "request" \in Callers /\ "request" \in Takers /\ "mcp" \in Callers /\ "mcp" \in Guests
    BY DEF JobInv, PhaseInv, TypeOK, Callers, Takers, Guests
<1> DEFINE ready == EnsureDiarizeReady(st, "request", broken)
           handed == SwitchToBackendPhase(ready, "request", broken)
<1>1. Harmless(st, ready, {})
    BY <1>0, EnsureDiarizeReadyHarmless
<1>2. CASE EmbeddingRequest(broken)
    BY <1>2, <1>1, BystandersKeep DEF EmbeddingRequest, Asked
<1>3. CASE JsonTranscribe(broken)
  <2>1. UNCHANGED <<upload, starved>> /\ st' \in {ready, handed}
      BY <1>3 DEF JsonTranscribe, Asked
  <2>2. ready \in ModelStates /\ Shared(ready)
      BY <1>1 DEF Harmless
  <2> HIDE DEF ready
  <2>3. Harmless(ready, handed, {})
      BY <2>2, <1>0, SwitchHarmless
  <2> HIDE DEF handed
  <2>4. Harmless(st, st', {})
      BY <2>1, <1>1, <2>3, HarmlessChainsFree
  <2> QED
      BY <2>1, <2>4, BystandersKeep
<1>4. CASE McpTranscribe(broken)
    BY <1>4, <1>0, EnsureBackendReadyHarmless, BystandersKeep DEF McpTranscribe, Asked
<1> QED
    BY <1>2, <1>3, <1>4

LEMMA IdleSteps ==
    ASSUME JobInv, Tick \/ MonitorUnloads
    PROVE  JobInv'
<1>0. st \in ModelStates /\ Shared(st)
    BY DEF JobInv, PhaseInv, TypeOK
<1>1. CASE Tick
  <2>1. st.idle \in Nat /\ st' = [st EXCEPT !.idle = @ + 1] /\ UNCHANGED <<upload, starved>>
      BY <1>1, <1>0 DEF Tick, ModelStates
  <2>2. st' \in ModelStates /\ st'.resident = st.resident /\ st'.last = st.last
      BY <2>1, <1>0 DEF ModelStates
  <2>3. Harmless(st, st', {})
      BY <2>2, <1>0 DEF Harmless, Shared, Resident, Held
  <2> QED
      BY <2>1, <2>3, BystandersKeep
<1>2. CASE MonitorUnloads
  <2> DEFINE d == Drop(st, Models, "ttl")
  <2>1. AtWork = {} /\ UNCHANGED <<upload, starved>> /\ st' = [d EXCEPT !.idle = Never]
      BY <1>2 DEF MonitorUnloads, UnloadModels
  <2>2. Harmless(st, d, Models) /\ d.resident = st.resident \ Models
      BY <1>0, DropHarmless DEF Callers
  <2>3. d \in ModelStates /\ d.resident = {}
      BY <2>2, <1>0 DEF Harmless, ModelStates
  <2> HIDE DEF d
  <2>4. st' \in ModelStates /\ st'.resident = {}
      BY <2>1, <2>3 DEF ModelStates
  <2>5. PhaseInv'
      BY <2>1, <2>4 DEF JobInv, PhaseInv, TypeOK, Shared, Resident
  <2>6. JobsHold' /\ OneAtWork' /\ MonitorSparesJobs'
      BY <2>1 DEF JobInv, JobsHold, OneAtWork, AtWork, MonitorSparesJobs
  <2> QED
      BY <2>5, <2>6 DEF JobInv
<1> QED
    BY <1>1, <1>2

LEMMA RepairSteps ==
    ASSUME JobInv, DrainBegins \/ Drain
    PROVE  JobInv'
<1>0. /\ st \in ModelStates /\ Shared(st) /\ PhaseInv /\ "repair" \notin Uploads
      /\ "repair" \in Callers /\ "repair" \in Takers /\ "repair" \in Guests
    BY ResidencyAssumption DEF JobInv, PhaseInv, TypeOK, Callers, Takers, Guests
<1>1. CASE DrainBegins
  <2>1. st' = st /\ UNCHANGED <<upload, starved>>
      BY <1>1 DEF DrainBegins
  <2> QED
      BY <2>1, <1>0, SameIsHarmless, BystandersKeep
<1>2. CASE DrainClears
  <2>1. UNCHANGED <<upload, starved>> /\ st' \in {Touch(st), Drop(st, {"backend"}, "repair")}
      BY <1>2 DEF DrainClears
  <2>2. Harmless(st, Touch(st), {})
      BY <1>0, TouchHarmless
  <2>3. Harmless(st, Drop(st, {"backend"}, "repair"), {})
      BY <1>0, DropHarmless DEF Models
  <2> QED
      BY <2>1, <2>2, <2>3, BystandersKeep
<1>3. ASSUME NEW broken \in Broken, DrainLoads(broken) PROVE JobInv'
    BY <1>3, <1>0, FillHarmless, BystandersKeep DEF DrainLoads, Models
<1>4. CASE DrainRuns
    BY <1>4, <1>0, MissesKeep DEF DrainRuns
<1> QED
    BY <1>1, <1>2, <1>3, <1>4 DEF Drain, Broken

LEMMA JobInvIsInductive ==
    ASSUME JobInv, [Next]_vars
    PROVE  JobInv'
<1>1. CASE Next
    BY <1>1, UploadSteps, SessionSteps, RequestSteps, IdleSteps, RepairSteps
    DEF Next, Broken
<1>2. CASE UNCHANGED vars
  <2>1. st' = st /\ UNCHANGED <<upload, starved>> /\ PhaseInv
      BY <1>2 DEF vars, JobInv
  <2> QED
      BY <2>1, SameIsHarmless, BystandersKeep
<1> QED
    BY <1>1, <1>2

(* Whatever uploads, sessions, requests and repair passes do in between,    *)
(* the recogniser and the voice model are in memory together only if a live *)
(* session, the transcription tool or the repair pass put one of them there *)
(* (core/model_state.py: ensure_*_ready, unload_embedding).                 *)
THEOREM PhasesAlwaysTakeTurns ==
    Spec => []PhasesTakeTurns
<1>1. JobInv => PhasesTakeTurns
    BY DEF JobInv, PhaseInv, Shared, PhasesTakeTurns, Guests
<1> QED
    BY <1>1, InitJobInv, JobInvIsInductive, PTL DEF Spec

(* An upload that finds a model gone, in any phase, lost it to a request, a *)
(* repair pass or a load that raised: never to the idle monitor, which asks *)
(* the registry first (server.py), nor to a live session.                   *)
THEOREM MonitorAlwaysSparesJobs ==
    Spec => []MonitorSparesJobs
<1>1. JobInv => MonitorSparesJobs
    BY DEF JobInv
<1> QED
    BY <1>1, InitJobInv, JobInvIsInductive, PTL DEF Spec

----------------------------------------------------------------------------
(* Speech recognition, for any number of threads and any sizes of a piece   *)

Amounts == {"all", "some", "none"}
Piece == [from : 0..Total, to : 0..Total, words : Amounts]
Labels == {"begin", "check", "next", "decode", "encode", "drop", "create", "retry", "cpu",
           "parse", "generate", "run", "fallback", "end"}
Sizes == {n \in Nat : n >= MinChunk}

(* The types, but for the history `told`, which nothing here depends on *)
DecodeTypeOK ==
    /\ kind \in Kinds /\ loaded \in BOOLEAN /\ device \in {"cuda", "cpu"} /\ encoder \in BOOLEAN
    /\ chunkSec \in Sizes /\ unloads \in Nat
    /\ pc \in [Decoders -> Labels] /\ pos \in [Decoders -> 0..Total]
    /\ chunk \in [Decoders -> Sizes] /\ aim \in [Decoders -> 0..Total]
    /\ on \in [Decoders -> {"cuda", "cpu"}]
    /\ parts \in [Decoders -> Seq(Piece)]
    /\ result \in [Decoders -> {"none", "text", "error"}]

(* What a thread has cover its audio up to where it is ... *)
PiecesAbut(d) == Abut(parts[d], pos[d])

(* ... the piece in work lies ahead, wherever in its decoding, its retry or *)
(* its fallback the thread is ...                                           *)
LooksAhead(d) ==
    pc[d] \in {"decode", "encode", "drop", "create", "retry", "cpu", "parse", "generate"} =>
      pos[d] < aim[d]

(* ... and what ends without an error has gone through all of it.           *)
EndsAtTheEnd(d) ==
    /\ pc[d] = "end" => result[d] \in {"text", "error"}
    /\ pc[d] = "end" /\ result[d] = "text" => pos[d] = Total

(* Only Cohere has pieces whose words stop early.                           *)
Unbroken(ps) == \A i \in 1..Len(ps) : ps[i].words # "some"

HasTheWords(d) == kind # "cohere" => Unbroken(parts[d])

InPlace(d) == PiecesAbut(d) /\ LooksAhead(d) /\ EndsAtTheEnd(d) /\ HasTheWords(d)

DecodeInv == DecodeTypeOK /\ \A d \in Decoders : InPlace(d)

(* A piece that begins where the others end goes on from there. *)
LEMMA AppendAbuts ==
    ASSUME NEW ps \in Seq(Piece), NEW from \in 0..Total, NEW to \in 0..Total, NEW words \in Amounts,
           Abut(ps, from), from < to
    PROVE  /\ Append(ps, Part(from, to, words)) \in Seq(Piece)
           /\ Abut(Append(ps, Part(from, to, words)), to)
           /\ Unbroken(ps) /\ words # "some" => Unbroken(Append(ps, Part(from, to, words)))
<1> DEFINE p == Part(from, to, words)
           qs == Append(ps, p)
<1>1. p \in Piece /\ p.from = from /\ p.to = to /\ p.words = words
    BY DEF Piece, Part
<1>2. qs \in Seq(Piece) /\ Len(qs) = Len(ps) + 1 /\ qs[Len(qs)] = p
      /\ \A i \in 1..Len(ps) : qs[i] = ps[i]
    BY <1>1
<1>3. ps = <<>> <=> Len(ps) = 0
    OBVIOUS
<1>4. ASSUME NEW i \in 1..Len(qs)
      PROVE  qs[i].from = (IF i = 1 THEN 0 ELSE qs[i - 1].to) /\ qs[i].from < qs[i].to
  <2>1. CASE i \in 1..Len(ps)
      BY <2>1, <1>2 DEF Abut
  <2>2. CASE i = Len(ps) + 1 /\ Len(ps) = 0
      BY <2>2, <1>1, <1>2, <1>3 DEF Abut
  <2>3. CASE i = Len(ps) + 1 /\ Len(ps) # 0
    <3>1. qs[i] = p /\ qs[i - 1] = ps[Len(ps)] /\ i # 1
        BY <2>3, <1>2
    <3>2. from = ps[Len(ps)].to
        BY <2>3, <1>3 DEF Abut
    <3> QED
        BY <3>1, <3>2, <1>1
  <2> QED
      BY <2>1, <2>2, <2>3, <1>2
<1>5. to = IF qs = <<>> THEN 0 ELSE qs[Len(qs)].to
    BY <1>1, <1>2
<1> HIDE DEF qs
<1>6. qs \in Seq(Piece) /\ Abut(qs, to)
    BY <1>2, <1>4, <1>5 DEF Abut
<1>7. Unbroken(ps) /\ words # "some" => Unbroken(qs)
    BY <1>1, <1>2 DEF Unbroken
<1> QED
    BY <1>6, <1>7 DEF qs

(* Qwen3 cuts ahead of where it is, also when the quiet frame that it found *)
(* is behind (_snap_cut).                                                   *)
LEMMA ChunksEndAhead ==
    ASSUME NEW from \in 0..Total, from < Total, NEW size \in Sizes, NEW e \in ChunkEnds(from, size)
    PROVE  e \in 0..Total /\ from < e
<1>1. size \in Nat /\ size > 0 /\ Total \in Nat
    BY DecodeAssumption DEF Sizes
<1>2. CASE Total - from <= size
    BY <1>1, <1>2 DEF ChunkEnds
<1>3. CASE Total - from > size
  <2>1. PICK n \in from..Total : e = IF n <= from THEN from + size ELSE n
      BY <1>1, <1>3 DEF ChunkEnds
  <2> QED
      BY <2>1, <1>1, <1>3
<1> QED
    BY <1>1, <1>2, <1>3

(* So does Cohere (_plan_window_bounds). *)
LEMMA WindowsEndAhead ==
    ASSUME NEW from \in 0..Total, from < Total, NEW e \in WindowEnds(from)
    PROVE  e \in 0..Total /\ from < e
<1>1. Window \in Nat /\ Window > 0 /\ Total \in Nat /\ MinTail \in Nat /\ Snap \in Nat
    BY DecodeAssumption
<1> DEFINE target == from + Window
           lowest == IF from + Window \div 2 > target - Snap THEN from + Window \div 2 ELSE target - Snap
           last == Total - from <= Window \/ Total - target < MinTail
<1>2. CASE last
    BY <1>1, <1>2 DEF WindowEnds
<1>3. CASE ~last
  <2>1. lowest \in Int /\ target \in Nat /\ target < Total
      BY <1>1, <1>3
  <2>2. PICK c \in lowest..target - 1 : e = IF c <= from THEN target ELSE c
      BY <1>3 DEF WindowEnds
  <2> QED
      BY <2>1, <2>2, <1>1
<1> QED
    BY <1>2, <1>3

LEMMA HalvedIsASize ==
    ASSUME NEW n \in Sizes
    PROVE  Halved(n) \in Sizes
BY DecodeAssumption DEF Sizes, Halved

LEMMA InitDecodeInv ==
    DecodeInit => DecodeInv
<1>1. {Total, MaxChunk, MinChunk} \subseteq Nat /\ MinChunk <= MaxChunk
    BY DecodeAssumption
<1>2. SUFFICES ASSUME DecodeInit PROVE DecodeInv
    OBVIOUS
<1>3. MaxChunk \in Sizes /\ 0 \in 0..Total /\ <<>> \in Seq(Piece)
    BY <1>1 DEF Sizes
<1>4. DecodeTypeOK
  <2>1. /\ pos \in [Decoders -> 0..Total] /\ aim \in [Decoders -> 0..Total]
        /\ chunk \in [Decoders -> Sizes] /\ parts \in [Decoders -> Seq(Piece)]
      BY <1>2, <1>3 DEF DecodeInit
  <2>2. /\ pc \in [Decoders -> Labels] /\ on \in [Decoders -> {"cuda", "cpu"}]
        /\ result \in [Decoders -> {"none", "text", "error"}]
      BY <1>2 DEF DecodeInit, Labels
  <2> QED
      BY <1>2, <1>3, <2>1, <2>2 DEF DecodeInit, DecodeTypeOK
<1>5. \A d \in Decoders : InPlace(d)
    BY <1>1, <1>2
    DEF DecodeInit, InPlace, PiecesAbut, LooksAhead, EndsAtTheEnd, HasTheWords, Abut, Unbroken
<1> QED
    BY <1>4, <1>5 DEF DecodeInv

(* What one thread does to the model, the others only meet later: their     *)
(* places, pieces and results are their own.                                *)
OthersWait(d) ==
    kind' = kind /\
    \A o \in Decoders \ {d} : /\ pc'[o] = pc[o] /\ pos'[o] = pos[o] /\ aim'[o] = aim[o]
                              /\ parts'[o] = parts[o] /\ result'[o] = result[o]

LEMMA OthersStay ==
    ASSUME DecodeInv, NEW d \in Decoders, DecodeTypeOK', InPlace(d)', OthersWait(d)
    PROVE  DecodeInv'
<1>1. ASSUME NEW o \in Decoders \ {d} PROVE InPlace(o)'
    BY <1>1 DEF DecodeInv, OthersWait, InPlace, PiecesAbut, LooksAhead, EndsAtTheEnd, HasTheWords
<1> QED
    BY <1>1 DEF DecodeInv

LEMMA EntrySteps ==
    ASSUME DecodeInv, NEW d \in Decoders, Begin(d) \/ Check(d)
    PROVE  DecodeInv'
<1> USE DEF DecodeInv, Goto, Finish, backendVars
<1>1. CASE Begin(d)
  <2>1. loaded' \in BOOLEAN /\ encoder' \in BOOLEAN /\ device' \in {"cuda", "cpu"}
      BY <1>1 DEF Begin, DecodeTypeOK, QwenLoads, CohereLoads, WhisperLoads
  <2>2. DecodeTypeOK'
      BY <1>1, <2>1 DEF Begin, DecodeTypeOK, Labels
  <2>3. InPlace(d)'
      BY <1>1 DEF Begin, DecodeTypeOK, InPlace, PiecesAbut, LooksAhead, EndsAtTheEnd, HasTheWords
  <2>9. OthersWait(d)
      BY <1>1, <2>2, <2>3 DEF OthersWait, Begin, DecodeTypeOK
  <2> QED
      BY <2>2, <2>3, <2>9, OthersStay
<1>2. CASE Check(d)
  <2>2. DecodeTypeOK'
      BY <1>2 DEF Check, DecodeTypeOK, Labels
  <2>3. InPlace(d)'
      BY <1>2 DEF Check, DecodeTypeOK, InPlace, PiecesAbut, LooksAhead, EndsAtTheEnd, HasTheWords
  <2>9. OthersWait(d)
      BY <1>2, <2>2, <2>3 DEF OthersWait, Check, DecodeTypeOK
  <2> QED
      BY <2>2, <2>3, <2>9, OthersStay
<1> QED
    BY <1>1, <1>2

(* Steps that keep a piece, decoded or failed, and go on behind it. *)
LEMMA KeepingSteps ==
    ASSUME DecodeInv, NEW d \in Decoders, NEW words \in Amounts, pos[d] < aim[d],
           words = "some" => kind = "cohere", Keep(d, words), Goto(d, "next"),
           UNCHANGED <<backendVars, chunk, aim, on, result>>
    PROVE  DecodeInv'
<1>1. parts[d] \in Seq(Piece) /\ pos[d] \in 0..Total /\ aim[d] \in 0..Total
      /\ Abut(parts[d], pos[d]) /\ (kind # "cohere" => Unbroken(parts[d]))
    BY DEF DecodeInv, DecodeTypeOK, InPlace, PiecesAbut, HasTheWords
<1> DEFINE more == Append(parts[d], Part(pos[d], aim[d], words))
<1>2. more \in Seq(Piece) /\ Abut(more, aim[d]) /\ (kind # "cohere" => Unbroken(more))
    BY <1>1, AppendAbuts
<1>3. parts' = [parts EXCEPT ![d] = more] /\ pos' = [pos EXCEPT ![d] = aim[d]]
      /\ pc' = [pc EXCEPT ![d] = "next"]
    BY DEF Keep, Goto, DecodeInv, DecodeTypeOK
<1> HIDE DEF more
<1>4. DecodeTypeOK'
    BY <1>1, <1>2, <1>3 DEF DecodeInv, DecodeTypeOK, Labels, backendVars
<1>5. InPlace(d)'
    BY <1>1, <1>2, <1>3 DEF backendVars, DecodeInv, DecodeTypeOK, InPlace, PiecesAbut, LooksAhead, EndsAtTheEnd,
        HasTheWords
<1>9. OthersWait(d)
    BY <1>3, <1>4, <1>5 DEF OthersWait, backendVars, DecodeInv, DecodeTypeOK
<1> QED
    BY <1>3, <1>4, <1>5, <1>9, OthersStay

LEMMA QwenSteps ==
    ASSUME DecodeInv, NEW d \in Decoders, Qwen(d)
    PROVE  DecodeInv'
<1> USE DEF Goto, backendVars
<1>0. DecodeTypeOK /\ InPlace(d) /\ Total \in Nat
    BY DecodeAssumption DEF DecodeInv
<1>1. CASE QwenChunk(d)
  <2>1. PICK e \in ChunkEnds(pos[d], chunk[d]) : aim' = [aim EXCEPT ![d] = e]
      BY <1>1 DEF QwenChunk
  <2>2. e \in 0..Total /\ pos[d] < e
      BY <1>0, <1>1, ChunksEndAhead DEF QwenChunk, DecodeTypeOK
  <2>3. DecodeTypeOK'
      BY <1>0, <1>1, <2>1, <2>2 DEF QwenChunk, DecodeTypeOK, Labels
  <2>4. InPlace(d)'
      BY <1>0, <1>1, <2>1, <2>2
      DEF QwenChunk, DecodeTypeOK, InPlace, PiecesAbut, LooksAhead, EndsAtTheEnd, HasTheWords
  <2>9. OthersWait(d)
      BY <1>0, <1>1, <2>1, <2>3, <2>4 DEF OthersWait, QwenChunk, DecodeTypeOK
  <2> QED
      BY <2>1, <2>3, <2>4, <2>9, OthersStay
<1>2. CASE QwenOutOfMemory(d)
  <2>1. Halved(chunk[d]) \in Sizes
      BY <1>0, HalvedIsASize DEF DecodeTypeOK
  <2>2. DecodeTypeOK'
      BY <1>0, <1>2, <2>1 DEF QwenOutOfMemory, DecodeTypeOK, Labels
  <2>3. InPlace(d)'
      BY <1>0, <1>2
      DEF QwenOutOfMemory, DecodeTypeOK, InPlace, PiecesAbut, LooksAhead, EndsAtTheEnd, HasTheWords
  <2>9. OthersWait(d)
      BY <1>0, <1>2, <2>2, <2>3 DEF OthersWait, QwenOutOfMemory, DecodeTypeOK
  <2> QED
      BY <2>2, <2>3, <2>9, OthersStay
<1>3. CASE QwenDecode(d)
  <2>1. pos[d] < aim[d]
      BY <1>0, <1>3 DEF QwenDecode, InPlace, LooksAhead
  <2>2. \E words \in {"all", "none"} : Keep(d, words)
      BY <1>3 DEF QwenDecode
  <2> QED
      BY <1>3, <2>1, <2>2, KeepingSteps DEF QwenDecode, Amounts
<1> QED
    BY <1>1, <1>2, <1>3 DEF Qwen

LEMMA CohereSteps ==
    ASSUME DecodeInv, NEW d \in Decoders, Cohere(d)
    PROVE  DecodeInv'
<1> USE DEF Goto, Finish, backendVars
<1>0. DecodeTypeOK /\ InPlace(d) /\ Total \in Nat
    BY DecodeAssumption DEF DecodeInv
<1>1. CASE CohereWindow(d)
  <2>1. PICK e \in WindowEnds(pos[d]) : aim' = [aim EXCEPT ![d] = e]
      BY <1>1 DEF CohereWindow
  <2>2. e \in 0..Total /\ pos[d] < e
      BY <1>0, <1>1, WindowsEndAhead DEF CohereWindow, DecodeTypeOK
  <2>3. DecodeTypeOK'
      BY <1>0, <1>1, <2>1, <2>2 DEF CohereWindow, DecodeTypeOK, Labels
  <2>4. InPlace(d)'
      BY <1>0, <1>1, <2>1, <2>2
      DEF CohereWindow, DecodeTypeOK, InPlace, PiecesAbut, LooksAhead, EndsAtTheEnd, HasTheWords
  <2>9. OthersWait(d)
      BY <1>0, <1>1, <2>1, <2>3, <2>4 DEF OthersWait, CohereWindow, DecodeTypeOK
  <2> QED
      BY <2>1, <2>3, <2>4, <2>9, OthersStay
<1>2. CASE CohereFails(d)
  <2>1. pos[d] < aim[d]
      BY <1>0, <1>2 DEF CohereFails, InPlace, LooksAhead
  <2> QED
      BY <1>2, <2>1, KeepingSteps DEF CohereFails, Amounts
<1>3. CASE CohereEncode(d)
  <2>1. DecodeTypeOK' /\ InPlace(d)'
      BY <1>0, <1>3
      DEF CohereEncode, DecodeTypeOK, Labels, InPlace, PiecesAbut, LooksAhead, EndsAtTheEnd,
          HasTheWords
  <2>9. OthersWait(d)
      BY <1>0, <1>3, <2>1 DEF OthersWait, CohereEncode, DecodeTypeOK
  <2> QED
      BY <2>1, <2>9, OthersStay
<1>4. CASE CohereDrop(d)
  <2>1. DecodeTypeOK' /\ InPlace(d)'
      BY <1>0, <1>4
      DEF CohereDrop, DecodeTypeOK, Labels, InPlace, PiecesAbut, LooksAhead, EndsAtTheEnd,
          HasTheWords
  <2>9. OthersWait(d)
      BY <1>0, <1>4, <2>1 DEF OthersWait, CohereDrop, DecodeTypeOK
  <2> QED
      BY <2>1, <2>9, OthersStay
<1>5. CASE CohereCreate(d)
  <2>1. DecodeTypeOK' /\ InPlace(d)'
      BY <1>0, <1>5
      DEF CohereCreate, DecodeTypeOK, Labels, InPlace, PiecesAbut, LooksAhead, EndsAtTheEnd,
          HasTheWords
  <2>9. OthersWait(d)
      BY <1>0, <1>5, <2>1 DEF OthersWait, CohereCreate, DecodeTypeOK
  <2> QED
      BY <2>1, <2>9, OthersStay
<1>6. CASE CohereOnCpu(d)
  <2>1. DecodeTypeOK' /\ InPlace(d)'
      BY <1>0, <1>6
      DEF CohereOnCpu, DecodeTypeOK, Labels, InPlace, PiecesAbut, LooksAhead, EndsAtTheEnd,
          HasTheWords
  <2>9. OthersWait(d)
      BY <1>0, <1>6, <2>1 DEF OthersWait, CohereOnCpu, DecodeTypeOK
  <2> QED
      BY <2>1, <2>9, OthersStay
<1>7. CASE CohereParse(d)
  <2>1. DecodeTypeOK' /\ InPlace(d)'
      BY <1>0, <1>7
      DEF CohereParse, DecodeTypeOK, Labels, InPlace, PiecesAbut, LooksAhead, EndsAtTheEnd,
          HasTheWords
  <2>9. OthersWait(d)
      BY <1>0, <1>7, <2>1 DEF OthersWait, CohereParse, DecodeTypeOK
  <2> QED
      BY <2>1, <2>9, OthersStay
<1>8. CASE CohereGenerate(d)
  <2>1. pos[d] < aim[d] /\ kind = "cohere"
      BY <1>0, <1>8 DEF CohereGenerate, InPlace, LooksAhead
  <2>2. \E words \in Amounts : Keep(d, words)
      BY <1>8 DEF CohereGenerate, Amounts
  <2> QED
      BY <1>8, <2>1, <2>2, KeepingSteps DEF CohereGenerate
<1>9. CASE CohereMissesDecoder(d)
  <2>1. DecodeTypeOK' /\ InPlace(d)'
      BY <1>0, <1>9
      DEF CohereMissesDecoder, DecodeTypeOK, Labels, InPlace, PiecesAbut, LooksAhead, EndsAtTheEnd,
          HasTheWords
  <2>9. OthersWait(d)
      BY <1>0, <1>9, <2>1 DEF OthersWait, CohereMissesDecoder, DecodeTypeOK
  <2> QED
      BY <2>1, <2>9, OthersStay
<1> QED
    BY <1>1, <1>2, <1>3, <1>4, <1>5, <1>6, <1>7, <1>8, <1>9 DEF Cohere

(* Whisper's segment or failure moves to `e`; the fallback goes back to the *)
(* start with nothing in hand.                                              *)
LEMMA WhisperSteps ==
    ASSUME DecodeInv, NEW d \in Decoders, Whisper(d)
    PROVE  DecodeInv'
<1> USE DEF Goto, Finish, backendVars
<1>0. DecodeTypeOK /\ InPlace(d) /\ Total \in Nat
    BY DecodeAssumption DEF DecodeInv
<1>1. ASSUME NEW e \in 0..Total, NEW words \in {"all", "none"}, pos[d] < e,
             aim' = [aim EXCEPT ![d] = e],
             parts' = [parts EXCEPT ![d] = Append(@, Part(pos[d], e, words))],
             pos' = [pos EXCEPT ![d] = e], pc[d] = "next",
             UNCHANGED <<backendVars, pc, chunk, on, result>>
      PROVE  DecodeInv'
  <2>1. parts[d] \in Seq(Piece) /\ pos[d] \in 0..Total /\ Abut(parts[d], pos[d])
        /\ (kind # "cohere" => Unbroken(parts[d]))
      BY <1>0 DEF DecodeTypeOK, InPlace, PiecesAbut, HasTheWords
  <2> DEFINE more == Append(parts[d], Part(pos[d], e, words))
  <2>2. more \in Seq(Piece) /\ Abut(more, e) /\ (kind # "cohere" => Unbroken(more))
      BY <1>1, <2>1, AppendAbuts DEF Amounts
  <2>3. parts' = [parts EXCEPT ![d] = more]
      BY <1>0, <1>1 DEF DecodeTypeOK
  <2> HIDE DEF more
  <2>4. DecodeTypeOK'
      BY <1>0, <1>1, <2>2, <2>3 DEF DecodeTypeOK
  <2>5. InPlace(d)'
      BY <1>0, <1>1, <2>2, <2>3 DEF DecodeTypeOK, InPlace, PiecesAbut, LooksAhead, EndsAtTheEnd,
          HasTheWords
  <2>9. OthersWait(d)
      BY <1>0, <1>1, <2>3, <2>4, <2>5 DEF OthersWait, DecodeTypeOK
  <2> QED
      BY <2>3, <2>4, <2>5, <2>9, OthersStay
<1>2. CASE WhisperRun(d)
  <2>1. DecodeTypeOK' /\ InPlace(d)'
      BY <1>0, <1>2
      DEF WhisperRun, DecodeTypeOK, Labels, InPlace, PiecesAbut, LooksAhead, EndsAtTheEnd,
          HasTheWords
  <2>9. OthersWait(d)
      BY <1>0, <1>2, <2>1 DEF OthersWait, WhisperRun, DecodeTypeOK
  <2> QED
      BY <2>1, <2>9, OthersStay
<1>3. CASE WhisperSegment(d)
  <2>1. PICK e \in pos[d] + 1..Total :
            aim' = [aim EXCEPT ![d] = e]
            /\ parts' = [parts EXCEPT ![d] = Append(@, Part(pos[d], e, "all"))]
            /\ pos' = [pos EXCEPT ![d] = e]
      BY <1>3 DEF WhisperSegment
  <2>2. e \in 0..Total /\ pos[d] < e
      BY <1>0 DEF DecodeTypeOK
  <2> QED
      BY <1>1, <1>3, <2>1, <2>2 DEF WhisperSegment
<1>4. CASE WhisperFails(d)
  <2>1. Total \in 0..Total /\ pos[d] < Total
      BY <1>0, <1>4 DEF WhisperFails
  <2>2. /\ aim' = [aim EXCEPT ![d] = Total]
        /\ parts' = [parts EXCEPT ![d] = Append(@, Part(pos[d], Total, "none"))]
        /\ pos' = [pos EXCEPT ![d] = Total] /\ pc[d] = "next"
        /\ UNCHANGED <<backendVars, pc, chunk, on, result>>
      BY <1>4 DEF WhisperFails
  <2> HIDE DEF backendVars
  <2> QED
      BY <1>1, <2>1, <2>2
<1>5. CASE WhisperOutOfMemory(d)
  <2>1. DecodeTypeOK' /\ InPlace(d)'
      BY <1>0, <1>5
      DEF WhisperOutOfMemory, DecodeTypeOK, Labels, InPlace, PiecesAbut, LooksAhead, EndsAtTheEnd,
          HasTheWords
  <2>9. OthersWait(d)
      BY <1>0, <1>5, <2>1 DEF OthersWait, WhisperOutOfMemory, DecodeTypeOK
  <2> QED
      BY <2>1, <2>9, OthersStay
<1>6. CASE WhisperOnCpu(d)
  <2>1. Abut(<<>>, 0) /\ Unbroken(<<>>) /\ <<>> \in Seq(Piece)
      BY DEF Abut, Unbroken
  <2>2. DecodeTypeOK'
    <3>1. loaded' \in BOOLEAN /\ device' \in {"cuda", "cpu"} /\ pc' \in [Decoders -> Labels]
          /\ result' \in [Decoders -> {"none", "text", "error"}]
        BY <1>0, <1>6 DEF WhisperOnCpu, DecodeTypeOK, Labels
    <3>2. /\ pos' \in [Decoders -> 0..Total]
          /\ parts' \in [Decoders -> Seq(Piece)]
      <4>1. 0 \in 0..Total /\ pos \in [Decoders -> 0..Total] /\ parts \in [Decoders -> Seq(Piece)]
          BY <1>0 DEF DecodeTypeOK
      <4>2. \/ pos' = [pos EXCEPT ![d] = 0] /\ parts' = [parts EXCEPT ![d] = <<>>]
            \/ pos' = pos /\ parts' = parts
          BY <1>6 DEF WhisperOnCpu
      <4> QED
          BY <2>1, <4>1, <4>2
    <3>3. UNCHANGED <<kind, encoder, chunkSec, unloads, chunk, aim, on>>
        BY <1>6 DEF WhisperOnCpu
    <3> QED
        BY <1>0, <3>1, <3>2, <3>3 DEF DecodeTypeOK
  <2>3. InPlace(d)'
      BY <1>0, <1>6, <2>1
      DEF WhisperOnCpu, DecodeTypeOK, InPlace, PiecesAbut, LooksAhead, EndsAtTheEnd, HasTheWords
  <2>9. OthersWait(d)
      BY <1>0, <1>6, <2>2, <2>3 DEF OthersWait, WhisperOnCpu, DecodeTypeOK
  <2> QED
      BY <2>2, <2>3, <2>9, OthersStay
<1> QED
    BY <1>2, <1>3, <1>4, <1>5, <1>6 DEF Whisper

LEMMA ReturnSteps ==
    ASSUME DecodeInv, NEW d \in Decoders, Return(d)
    PROVE  DecodeInv'
<1>1. DecodeTypeOK' /\ InPlace(d)'
    BY DEF DecodeInv, Return, Goto, Finish, backendVars, DecodeTypeOK, Labels, InPlace,
           PiecesAbut, LooksAhead, EndsAtTheEnd, HasTheWords
<1>9. OthersWait(d)
    BY <1>1 DEF OthersWait, backendVars, DecodeInv, Return, Goto, Finish, DecodeTypeOK
<1> QED
    BY <1>1, <1>9, OthersStay

LEMMA DecodeInvIsInductive ==
    ASSUME DecodeInv, [DecodeNext]_decodeVars
    PROVE  DecodeInv'
<1>1. CASE Unload
  <2>1. DecodeTypeOK'
    <3>1. DecodeTypeOK
        BY DEF DecodeInv
    <3>2. kind' = kind /\ device' = device /\ chunkSec' = chunkSec /\ UNCHANGED threadVars
        BY <1>1 DEF Unload
    <3>3. loaded' = FALSE /\ encoder' = FALSE /\ unloads' = unloads + 1
        BY <1>1 DEF Unload
    <3>4. loaded' \in BOOLEAN /\ encoder' \in BOOLEAN
        BY <3>3
    <3>5. unloads' \in Nat
        BY <3>1, <3>3 DEF DecodeTypeOK
    <3>6. UNCHANGED <<kind, device, chunkSec, pc, pos, chunk, aim, on, parts, result>>
        BY <3>2 DEF threadVars
    <3> QED
        BY <3>1, <3>4, <3>5, <3>6 DEF DecodeTypeOK
  <2>2. \A d \in Decoders : InPlace(d)'
      BY <1>1 DEF DecodeInv, Unload, threadVars, InPlace, PiecesAbut, LooksAhead, EndsAtTheEnd,
          HasTheWords
  <2> QED
      BY <2>1, <2>2 DEF DecodeInv
<1>2. ASSUME NEW d \in Decoders, Thread(d) PROVE DecodeInv'
    BY <1>2, EntrySteps, QwenSteps, CohereSteps, WhisperSteps, ReturnSteps DEF Thread
<1>3. CASE UNCHANGED decodeVars
    BY <1>3 DEF DecodeInv, decodeVars, backendVars, threadVars, DecodeTypeOK, InPlace,
                PiecesAbut, LooksAhead, EndsAtTheEnd, HasTheWords
<1> QED
    BY <1>1, <1>2, <1>3 DEF DecodeNext

(* However often memory runs out, pieces shrink, decodes start over and the *)
(* model is taken away, and whichever of any number of threads sees it, the *)
(* pieces in a thread's hands follow one another without gap or overlap, up *)
(* to where it is (_transcribe_chunked, _transcribe_windowed, _run).        *)
THEOREM DecodeInvariant ==
    DecodeSpec => []DecodeInv
BY InitDecodeInv, DecodeInvIsInductive, PTL DEF DecodeSpec

(* A call that returns a text has put every moment of the audio to the      *)
(* decoder, or named it as failed, exactly once; and with Qwen3 and Whisper *)
(* it has all the words of what it does not name.  Cohere's decoder may     *)
(* stop early in a piece and nobody is told (transcribe_audio_sync): that   *)
(* its words are complete is not said here and is not so.  Of               *)
(* AudioIsAccountedFor, this is all but that the call returns.              *)
THEOREM NothingIsEverSkipped ==
    DecodeSpec => []NothingIsSkipped
<1>1. DecodeInv => NothingIsSkipped
    BY DEF DecodeInv, InPlace, PiecesAbut, EndsAtTheEnd, HasTheWords, Unbroken,
           NothingIsSkipped, Pieces
<1> QED
    BY <1>1, DecodeInvariant, PTL
=============================================================================

----------------------------- MODULE UploadJobs -----------------------------
(***************************************************************************)
(* The routes and background tasks that use the job registry: the two      *)
(* upload routes and the two voiceprint passes, with their producers, the  *)
(* cancel route, and the two kinds of long-lived SSE connection.           *)
(*                                                                         *)
(* One action is the code a task runs between two awaits.  A producer      *)
(* suspends in every _sse_put (sleep 0.01) and while a pool thread works   *)
(* for it; the other producers, the routes and the connections run then.   *)
(***************************************************************************)
EXTENDS JobRegistry, FiniteSets

CONSTANTS
    Users,
    Owner,         \* [Jobs -> Users], the caller of the request
    Mode,          \* [Jobs -> Modes], the route it calls
    Spooled,       \* uploads too large for memory: file.read() awaits a thread
    Save,          \* uploads without ?save=false
    FollowerUser,  \* [Followers -> Users]
    WatcherUser,   \* [Watchers -> Users]
    Ticks,         \* bound: progress events of one diarization or pass
    Windows        \* bound: decode windows of one transcription

Uploads == {"transcribe", "diarize"}
(* "library" is POST /rescan/stream too; "speaker" is a consolidation with *)
(* ?speaker_name=.                                                         *)
Passes  == {"library", "speaker"}
Modes   == Uploads \cup Passes

ASSUME UploadAssumption ==
    /\ Owner \in [Jobs -> Users]
    /\ Mode \in [Jobs -> Modes]
    /\ Spooled \subseteq Jobs
    /\ Save \subseteq Jobs
    /\ FollowerUser \in [Followers -> Users]
    /\ WatcherUser \in [Watchers -> Users]
    /\ Ticks \in Nat
    /\ Windows \in Nat

VARIABLES
    pc,        \* where a request and its producer stand
    ticks,     \* progress events or windows so far in the current phase
    thread,    \* the pool thread that works for the producer
    scheduled, \* callbacks it handed to the loop (call_soon_threadsafe)
    segmented, \* diarization found segments
    response,  \* everything put on the request's own SSE queue
    gone,      \* client_disconnected
    saved,     \* _persist_transcript ran
    watcher,   \* an activity connection: its generator's state
    shown      \* the last frame it sent

producerVars == <<pc, ticks, thread, scheduled, segmented, response, saved>>
watcherVars == <<watcher, shown>>
vars == <<registryVars, producerVars, gone, watcherVars>>

AtWork == {"starting", "diarizing", "handoff", "loaded", "whole", "decoding",
           "working"}
Resting == {"idle", "refused", "finished"}

Evt(j, stage, phase) == [by |-> j, stage |-> stage, phase |-> phase]
NoFrame == [active |-> FALSE, job |-> NoJob]

Goto(j, where) == pc' = [pc EXCEPT ![j] = where]

(* _sse_put up to its sleep, and _emit_window *)
Say(j, e) ==
    /\ response' = [response EXCEPT ![j] = Append(@, e)]
    /\ Publish(e)

(* Say the verdict; the producer then sleeps and runs its finally-block. *)
Conclude(j, verdict) ==
    /\ Say(j, Evt(j, verdict, "none"))
    /\ Goto(j, "closing")

----------------------------------------------------------------------------
(* The routes, up to start_job *)

Busy == active # NoJob
OwnBusy(u) == active # NoJob /\ Owner[active] = u     \* get_for_user

(* 409, or a body that is too large, unreadable or cannot be converted, or *)
(* models or a service that cannot be loaded                               *)
Refuse(j) ==
    /\ pc[j] \in {"idle", "reading"}
    /\ Goto(j, "refused")
    /\ UNCHANGED <<registryVars, ticks, thread, scheduled, segmented, response,
                   saved, gone, watcherVars>>

(* get_running() is None, then `await file.read()` of a spooled body *)
BeginRead(j) ==
    /\ pc[j] = "idle"
    /\ Mode[j] \in Uploads
    /\ j \in Spooled
    /\ ~Busy
    /\ Goto(j, "reading")
    /\ UNCHANGED <<registryVars, ticks, thread, scheduled, segmented, response,
                   saved, gone, watcherVars>>

(* Mutant of Start: the routes do not ask whether a job is running. *)
StartUnchecked(j) ==
    /\ pc[j] = "idle"
    /\ StartJob(j)
    /\ Goto(j, IF Mode[j] = "diarize" THEN "diarizing" ELSE "starting")
    /\ UNCHANGED <<ticks, thread, scheduled, segmented, response, saved, gone,
                   watcherVars>>

(* start_job, with no second look at the registry after the read *)
Start(j) ==
    /\ \/ pc[j] = "reading"
       \/ pc[j] = "idle" /\ Mode[j] \in Uploads /\ j \notin Spooled /\ ~Busy
       \/ pc[j] = "idle" /\ Mode[j] \in Passes /\ ~OwnBusy(Owner[j])
    /\ StartJob(j)
    /\ Goto(j, IF Mode[j] = "diarize" THEN "diarizing" ELSE "starting")
    /\ UNCHANGED <<ticks, thread, scheduled, segmented, response, saved, gone,
                   watcherVars>>

(* Mutant of Cancel: the flag of a job that is not active is set. *)
CancelAny(j) ==
    /\ Running(j)
    /\ ~cancelRequested[j]
    /\ cancelRequested' = [cancelRequested EXCEPT ![j] = TRUE]
    /\ UNCHANGED <<active, status, events, subscribers, watching, stream,
                   activitySubs, feed, producerVars, gone, watcherVars>>

(* POST /active/cancel, by the owner of the active job *)
Cancel(j) ==
    /\ Running(j)
    /\ Mode[j] = "transcribe"
    /\ ~cancelRequested[j]
    /\ RequestCancel(j)
    /\ UNCHANGED <<producerVars, gone, watcherVars>>

(* The uploading client hangs up; only run_transcribe looks at the flag. *)
ClientLeaves(j) ==
    /\ pc[j] \in AtWork \cup {"closing"}
    /\ Mode[j] = "transcribe"
    /\ ~gone[j]
    /\ gone' = [gone EXCEPT ![j] = TRUE]
    /\ UNCHANGED <<registryVars, producerVars, watcherVars>>

----------------------------------------------------------------------------
(* run_transcribe and run_diarize *)

(* The first event of a transcription *)
BeginTranscribe(j) ==
    /\ pc[j] = "starting"
    /\ Mode[j] = "transcribe"
    /\ Say(j, Evt(j, "progress", "diarization"))
    /\ Goto(j, "diarizing")
    /\ UNCHANGED <<ticks, thread, scheduled, segmented, saved, gone, watcherVars>>

(* progress_cb; only the one of a transcription looks at the cancel flag *)
DiarizerReports(j) ==
    /\ pc[j] = "diarizing"
    /\ ticks[j] < Ticks
    /\ IF Mode[j] = "transcribe" /\ cancelRequested[j]
       THEN Conclude(j, "cancelled") /\ UNCHANGED ticks
       ELSE /\ Say(j, Evt(j, "progress", "diarization"))
            /\ ticks' = [ticks EXCEPT ![j] = @ + 1]
            /\ UNCHANGED pc
    /\ UNCHANGED <<thread, scheduled, segmented, saved, gone, watcherVars>>

(* The diarizer returns.  A transcription prepares its turns, learns from  *)
(* them and says diarization_complete; a diarization says it is done.      *)
DiarizerReturns(j, found) ==
    /\ pc[j] = "diarizing"
    /\ segmented' = [segmented EXCEPT ![j] = found]
    /\ IF Mode[j] = "transcribe"
       THEN Say(j, Evt(j, "progress", "diarization")) /\ Goto(j, "handoff")
       ELSE Conclude(j, "done")
    /\ UNCHANGED <<ticks, thread, scheduled, saved, gone, watcherVars>>

(* The backend is loaded; a cancel is seen here at the latest when there   *)
(* are no segments.                                                        *)
HandOff(j) ==
    /\ pc[j] = "handoff"
    /\ IF cancelRequested[j]
       THEN Conclude(j, "cancelled")
       ELSE Say(j, Evt(j, "progress", "diarization")) /\ Goto(j, "loaded")
    /\ UNCHANGED <<ticks, thread, scheduled, segmented, saved, gone, watcherVars>>

(* "Transcribing audio"; with segments the decode goes to a pool thread *)
BeginDecode(j) ==
    /\ pc[j] = "loaded"
    /\ Say(j, Evt(j, "progress", "transcription"))
    /\ IF segmented[j]
       THEN /\ Goto(j, "decoding")
            /\ thread' = [thread EXCEPT ![j] = "running"]
       ELSE Goto(j, "whole") /\ UNCHANGED thread
    /\ ticks' = [ticks EXCEPT ![j] = 0]
    /\ UNCHANGED <<scheduled, segmented, saved, gone, watcherVars>>

(* Mutant of DecodeWhole: the result of a client that left is not kept. *)
DecodeWholeUnsaved(j) ==
    /\ pc[j] = "whole"
    /\ Conclude(j, "done")
    /\ UNCHANGED <<ticks, thread, scheduled, segmented, saved, gone, watcherVars>>

(* No segments: the whole file is decoded on the loop, cancel or not, and  *)
(* the result is kept only for a client that has left.                     *)
DecodeWhole(j) ==
    /\ pc[j] = "whole"
    /\ saved' = [saved EXCEPT ![j] = gone[j]]
    /\ Conclude(j, "done")
    /\ UNCHANGED <<ticks, thread, scheduled, segmented, gone, watcherVars>>

(* The thread's window callback: it alone sees a cancel while decoding. *)
ThreadReports(j) ==
    /\ thread[j] = "running"
    /\ ticks[j] < IF pc[j] = "decoding" THEN Windows ELSE Ticks
    /\ IF cancelRequested[j] /\ pc[j] = "decoding"
       THEN /\ thread' = [thread EXCEPT ![j] = "cancelled"]
            /\ UNCHANGED <<ticks, scheduled>>
       ELSE /\ ticks' = [ticks EXCEPT ![j] = @ + 1]
            /\ scheduled' = [scheduled EXCEPT ![j] = @ + 1]
            /\ UNCHANGED thread
    /\ UNCHANGED <<registryVars, pc, segmented, response, saved, gone,
                   watcherVars>>

ThreadReturns(j, outcome) ==
    /\ thread[j] = "running"
    /\ thread' = [thread EXCEPT ![j] = outcome]
    /\ UNCHANGED <<registryVars, pc, ticks, scheduled, segmented, response,
                   saved, gone, watcherVars>>

(* Mutant of EmitScheduled: the callback forgets to publish. *)
EmitUnpublished(j) ==
    /\ scheduled[j] > 0
    /\ scheduled' = [scheduled EXCEPT ![j] = @ - 1]
    /\ response' = [response EXCEPT ![j] =
                       Append(@, Evt(j, "progress", "transcription"))]
    /\ UNCHANGED <<registryVars, pc, ticks, thread, segmented, saved, gone,
                   watcherVars>>

(* The loop runs a callback the producer's thread scheduled. *)
EmitScheduled(j) ==
    /\ scheduled[j] > 0
    /\ scheduled' = [scheduled EXCEPT ![j] = @ - 1]
    /\ Say(j, Evt(j, "progress", IF Mode[j] = "transcribe"
                                 THEN "transcription" ELSE "none"))
    /\ UNCHANGED <<pc, ticks, thread, segmented, saved, gone, watcherVars>>

(* Mutants of Resume: the cancel flag is not read again, or the scheduled  *)
(* callbacks may still be waiting.                                         *)
ResumeUncancelled(j) ==
    /\ pc[j] = "decoding"
    /\ thread[j] \in {"ok", "failed", "cancelled"}
    /\ scheduled[j] = 0
    /\ thread' = [thread EXCEPT ![j] = "none"]
    /\ Conclude(j, CASE thread[j] = "ok" -> "done"
                     [] thread[j] = "failed" -> "error"
                     [] OTHER -> "cancelled")
    /\ UNCHANGED <<ticks, scheduled, segmented, saved, gone, watcherVars>>

ResumeEarly(j) ==
    /\ pc[j] = "decoding"
    /\ thread[j] = "ok"
    /\ thread' = [thread EXCEPT ![j] = "none"]
    /\ Conclude(j, "done")
    /\ UNCHANGED <<ticks, scheduled, segmented, saved, gone, watcherVars>>

(* The producer wakes up after its thread: the loop is FIFO, so what the   *)
(* thread scheduled has run by then.                                       *)
Resume(j) ==
    /\ pc[j] \in {"decoding", "working"}
    /\ thread[j] \in {"ok", "failed", "cancelled"}
    /\ scheduled[j] = 0
    /\ thread' = [thread EXCEPT ![j] = "none"]
    /\ IF thread[j] = "failed"
       THEN Conclude(j, "error") /\ UNCHANGED saved
       ELSE IF pc[j] = "decoding" /\ (thread[j] = "cancelled" \/ cancelRequested[j])
       THEN Conclude(j, "cancelled") /\ UNCHANGED saved
       ELSE /\ Conclude(j, "done")
            /\ saved' = [saved EXCEPT ![j] =
                            pc[j] = "decoding" /\ (j \in Save \/ gone[j])]
    /\ UNCHANGED <<ticks, scheduled, segmented, gone, watcherVars>>

----------------------------------------------------------------------------
(* run_consolidate and run_rescan *)

BeginLibraryPass(j) ==
    /\ pc[j] = "starting"
    /\ Mode[j] = "library"
    /\ thread' = [thread EXCEPT ![j] = "running"]
    /\ Goto(j, "working")
    /\ UNCHANGED <<registryVars, ticks, scheduled, segmented, response, saved,
                   gone, watcherVars>>

(* One speaker: the pass runs on the loop, so every progress callback is   *)
(* still waiting there when the verdict goes out.                          *)
SpeakerPass(j, n, verdict) ==
    /\ pc[j] = "starting"
    /\ Mode[j] = "speaker"
    /\ scheduled' = [scheduled EXCEPT ![j] = n]
    /\ Conclude(j, verdict)
    /\ UNCHANGED <<ticks, thread, segmented, saved, gone, watcherVars>>

(* Mutant of Fails: the error is not said. *)
FailsSilently(j) ==
    /\ pc[j] \in {"starting", "diarizing", "handoff", "loaded", "whole"}
    /\ Goto(j, "finished")
    /\ UNCHANGED <<registryVars, ticks, thread, scheduled, segmented, response,
                   saved, gone, watcherVars>>

(* `except Exception` of any producer, outside its pool thread *)
Fails(j) ==
    /\ pc[j] \in {"starting", "diarizing", "handoff", "loaded", "whole"}
    /\ Conclude(j, "error")
    /\ UNCHANGED <<ticks, thread, scheduled, segmented, saved, gone, watcherVars>>

(* Mutant of Close: the job is not closed with its response. *)
CloseResponseOnly(j) ==
    /\ pc[j] = "closing"
    /\ scheduled[j] = 0
    /\ response' = [response EXCEPT ![j] = Append(@, End)]
    /\ Goto(j, "finished")
    /\ UNCHANGED <<registryVars, ticks, thread, scheduled, segmented, saved, gone,
                   watcherVars>>

(* The finally-block, after the sleep of the last _sse_put *)
Close(j) ==
    /\ pc[j] = "closing"
    /\ scheduled[j] = 0
    /\ EnsureFinished(j)
    /\ response' = [response EXCEPT ![j] = Append(@, End)]
    /\ Goto(j, "finished")
    /\ UNCHANGED <<ticks, thread, scheduled, segmented, saved, gone, watcherVars>>

----------------------------------------------------------------------------
(* GET /active/stream: the caller's own active job, else 404 *)
Follow(f) ==
    /\ Busy
    /\ Owner[active] = FollowerUser[f]
    /\ Attach(f, active)
    /\ UNCHANGED <<producerVars, gone, watcherVars>>

(* GET /activity/stream subscribes in the route ... *)
Watch(w) ==
    /\ watcher[w] = "off"
    /\ SubscribeActivity(w)
    /\ watcher' = [watcher EXCEPT ![w] = "subscribed"]
    /\ UNCHANGED <<producerVars, gone, shown>>

(* _own_job *)
OwnJob(w, j) == IF j # NoJob /\ Owner[j] = WatcherUser[w]
                THEN [active |-> TRUE, job |-> j]
                ELSE NoFrame

(* ... its generator starts with a snapshot ... *)
Snapshot(w) ==
    /\ watcher[w] = "subscribed"
    /\ shown' = [shown EXCEPT ![w] = OwnJob(w, active)]
    /\ watcher' = [watcher EXCEPT ![w] = "streaming"]
    /\ UNCHANGED <<registryVars, producerVars, gone>>

(* Mutant of Deliver: an end is filtered like a start. *)
DeliverFiltered(w) ==
    /\ watcher[w] = "streaming"
    /\ TakeActivity(w)
    /\ shown' = [shown EXCEPT ![w] = OwnJob(w, Head(feed[w]).job)]
    /\ UNCHANGED <<producerVars, gone, watcher>>

(* ... and sends what the queue brings: a start is filtered to the caller's*)
(* own job, an end is passed on as it is.                                  *)
Deliver(w) ==
    /\ watcher[w] = "streaming"
    /\ TakeActivity(w)
    /\ LET frame == Head(feed[w]) IN
       shown' = [shown EXCEPT ![w] =
                    IF frame.active THEN OwnJob(w, frame.job) ELSE frame]
    /\ UNCHANGED <<producerVars, gone, watcher>>

(* The connection closes.  A generator that never ran has no finally-block *)
(* to run: its subscription stays.                                         *)
WatcherLeaves(w) ==
    /\ \/ watcher[w] = "streaming" /\ UnsubscribeActivity(w)
       \/ watcher[w] = "subscribed" /\ UNCHANGED registryVars
    /\ watcher' = [watcher EXCEPT ![w] = "gone"]
    /\ UNCHANGED <<producerVars, gone, shown>>

----------------------------------------------------------------------------
Init ==
    /\ RegistryInit
    /\ pc = [j \in Jobs |-> "idle"]
    /\ ticks = [j \in Jobs |-> 0]
    /\ thread = [j \in Jobs |-> "none"]
    /\ scheduled = [j \in Jobs |-> 0]
    /\ segmented = [j \in Jobs |-> FALSE]
    /\ response = [j \in Jobs |-> <<>>]
    /\ gone = [j \in Jobs |-> FALSE]
    /\ saved = [j \in Jobs |-> FALSE]
    /\ watcher = [w \in Watchers |-> "off"]
    /\ shown = [w \in Watchers |-> NoFrame]

Route(j) == Refuse(j) \/ BeginRead(j) \/ Start(j)

Client(j) == Cancel(j) \/ ClientLeaves(j)

Producer(j) ==
    \/ BeginTranscribe(j)
    \/ DiarizerReports(j)
    \/ \E found \in BOOLEAN : DiarizerReturns(j, found)
    \/ HandOff(j)
    \/ BeginDecode(j)
    \/ DecodeWhole(j)
    \/ Resume(j)
    \/ BeginLibraryPass(j)
    \/ \E n \in 0 .. Ticks, verdict \in {"done", "error"} :
          SpeakerPass(j, n, verdict)
    \/ Fails(j)
    \/ Close(j)

PoolThread(j) ==
    \/ ThreadReports(j)
    \/ \E outcome \in {"ok", "failed"} : ThreadReturns(j, outcome)

Connection(w) == Watch(w) \/ Snapshot(w) \/ Deliver(w) \/ WatcherLeaves(w)

(* Every request has been answered and every producer has ended. *)
Quiet == (\A j \in Jobs : pc[j] \in Resting \ {"idle"}) /\ UNCHANGED vars

Next ==
    \/ \E j \in Jobs : \/ Route(j)
                       \/ Client(j)
                       \/ Producer(j)
                       \/ PoolThread(j)
                       \/ EmitScheduled(j)
    \/ \E f \in Followers : Follow(f)
    \/ \E w \in Watchers : Connection(w)
    \/ Quiet

(* The loop runs every ready task and callback, and a pool thread that     *)
(* decodes a finite file returns; nobody is obliged to call a route.       *)
Fairness ==
    \A j \in Jobs : /\ WF_vars(Producer(j))
                    /\ WF_vars(PoolThread(j))
                    /\ WF_vars(EmitScheduled(j))
                    /\ WF_vars(pc[j] = "reading" /\ Route(j))

Spec == Init /\ [][Next]_vars /\ Fairness

----------------------------------------------------------------------------
UploadTypeOK ==
    /\ pc \in [Jobs -> AtWork \cup Resting \cup {"reading", "closing"}]
    /\ ticks \in [Jobs -> Nat]
    /\ thread \in [Jobs -> {"none", "running", "ok", "failed", "cancelled"}]
    /\ scheduled \in [Jobs -> Nat]
    /\ segmented \in [Jobs -> BOOLEAN]
    /\ response \in [Jobs -> Seq(Event \cup {End})]
    /\ gone \in [Jobs -> BOOLEAN]
    /\ saved \in [Jobs -> BOOLEAN]
    /\ watcher \in [Watchers -> {"off", "subscribed", "streaming", "gone"}]
    /\ shown \in [Watchers -> [active : BOOLEAN, job : Jobs \cup {NoJob}]]

(* What makes the check of the routes and start_job one step: no body is   *)
(* read from disk in between, the passes' check of the caller's own job    *)
(* is a check of every job, and no pass publishes after its verdict.       *)
Exclusive ==
    /\ Spooled = {}
    /\ \A j \in Jobs :
          /\ Mode[j] # "speaker"
          /\ Mode[j] \in Passes => \A i \in Jobs : Owner[i] = Owner[j]

(* "The server runs one job at a time": a second one is refused. *)
OneJobAtATime == \A i, j \in Jobs : Running(i) /\ Running(j) => i = j

(* A producer at work is visible to get_running(), which is all that keeps *)
(* the TTL monitor from unloading the models under it.                     *)
WorkIsVisible == \A j \in Jobs : pc[j] \in AtWork => active # NoJob

(* A log mirrors what its own producer put on its response, all of it, in  *)
(* order: whoever reattaches sees what the uploader sees.                  *)
LogMirrorsResponse ==
    \A j \in Jobs :
        response[j] = IF pc[j] = "finished" THEN Append(events[j], End)
                      ELSE events[j]

(* A transcription that accepted a cancel does not go on to a result. *)
CancelIsHonoured ==
    \A j \in Jobs : cancelRequested[j] => status[j] # "done"

(* With segments to decode it does not, whatever the thread was doing. *)
CancelIsHonouredWithSegments ==
    \A j \in Jobs : cancelRequested[j] /\ segmented[j] => status[j] # "done"

(* A reattached page is sent events of its own user's jobs only. *)
FollowersSeeOwnJobs ==
    \A f \in Followers : \A i \in 1 .. Len(stream[f]) :
        stream[f][i] # End => Owner[stream[f][i].by] = FollowerUser[f]

(* Once it has read its queue, an activity connection shows whether its    *)
(* user has an active job, however starts and ends raced its connecting.   *)
ActivityTellsTheTruth ==
    \A w \in Watchers :
        watcher[w] = "streaming" /\ feed[w] = <<>> =>
            (shown[w].active <=> OwnBusy(WatcherUser[w]))

(* The verdict is the last event of a response: every window and every     *)
(* progress event a pool thread scheduled has been sent before it.         *)
VerdictEndsTheResponse ==
    \A j \in Jobs : \A i \in 1 .. Len(response[j]) :
        response[j][i].stage \in Verdicts =>
            \A k \in i + 1 .. Len(response[j]) : response[j][k] = End

(* A result is kept, asked for or not, when its client left before it:     *)
(* leaving later than the verdict changes nothing.                         *)
LeaversResultsAreSaved ==
    [][\A j \in Jobs :
          gone[j] /\ Mode[j] = "transcribe" /\ pc[j] \in AtWork
             /\ pc'[j] = "closing"
             /\ response'[j][Len(response'[j])].stage = "done"
          => saved'[j]]_vars

(* Every job that starts leaves "running", even one that was displaced and *)
(* whose verdict closed another job.                                       *)
EveryJobEnds == \A j \in Jobs : Running(j) ~> ~Running(j)

(* Every connection that follows a job is told of the end. *)
FollowersAreReleased ==
    \A f \in Followers :
        watching[f] # NoJob ~> stream[f] # <<>> /\ stream[f][Len(stream[f])] = End

(* The upload service keeps the promise of SerialJobs. *)
Serial == INSTANCE SerialJobs WITH
             current <- active, verdict <- status, log <- events
SerialSpec == Serial!Spec
=============================================================================

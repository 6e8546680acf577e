---------------------------- MODULE JobRegistry ----------------------------
(***************************************************************************)
(* The registry of the one active job (asr_mcp/core/job_state.py).         *)
(*                                                                         *)
(* A job's producer publishes its progress; every event is kept in the     *)
(* log of the ACTIVE job and forwarded to the connections that follow it.  *)
(* A second channel tells activity subscribers when a job starts and ends. *)
(*                                                                         *)
(* All of it runs on one event loop with no await inside an operation, so  *)
(* every operation is one action.  Next lets anybody call anything in any  *)
(* order: what holds here holds for every discipline of the callers, and   *)
(* UploadJobs, which models the callers, is shown to take only these steps.*)
(***************************************************************************)
EXTENDS Integers, Sequences

CONSTANTS
    Jobs,       \* the ActiveJob objects that can be created, one per request
    Followers,  \* GET /active/stream connections
    Watchers,   \* GET /activity/stream connections
    NoJob       \* None

ASSUME NoJobAssumption == NoJob \notin Jobs

VARIABLES
    active,          \* _active
    status,          \* ActiveJob.status, "new" before the object exists
    cancelRequested, \* ActiveJob.cancel_requested
    events,          \* ActiveJob.events, the log
    subscribers,     \* ActiveJob.subscribers, by connection
    watching,        \* the job a follower called attach for
    stream,          \* what a follower is to send: snapshot, then its queue
    activitySubs,    \* _activity_subs, by connection
    feed             \* the queue of an activity subscriber

registryVars == <<active, status, cancelRequested, events, subscribers,
                  watching, stream, activitySubs, feed>>

Verdicts == {"done", "error", "cancelled"}
Statuses == {"new", "running"} \cup Verdicts
Stages   == {"progress"} \cup Verdicts
Phases   == {"diarization", "transcription", "none"}

(* An event of the log. `by` names the job whose producer emitted it: the  *)
(* code does not record it, the properties need it.                        *)
Event == [by : Jobs, stage : Stages, phase : Phases]

(* The None a subscriber's queue ends with. *)
End == [by |-> NoJob, stage |-> "end", phase |-> "none"]

(* job_state.publish: only these events close the job they land in. *)
Terminal(e) == e.stage \in Verdicts /\ e.phase # "diarization"

(* A frame of the activity channel. *)
Frame == [active : BOOLEAN, job : Jobs]

----------------------------------------------------------------------------
Running(j) == status[j] = "running"

(* put_nowait to the subscribers of job j *)
Forward(str, j, item) ==
    [f \in Followers |->
        IF f \in subscribers[j] THEN Append(str[f], item) ELSE str[f]]

(* _notify_activity *)
Notify(isActive, j) ==
    feed' = [w \in Watchers |->
               IF w \in activitySubs
               THEN Append(feed[w], [active |-> isActive, job |-> j])
               ELSE feed[w]]

(* Mutant of Finish: a closed job is closed again. *)
FinishTwice(j, verdict, str) ==
    /\ status' = [status EXCEPT ![j] = verdict]
    /\ stream' = Forward(str, j, End)
    /\ subscribers' = [subscribers EXCEPT ![j] = {}]
    /\ IF active = j
       THEN active' = NoJob /\ Notify(FALSE, j)
       ELSE UNCHANGED <<active, feed>>

(* finish(job, verdict), after the puts that made the streams `str` *)
Finish(j, verdict, str) ==
    IF Running(j)
    THEN /\ status' = [status EXCEPT ![j] = verdict]
         /\ stream' = Forward(str, j, End)
         /\ subscribers' = [subscribers EXCEPT ![j] = {}]
         /\ IF active = j
            THEN active' = NoJob /\ Notify(FALSE, j)
            ELSE UNCHANGED <<active, feed>>
    ELSE stream' = str /\ UNCHANGED <<status, subscribers, active, feed>>

----------------------------------------------------------------------------
(* start_job: whatever was active is replaced, not closed. *)
StartJob(j) ==
    /\ status[j] = "new"
    /\ status' = [status EXCEPT ![j] = "running"]
    /\ active' = j
    /\ Notify(TRUE, j)
    /\ UNCHANGED <<cancelRequested, events, subscribers, watching, stream,
                   activitySubs>>

(* publish: the event goes to the job that is active NOW, whoever sends it. *)
Publish(e) ==
    IF active = NoJob
    THEN UNCHANGED registryVars
    ELSE LET str == Forward(stream, active, e)
         IN  /\ events' = [events EXCEPT ![active] = Append(@, e)]
             /\ IF Terminal(e)
                THEN Finish(active, e.stage, str)
                ELSE stream' = str
                     /\ UNCHANGED <<status, subscribers, active, feed>>
             /\ UNCHANGED <<cancelRequested, watching, activitySubs>>

(* Mutant of Attach: the subscription comes without the snapshot. *)
AttachFromNowOn(f, j) ==
    /\ watching[f] = NoJob
    /\ status[j] # "new"
    /\ watching' = [watching EXCEPT ![f] = j]
    /\ IF active = j
       THEN subscribers' = [subscribers EXCEPT ![j] = @ \cup {f}]
            /\ UNCHANGED stream
       ELSE /\ stream' = [stream EXCEPT ![f] = Append(events[j], End)]
            /\ UNCHANGED subscribers
    /\ UNCHANGED <<active, status, cancelRequested, events, activitySubs, feed>>

(* attach: snapshot and subscription in one step; a job that is not active *)
(* any more is replayed and closed.                                        *)
Attach(f, j) ==
    /\ watching[f] = NoJob
    /\ status[j] # "new"
    /\ watching' = [watching EXCEPT ![f] = j]
    /\ IF active = j
       THEN /\ stream' = [stream EXCEPT ![f] = events[j]]
            /\ subscribers' = [subscribers EXCEPT ![j] = @ \cup {f}]
       ELSE /\ stream' = [stream EXCEPT ![f] = Append(events[j], End)]
            /\ UNCHANGED subscribers
    /\ UNCHANGED <<active, status, cancelRequested, events, activitySubs, feed>>

(* ensure_finished(job): the producer's finally-block, for its own job. *)
EnsureFinished(j) ==
    /\ Finish(j, "error", stream)
    /\ UNCHANGED <<cancelRequested, events, watching, activitySubs>>

(* The flag POST /active/cancel sets on the active job. *)
RequestCancel(j) ==
    /\ active = j
    /\ cancelRequested' = [cancelRequested EXCEPT ![j] = TRUE]
    /\ UNCHANGED <<active, status, events, subscribers, watching, stream,
                   activitySubs, feed>>

(* subscribe_activity: a fresh queue. *)
SubscribeActivity(w) ==
    /\ w \notin activitySubs
    /\ activitySubs' = activitySubs \cup {w}
    /\ feed' = [feed EXCEPT ![w] = <<>>]
    /\ UNCHANGED <<active, status, cancelRequested, events, subscribers,
                   watching, stream>>

(* sub.get() *)
TakeActivity(w) ==
    /\ feed[w] # <<>>
    /\ feed' = [feed EXCEPT ![w] = Tail(@)]
    /\ UNCHANGED <<active, status, cancelRequested, events, subscribers,
                   watching, stream, activitySubs>>

(* unsubscribe_activity; the queue is dropped with its connection. *)
UnsubscribeActivity(w) ==
    /\ w \in activitySubs
    /\ activitySubs' = activitySubs \ {w}
    /\ feed' = [feed EXCEPT ![w] = <<>>]
    /\ UNCHANGED <<active, status, cancelRequested, events, subscribers,
                   watching, stream>>

RegistryInit ==
    /\ active = NoJob
    /\ status = [j \in Jobs |-> "new"]
    /\ cancelRequested = [j \in Jobs |-> FALSE]
    /\ events = [j \in Jobs |-> <<>>]
    /\ subscribers = [j \in Jobs |-> {}]
    /\ watching = [f \in Followers |-> NoJob]
    /\ stream = [f \in Followers |-> <<>>]
    /\ activitySubs = {}
    /\ feed = [w \in Watchers |-> <<>>]

RegistryNext ==
    \/ \E j \in Jobs : StartJob(j) \/ EnsureFinished(j) \/ RequestCancel(j)
    \/ \E e \in Event : Publish(e)
    \/ \E f \in Followers, j \in Jobs : Attach(f, j)
    \/ \E w \in Watchers : \/ SubscribeActivity(w)
                           \/ TakeActivity(w)
                           \/ UnsubscribeActivity(w)

RegistrySpec == RegistryInit /\ [][RegistryNext]_registryVars

----------------------------------------------------------------------------
RegistryTypeOK ==
    /\ active \in Jobs \cup {NoJob}
    /\ status \in [Jobs -> Statuses]
    /\ cancelRequested \in [Jobs -> BOOLEAN]
    /\ events \in [Jobs -> Seq(Event)]
    /\ subscribers \in [Jobs -> SUBSET Followers]
    /\ watching \in [Followers -> Jobs \cup {NoJob}]
    /\ stream \in [Followers -> Seq(Event \cup {End})]
    /\ activitySubs \in SUBSET Watchers
    /\ feed \in [Watchers -> Seq(Frame)]

(* The active job is a running one: `finish` clears _active in the same    *)
(* step in which it closes the job, so the check "is a job running?" of the*)
(* upload routes and of the TTL monitor never sees a closed job.           *)
ActiveIsRunning == active # NoJob => Running(active)

(* A subscription is held only by a connection that follows that very job, *)
(* and none is left behind when the job closes.                            *)
SubscriptionsMatch ==
    \A j \in Jobs :
        /\ \A f \in subscribers[j] : watching[f] = j
        /\ subscribers[j] # {} => Running(j)

(* Attach is race-free: whenever a connection attached, what it sends is   *)
(* the job's whole log, in order, each event once -- followed by the end   *)
(* mark exactly when the connection has been closed.                       *)
FollowersSeeTheLog ==
    \A f \in Followers :
        LET j == watching[f] IN
        j # NoJob => IF f \in subscribers[j]
                     THEN stream[f] = events[j]
                     ELSE stream[f] = Append(events[j], End)

(* A log holds at most one closing event, and nothing after it. *)
NothingAfterTheVerdict ==
    \A j \in Jobs : \A i \in 1 .. Len(events[j]) :
        Terminal(events[j][i]) =>
            /\ i = Len(events[j])
            /\ status[j] = events[j][i].stage

(* The newest frame waiting for an activity subscriber is the truth. *)
FeedTellsTheTruth ==
    \A w \in activitySubs :
        feed[w] # <<>> =>
            LET last == feed[w][Len(feed[w])] IN
            /\ last.active <=> (active # NoJob)
            /\ last.active => last.job = active

(* A job that has its verdict keeps it, and its log is closed.  (A job that*)
(* was displaced by another one while running keeps an open, silent log.)  *)
VerdictIsFinal ==
    [][\A j \in Jobs : status[j] \in Verdicts =>
          /\ status'[j] = status[j]
          /\ events'[j] = events[j]]_registryVars
=============================================================================

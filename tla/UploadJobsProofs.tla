-------------------------- MODULE UploadJobsProofs --------------------------
(***************************************************************************)
(* Proofs about JobRegistry, for any jobs, followers and subscribers and   *)
(* any order of calls, and about UploadJobs.  For any requests: its callers *)
(* take only steps of the registry, so what is proved of the registry holds *)
(* of them.  Under Exclusive: the service is serial.                       *)
(***************************************************************************)
EXTENDS UploadJobs, SequenceTheorems, TLAPS

----------------------------------------------------------------------------
(* The registry *)

(* A connection follows only a job that has started; when it holds no      *)
(* subscription the job is not active (any more), so its log has stopped.  *)
FollowedHasStarted ==
    \A f \in Followers : \A j \in Jobs :
        watching[f] = j =>
            /\ status[j] # "new"
            /\ f \notin subscribers[j] => active # j

(* The inductive invariant *)
RegistryInv ==
    /\ RegistryTypeOK
    /\ ActiveIsRunning
    /\ SubscriptionsMatch
    /\ FollowersSeeTheLog
    /\ NothingAfterTheVerdict
    /\ FeedTellsTheTruth
    /\ FollowedHasStarted

----------------------------------------------------------------------------
(* The registry starts out empty. *)
LEMMA InitEstablishesInv == RegistryInit => RegistryInv
BY NoJobAssumption DEF RegistryInit, RegistryInv, RegistryTypeOK,
   ActiveIsRunning, SubscriptionsMatch, FollowersSeeTheLog,
   NothingAfterTheVerdict, FeedTellsTheTruth, FollowedHasStarted, Statuses

(* A forwarded item leaves every stream a sequence of events and end marks.*)
LEMMA ForwardType ==
    ASSUME RegistryTypeOK, NEW str \in [Followers -> Seq(Event \cup {End})],
           NEW j \in Jobs, NEW item \in Event \cup {End}
    PROVE  Forward(str, j, item) \in [Followers -> Seq(Event \cup {End})]
BY DEF RegistryTypeOK, Forward

(* So does a frame every activity subscriber's queue. *)
LEMMA NotifyType ==
    ASSUME RegistryTypeOK, NEW isActive \in BOOLEAN, NEW j \in Jobs,
           Notify(isActive, j)
    PROVE  feed' \in [Watchers -> Seq(Frame)]
<1>1. [active |-> isActive, job |-> j] \in Frame
  BY DEF Frame
<1>2. \A w \in Watchers :
         Append(feed[w], [active |-> isActive, job |-> j]) \in Seq(Frame)
  BY <1>1 DEF RegistryTypeOK
<1> QED
  BY <1>2 DEF Notify, RegistryTypeOK

(* Closing a job, or finding it closed, keeps everything it writes typed. *)
LEMMA FinishType ==
    ASSUME RegistryTypeOK, NEW j \in Jobs, NEW verdict \in Verdicts,
           NEW str \in [Followers -> Seq(Event \cup {End})],
           Finish(j, verdict, str)
    PROVE  /\ status' \in [Jobs -> Statuses]
           /\ stream' \in [Followers -> Seq(Event \cup {End})]
           /\ subscribers' \in [Jobs -> SUBSET Followers]
           /\ active' \in Jobs \cup {NoJob}
           /\ feed' \in [Watchers -> Seq(Frame)]
<1>1. Forward(str, j, End) \in [Followers -> Seq(Event \cup {End})]
  BY ForwardType
<1>2. Notify(FALSE, j) => feed' \in [Watchers -> Seq(Frame)]
  BY NotifyType
<1>3. verdict \in Statuses
  BY DEF Statuses
<1> QED
  BY <1>1, <1>2, <1>3 DEF Finish, RegistryTypeOK

LEMMA StepPreservesType ==
    RegistryTypeOK /\ [RegistryNext]_registryVars => RegistryTypeOK'
<1> SUFFICES ASSUME RegistryTypeOK, [RegistryNext]_registryVars
             PROVE  RegistryTypeOK'
  OBVIOUS
<1>1. ASSUME NEW j \in Jobs, StartJob(j) PROVE RegistryTypeOK'
  <2>1. feed' \in [Watchers -> Seq(Frame)]
    BY <1>1, NotifyType DEF StartJob
  <2> QED
    BY <1>1, <2>1 DEF StartJob, Statuses, RegistryTypeOK
<1>2. ASSUME NEW j \in Jobs, EnsureFinished(j) PROVE RegistryTypeOK'
  <2>1. Finish(j, "error", stream)
    BY <1>2 DEF EnsureFinished
  <2>2. /\ "error" \in Verdicts
        /\ stream \in [Followers -> Seq(Event \cup {End})]
    BY DEF Verdicts, RegistryTypeOK
  <2> HIDE DEF Finish
  <2> QED
    BY <1>2, <2>1, <2>2, FinishType DEF EnsureFinished, RegistryTypeOK
<1>3. ASSUME NEW j \in Jobs, RequestCancel(j) PROVE RegistryTypeOK'
  BY <1>3 DEF RequestCancel, RegistryTypeOK
<1>4. ASSUME NEW e \in Event, Publish(e) PROVE RegistryTypeOK'
  <2>1. CASE active = NoJob
    BY <1>4, <2>1 DEF Publish, registryVars, RegistryTypeOK
  <2>2. CASE active # NoJob
    <3> DEFINE str == Forward(stream, active, e)
    <3>1. active \in Jobs
      BY <2>2 DEF RegistryTypeOK
    <3>2. str \in [Followers -> Seq(Event \cup {End})]
      BY <3>1, ForwardType DEF RegistryTypeOK
    <3>3. events' \in [Jobs -> Seq(Event)]
      <4>1. Append(events[active], e) \in Seq(Event)
        BY <3>1 DEF RegistryTypeOK
      <4> QED
        BY <1>4, <2>2, <3>1, <4>1 DEF Publish, RegistryTypeOK
    <3>4. UNCHANGED <<cancelRequested, watching, activitySubs>>
      BY <1>4, <2>2 DEF Publish
    <3>5. CASE Terminal(e)
      <4>1. Finish(active, e.stage, str)
        BY <1>4, <2>2, <3>5 DEF Publish
      <4>2. e.stage \in Verdicts
        BY <3>5 DEF Terminal
      <4>3. /\ status' \in [Jobs -> Statuses]
            /\ stream' \in [Followers -> Seq(Event \cup {End})]
            /\ subscribers' \in [Jobs -> SUBSET Followers]
            /\ active' \in Jobs \cup {NoJob}
            /\ feed' \in [Watchers -> Seq(Frame)]
        <5> HIDE DEF str
        <5> QED
          BY <3>1, <3>2, <4>1, <4>2, FinishType
      <4> QED
        BY <3>3, <3>4, <4>3 DEF RegistryTypeOK
    <3>6. CASE ~Terminal(e)
      <4>1. stream' = str /\ UNCHANGED <<status, subscribers, active, feed>>
        BY <1>4, <2>2, <3>6 DEF Publish
      <4> HIDE DEF str
      <4> QED
        BY <3>2, <3>3, <3>4, <4>1 DEF RegistryTypeOK
    <3> QED
      BY <3>5, <3>6
  <2> QED
    BY <2>1, <2>2
<1>5. ASSUME NEW f \in Followers, NEW j \in Jobs, Attach(f, j)
      PROVE  RegistryTypeOK'
  <2>1. /\ events[j] \in Seq(Event \cup {End})
        /\ Append(events[j], End) \in Seq(Event \cup {End})
    <3>1. events[j] \in Seq(Event)
      BY DEF RegistryTypeOK
    <3> HIDE DEF RegistryTypeOK
    <3> QED
      BY <3>1
  <2>2. stream' \in [Followers -> Seq(Event \cup {End})]
    <3> DEFINE Items == Seq(Event \cup {End})
    <3>1. stream \in [Followers -> Items] /\ events[j] \in Items
          /\ Append(events[j], End) \in Items
      BY <2>1 DEF RegistryTypeOK
    <3>2. \/ stream' = [stream EXCEPT ![f] = events[j]]
          \/ stream' = [stream EXCEPT ![f] = Append(events[j], End)]
      BY <1>5 DEF Attach
    <3> HIDE DEF Items
    <3>3. stream' \in [Followers -> Items]
      BY <3>1, <3>2
    <3> QED
      BY <3>3 DEF Items
  <2>3. subscribers' \in [Jobs -> SUBSET Followers]
    <3>1. \/ subscribers' = [subscribers EXCEPT ![j] = @ \cup {f}]
          \/ subscribers' = subscribers
      BY <1>5 DEF Attach
    <3>2. subscribers[j] \cup {f} \in SUBSET Followers
      BY DEF RegistryTypeOK
    <3> QED
      BY <3>1, <3>2 DEF RegistryTypeOK
  <2>4. watching' \in [Followers -> Jobs \cup {NoJob}]
    BY <1>5 DEF Attach, RegistryTypeOK
  <2>5. UNCHANGED <<active, status, cancelRequested, events, activitySubs, feed>>
    BY <1>5 DEF Attach
  <2> QED
    BY <2>2, <2>3, <2>4, <2>5 DEF RegistryTypeOK
<1>6. ASSUME NEW w \in Watchers,
             \/ SubscribeActivity(w)
             \/ TakeActivity(w)
             \/ UnsubscribeActivity(w)
      PROVE  RegistryTypeOK'
  <2>1. CASE SubscribeActivity(w)
    BY <2>1 DEF SubscribeActivity, RegistryTypeOK
  <2>2. CASE TakeActivity(w)
    <3>1. Tail(feed[w]) \in Seq(Frame)
      BY <2>2 DEF TakeActivity, RegistryTypeOK
    <3> QED
      BY <2>2, <3>1 DEF TakeActivity, RegistryTypeOK
  <2>3. CASE UnsubscribeActivity(w)
    BY <2>3 DEF UnsubscribeActivity, RegistryTypeOK
  <2> QED
    BY <1>6, <2>1, <2>2, <2>3
<1>7. CASE UNCHANGED registryVars
  BY <1>7 DEF registryVars, RegistryTypeOK
<1> QED
  BY <1>1, <1>2, <1>3, <1>4, <1>5, <1>6, <1>7 DEF RegistryNext

----------------------------------------------------------------------------
(* What finish does to a running job, point by point. *)
LEMMA FinishCloses ==
    ASSUME RegistryTypeOK, NEW j \in Jobs, NEW verdict \in Verdicts,
           NEW str \in [Followers -> Seq(Event \cup {End})],
           Finish(j, verdict, str), Running(j)
    PROVE  /\ status' = [status EXCEPT ![j] = verdict]
           /\ subscribers' = [subscribers EXCEPT ![j] = {}]
           /\ \A f \in Followers :
                 stream'[f] = IF f \in subscribers[j]
                              THEN Append(str[f], End) ELSE str[f]
           /\ active = j => active' = NoJob /\ Notify(FALSE, j)
           /\ active # j => active' = active /\ feed' = feed
BY DEF Finish, Forward, RegistryTypeOK

(* After a notification the newest frame of every subscriber is that one. *)
LEMMA NotifyIsNewest ==
    ASSUME RegistryTypeOK, NEW isActive \in BOOLEAN, NEW j \in Jobs,
           Notify(isActive, j), NEW w \in activitySubs
    PROVE  feed'[w][Len(feed'[w])] = [active |-> isActive, job |-> j]
<1> DEFINE frame == [active |-> isActive, job |-> j]
<1>1. /\ w \in Watchers
      /\ feed[w] \in Seq(Frame)
  BY DEF RegistryTypeOK
<1>2. frame \in Frame
  BY DEF Frame
<1>3. feed'[w] = Append(feed[w], frame)
  BY <1>1 DEF Notify
<1> HIDE DEF frame
<1>4. Append(feed[w], frame)[Len(Append(feed[w], frame))] = frame
  BY <1>1, <1>2
<1> QED
  BY <1>3, <1>4 DEF frame

(* The log of a running job holds no closing event. *)
LEMMA RunningLogIsOpen ==
    ASSUME RegistryInv, NEW j \in Jobs, status[j] \notin Verdicts,
           NEW i \in 1 .. Len(events[j])
    PROVE  ~Terminal(events[j][i])
BY DEF RegistryInv, NothingAfterTheVerdict, Terminal

LEMMA StartKeepsInv ==
    ASSUME RegistryInv, RegistryTypeOK', NEW j \in Jobs, StartJob(j)
    PROVE  RegistryInv'
<1> USE DEF RegistryInv
<1>1. ActiveIsRunning'
  BY DEF StartJob, ActiveIsRunning, Running, RegistryTypeOK
<1>2. SubscriptionsMatch'
  BY DEF StartJob, SubscriptionsMatch, Running, RegistryTypeOK
<1>3. FollowersSeeTheLog'
  BY DEF StartJob, FollowersSeeTheLog
<1>4. NothingAfterTheVerdict'
  <2> SUFFICES ASSUME NEW k \in Jobs, NEW i \in 1 .. Len(events[k]),
                      Terminal(events[k][i])
               PROVE  i = Len(events[k]) /\ status'[k] = events[k][i].stage
    BY DEF StartJob, NothingAfterTheVerdict, Terminal
  <2>1. k # j
    BY RunningLogIsOpen DEF StartJob, Verdicts
  <2> QED
    BY <2>1 DEF StartJob, NothingAfterTheVerdict, RegistryTypeOK
<1>5. FeedTellsTheTruth'
  <2> SUFFICES ASSUME NEW w \in activitySubs
               PROVE  LET last == feed'[w][Len(feed'[w])] IN
                      /\ last.active <=> (active' # NoJob)
                      /\ last.active => last.job = active'
    BY DEF StartJob, FeedTellsTheTruth
  <2>1. feed'[w][Len(feed'[w])] = [active |-> TRUE, job |-> j]
    BY NotifyIsNewest DEF StartJob
  <2> QED
    BY <2>1, NoJobAssumption DEF StartJob
<1>6. FollowedHasStarted'
  BY DEF StartJob, FollowedHasStarted, RegistryTypeOK
<1> QED
  BY <1>1, <1>2, <1>3, <1>4, <1>5, <1>6

LEMMA EnsureFinishedKeepsInv ==
    ASSUME RegistryInv, RegistryTypeOK', NEW j \in Jobs, EnsureFinished(j)
    PROVE  RegistryInv'
<1> USE DEF RegistryInv
<1>0. /\ UNCHANGED <<cancelRequested, events, watching, activitySubs>>
      /\ Finish(j, "error", stream)
  BY DEF EnsureFinished
<1>1. CASE ~Running(j)
  <2>1. UNCHANGED registryVars
    BY <1>0, <1>1 DEF Finish, registryVars
  <2> QED
    BY <2>1 DEF registryVars, ActiveIsRunning, SubscriptionsMatch,
       FollowersSeeTheLog, NothingAfterTheVerdict, FeedTellsTheTruth,
       FollowedHasStarted, Running
<1>2. CASE Running(j)
  <2>1. /\ status' = [status EXCEPT ![j] = "error"]
        /\ subscribers' = [subscribers EXCEPT ![j] = {}]
        /\ \A f \in Followers :
              stream'[f] = IF f \in subscribers[j]
                           THEN Append(stream[f], End) ELSE stream[f]
        /\ active = j => active' = NoJob /\ Notify(FALSE, j)
        /\ active # j => active' = active /\ feed' = feed
    BY <1>0, <1>2, FinishCloses DEF RegistryTypeOK, Verdicts
  <2>2. ActiveIsRunning'
    BY <2>1 DEF ActiveIsRunning, Running, RegistryTypeOK
  <2>3. SubscriptionsMatch'
    BY <1>0, <2>1 DEF SubscriptionsMatch, Running, RegistryTypeOK
  <2>4. FollowersSeeTheLog'
    <3> SUFFICES ASSUME NEW f \in Followers, watching[f] # NoJob
                 PROVE  IF f \in subscribers'[watching[f]]
                        THEN stream'[f] = events[watching[f]]
                        ELSE stream'[f] = Append(events[watching[f]], End)
      BY <1>0 DEF FollowersSeeTheLog
    <3>1. watching[f] \in Jobs
      BY DEF RegistryTypeOK
    <3>2. f \in subscribers[j] => watching[f] = j
      BY DEF SubscriptionsMatch
    <3> QED
      BY <2>1, <3>1, <3>2 DEF FollowersSeeTheLog, RegistryTypeOK
  <2>5. NothingAfterTheVerdict'
    <3> SUFFICES ASSUME NEW k \in Jobs, NEW i \in 1 .. Len(events[k]),
                        Terminal(events[k][i])
                 PROVE  i = Len(events[k]) /\ status'[k] = events[k][i].stage
      BY <1>0 DEF NothingAfterTheVerdict, Terminal
    <3>1. k # j
      BY <1>2, RunningLogIsOpen DEF Verdicts, Running
    <3> QED
      BY <2>1, <3>1 DEF NothingAfterTheVerdict, RegistryTypeOK
  <2>6. FeedTellsTheTruth'
    <3> SUFFICES ASSUME NEW w \in activitySubs, feed'[w] # <<>>
                 PROVE  LET last == feed'[w][Len(feed'[w])] IN
                        /\ last.active <=> (active' # NoJob)
                        /\ last.active => last.job = active'
      BY <1>0 DEF FeedTellsTheTruth
    <3>1. CASE active = j
      <4>1. feed'[w][Len(feed'[w])] = [active |-> FALSE, job |-> j]
        BY <2>1, <3>1, NotifyIsNewest
      <4> QED
        BY <2>1, <3>1, <4>1
    <3>2. CASE active # j
      BY <2>1, <3>2 DEF FeedTellsTheTruth
    <3> QED
      BY <3>1, <3>2
  <2>7. FollowedHasStarted'
    BY ZenonT(60), <1>0, <2>1, NoJobAssumption DEF FollowedHasStarted, RegistryTypeOK
  <2> QED
    BY <2>2, <2>3, <2>4, <2>5, <2>6, <2>7
<1> QED
  BY <1>1, <1>2

LEMMA PublishKeepsInv ==
    ASSUME RegistryInv, RegistryTypeOK', NEW e \in Event, Publish(e)
    PROVE  RegistryInv'
<1> USE DEF RegistryInv
<1>1. CASE active = NoJob
  <2>1. UNCHANGED registryVars
    BY <1>1 DEF Publish
  <2> QED
    BY <2>1 DEF registryVars, ActiveIsRunning, SubscriptionsMatch,
       FollowersSeeTheLog, NothingAfterTheVerdict, FeedTellsTheTruth,
       FollowedHasStarted, Running
<1>2. CASE active # NoJob
  <2> DEFINE str == Forward(stream, active, e)
  <2>1. /\ active \in Jobs
        /\ Running(active)
        /\ str \in [Followers -> Seq(Event \cup {End})]
    BY <1>2, ForwardType DEF ActiveIsRunning, RegistryTypeOK
  <2>2. /\ events' = [events EXCEPT ![active] = Append(@, e)]
        /\ UNCHANGED <<cancelRequested, watching, activitySubs>>
        /\ \A f \in Followers :
              str[f] = IF f \in subscribers[active]
                       THEN Append(stream[f], e) ELSE stream[f]
    BY <1>2 DEF Publish, Forward
  <2>3. Terminal(e) => Finish(active, e.stage, str)
    BY <1>2 DEF Publish
  <2>4. ~Terminal(e) => stream' = str
                        /\ UNCHANGED <<status, subscribers, active, feed>>
    BY <1>2 DEF Publish
  <2> HIDE DEF str
  <2>5. NothingAfterTheVerdict'
    <3> SUFFICES ASSUME NEW k \in Jobs, NEW i \in 1 .. Len(events'[k]),
                        Terminal(events'[k][i])
                 PROVE  i = Len(events'[k]) /\ status'[k] = events'[k][i].stage
      BY DEF NothingAfterTheVerdict, Terminal
    <3>1. CASE k # active
      <4>1. events'[k] = events[k]
        BY <2>1, <2>2, <3>1 DEF RegistryTypeOK
      <4>2. status'[k] = status[k]
        <5>1. Terminal(e) => status' = [status EXCEPT ![active] = e.stage]
          BY <2>1, <2>3, FinishCloses DEF Terminal
        <5> QED
          BY <2>1, <2>4, <3>1, <5>1 DEF RegistryTypeOK
      <4> QED
        BY <4>1, <4>2 DEF NothingAfterTheVerdict
    <3>2. CASE k = active
      <4>1. /\ events[k] \in Seq(Event)
            /\ events'[k] = Append(events[k], e)
        BY <2>1, <2>2, <3>2 DEF RegistryTypeOK
      <4>2. i # Len(events[k]) + 1 => ~Terminal(events[k][i])
                                      /\ events'[k][i] = events[k][i]
        BY <2>1, <3>2, <4>1, RunningLogIsOpen DEF Running, Verdicts
      <4>3. i = Len(events'[k]) /\ events'[k][i] = e
        BY <4>1, <4>2
      <4>4. status' = [status EXCEPT ![k] = e.stage]
        BY <2>1, <2>3, <3>2, <4>3, FinishCloses DEF Terminal
      <4> QED
        BY <4>3, <4>4 DEF RegistryTypeOK
    <3> QED
      BY <3>1, <3>2
  <2>6. CASE ~Terminal(e)
    <3>1. ActiveIsRunning' /\ SubscriptionsMatch' /\ FollowedHasStarted'
      BY <2>2, <2>4, <2>6 DEF ActiveIsRunning, SubscriptionsMatch,
         FollowedHasStarted, Running
    <3>2. FollowersSeeTheLog'
      <4> SUFFICES ASSUME NEW f \in Followers, watching[f] # NoJob
                   PROVE  IF f \in subscribers[watching[f]]
                          THEN stream'[f] = events'[watching[f]]
                          ELSE stream'[f] = Append(events'[watching[f]], End)
        BY <2>2, <2>4, <2>6 DEF FollowersSeeTheLog
      <4>1. watching[f] \in Jobs
        BY DEF RegistryTypeOK
      <4>2. /\ f \in subscribers[active] => watching[f] = active
            /\ f \notin subscribers[watching[f]] => watching[f] # active
        BY <2>1, <4>1 DEF SubscriptionsMatch, FollowedHasStarted
      <4> QED
        BY <2>1, <2>2, <2>4, <2>6, <4>1, <4>2
           DEF FollowersSeeTheLog, RegistryTypeOK
    <3>3. FeedTellsTheTruth'
      BY <2>2, <2>4, <2>6 DEF FeedTellsTheTruth
    <3> QED
      BY <2>5, <3>1, <3>2, <3>3
  <2>7. CASE Terminal(e)
    <3>1. /\ status' = [status EXCEPT ![active] = e.stage]
          /\ subscribers' = [subscribers EXCEPT ![active] = {}]
          /\ \A f \in Followers :
                stream'[f] = IF f \in subscribers[active]
                             THEN Append(str[f], End) ELSE str[f]
          /\ active' = NoJob
          /\ Notify(FALSE, active)
      BY ZenonT(60), <2>1, <2>3, <2>7, FinishCloses DEF Terminal
    <3>2. ActiveIsRunning'
      BY <3>1 DEF ActiveIsRunning
    <3>3. SubscriptionsMatch'
      BY <2>1, <2>2, <3>1 DEF SubscriptionsMatch, Running, RegistryTypeOK
    <3>4. FollowersSeeTheLog'
      <4> SUFFICES ASSUME NEW f \in Followers, watching[f] # NoJob
                   PROVE  IF f \in subscribers'[watching[f]]
                          THEN stream'[f] = events'[watching[f]]
                          ELSE stream'[f] = Append(events'[watching[f]], End)
        BY <2>2 DEF FollowersSeeTheLog
      <4>1. watching[f] \in Jobs
        BY DEF RegistryTypeOK
      <4>2. /\ f \in subscribers[active] => watching[f] = active
            /\ f \notin subscribers[watching[f]] => watching[f] # active
        BY <2>1, <4>1 DEF SubscriptionsMatch, FollowedHasStarted
      <4> QED
        BY <2>1, <2>2, <3>1, <4>1, <4>2 DEF FollowersSeeTheLog, RegistryTypeOK
    <3>5. FeedTellsTheTruth'
      <4> SUFFICES ASSUME NEW w \in activitySubs
                   PROVE  LET last == feed'[w][Len(feed'[w])] IN
                          /\ last.active <=> (active' # NoJob)
                          /\ last.active => last.job = active'
        BY <2>2 DEF FeedTellsTheTruth
      <4>1. feed'[w][Len(feed'[w])] = [active |-> FALSE, job |-> active]
        BY <2>1, <3>1, NotifyIsNewest
      <4> QED
        BY <3>1, <4>1
    <3>6. FollowedHasStarted'
      <4>1. e.stage # "new"
        BY <2>7 DEF Terminal, Verdicts
      <4>2. \A k \in Jobs : /\ status[k] # "new" => status'[k] # "new"
                            /\ active' # k
        BY <2>1, <3>1, <4>1, NoJobAssumption DEF RegistryTypeOK
      <4> QED
        BY <2>2, <4>2 DEF FollowedHasStarted
    <3> QED
      BY <2>5, <3>2, <3>3, <3>4, <3>5, <3>6
  <2> QED
    BY <2>6, <2>7
<1> QED
  BY <1>1, <1>2

LEMMA AttachKeepsInv ==
    ASSUME RegistryInv, RegistryTypeOK', NEW f \in Followers, NEW j \in Jobs,
           Attach(f, j)
    PROVE  RegistryInv'
<1> USE DEF RegistryInv
<1>1. f \notin subscribers[j]
  BY NoJobAssumption DEF Attach, SubscriptionsMatch
<1>2. ActiveIsRunning'
  BY DEF Attach, ActiveIsRunning, Running
<1>3. SubscriptionsMatch'
  <2> SUFFICES ASSUME NEW i \in Jobs, NEW g \in subscribers'[i]
               PROVE  watching'[g] = i /\ status[i] = "running"
    BY DEF Attach, SubscriptionsMatch, Running
  <2>1. CASE g \in subscribers[i]
    <3>1. /\ g \in Followers
          /\ watching[g] = i
          /\ status[i] = "running"
      BY <2>1 DEF SubscriptionsMatch, Running, RegistryTypeOK
    <3>2. g # f
      BY <3>1, NoJobAssumption DEF Attach
    <3> QED
      BY <3>1, <3>2 DEF Attach, RegistryTypeOK
  <2>2. CASE g \notin subscribers[i]
    <3>1. active = j /\ i = j /\ g = f
      BY <2>2 DEF Attach, RegistryTypeOK
    <3> QED
      BY <3>1, NoJobAssumption
         DEF Attach, ActiveIsRunning, Running, RegistryTypeOK
  <2> QED
    BY <2>1, <2>2
<1>4. FollowersSeeTheLog'
  <2> SUFFICES ASSUME NEW g \in Followers, watching'[g] # NoJob
               PROVE  IF g \in subscribers'[watching'[g]]
                      THEN stream'[g] = events[watching'[g]]
                      ELSE stream'[g] = Append(events[watching'[g]], End)
    BY DEF Attach, FollowersSeeTheLog
  <2>1. CASE g = f
    BY <1>1, <2>1 DEF Attach, RegistryTypeOK
  <2>2. CASE g # f
    <3>1. /\ watching'[g] = watching[g]
          /\ stream'[g] = stream[g]
          /\ watching[g] \in Jobs
      BY <2>2 DEF Attach, RegistryTypeOK
    <3>2. g \in subscribers'[watching[g]] <=> g \in subscribers[watching[g]]
      <4>1. CASE active = j
        <5>1. subscribers' = [subscribers EXCEPT ![j] = @ \cup {f}]
          BY <4>1 DEF Attach
        <5>2. subscribers'[watching[g]] = IF watching[g] = j
                                         THEN subscribers[j] \cup {f}
                                         ELSE subscribers[watching[g]]
          BY <3>1, <5>1 DEF RegistryTypeOK
        <5> QED
          BY <2>2, <5>2
      <4>2. CASE active # j
        BY <4>2 DEF Attach
      <4> QED
        BY <4>1, <4>2
    <3> QED
      BY <3>1, <3>2 DEF FollowersSeeTheLog
  <2> QED
    BY <2>1, <2>2
<1>5. NothingAfterTheVerdict' /\ FeedTellsTheTruth'
  BY DEF Attach, NothingAfterTheVerdict, FeedTellsTheTruth, Terminal
<1>6. FollowedHasStarted'
  BY DEF Attach, FollowedHasStarted, RegistryTypeOK
<1> QED
  BY <1>2, <1>3, <1>4, <1>5, <1>6

(* The steps that touch only the flag or the activity channel. *)
LEMMA ChannelKeepsInv ==
    ASSUME RegistryInv, RegistryTypeOK',
           \/ \E j \in Jobs : RequestCancel(j)
           \/ \E w \in Watchers : \/ SubscribeActivity(w)
                                  \/ TakeActivity(w)
                                  \/ UnsubscribeActivity(w)
    PROVE  RegistryInv'
<1> USE DEF RegistryInv
<1>1. /\ UNCHANGED <<active, status, events, subscribers, watching, stream>>
      /\ \/ UNCHANGED <<activitySubs, feed>>
         \/ \E w \in Watchers : \/ SubscribeActivity(w)
                                \/ TakeActivity(w)
                                \/ UnsubscribeActivity(w)
  BY DEF RequestCancel, SubscribeActivity, TakeActivity, UnsubscribeActivity
<1>2. /\ ActiveIsRunning' /\ SubscriptionsMatch' /\ FollowersSeeTheLog'
      /\ NothingAfterTheVerdict' /\ FollowedHasStarted'
  BY <1>1 DEF ActiveIsRunning, SubscriptionsMatch, FollowersSeeTheLog,
     NothingAfterTheVerdict, FollowedHasStarted, Running, Terminal
<1>3. FeedTellsTheTruth'
  <2>1. CASE UNCHANGED <<activitySubs, feed>>
    BY <1>1, <2>1 DEF FeedTellsTheTruth
  <2>2. CASE \E w \in Watchers : SubscribeActivity(w) \/ UnsubscribeActivity(w)
    BY <1>1, <2>2 DEF SubscribeActivity, UnsubscribeActivity, FeedTellsTheTruth,
       RegistryTypeOK
  <2>3. ASSUME NEW w \in Watchers, TakeActivity(w)
        PROVE  FeedTellsTheTruth'
    <3>1. \A v \in activitySubs : v \in Watchers
      BY DEF RegistryTypeOK
    <3>2. /\ feed[w] \in Seq(Frame)
          /\ feed'[w] = Tail(feed[w])
          /\ feed[w] # <<>>
          /\ \A v \in activitySubs : v # w => feed'[v] = feed[v]
          /\ UNCHANGED <<active, activitySubs>>
      BY <2>3, <3>1 DEF TakeActivity, RegistryTypeOK
    <3>3. Tail(feed[w]) # <<>> =>
             Tail(feed[w])[Len(Tail(feed[w]))] = feed[w][Len(feed[w])]
      BY <3>2
    <3> QED
      BY ZenonT(60), <3>2, <3>3 DEF FeedTellsTheTruth
  <2> QED
    BY <1>1, <2>1, <2>2, <2>3
<1> QED
  BY <1>2, <1>3

----------------------------------------------------------------------------
LEMMA StepPreservesInv ==
    RegistryInv /\ [RegistryNext]_registryVars => RegistryInv'
<1> SUFFICES ASSUME RegistryInv, [RegistryNext]_registryVars
             PROVE  RegistryInv'
  OBVIOUS
<1>1. RegistryTypeOK'
  BY StepPreservesType DEF RegistryInv
<1>2. CASE UNCHANGED registryVars
  BY <1>1, <1>2 DEF registryVars, RegistryInv, ActiveIsRunning,
     SubscriptionsMatch, FollowersSeeTheLog, NothingAfterTheVerdict,
     FeedTellsTheTruth, FollowedHasStarted, Running
<1>3. CASE RegistryNext
  BY <1>1, <1>3, StartKeepsInv, EnsureFinishedKeepsInv, PublishKeepsInv,
     AttachKeepsInv, ChannelKeepsInv DEF RegistryNext
<1> QED
  BY <1>2, <1>3

LEMMA RegistryInvHolds == RegistrySpec => []RegistryInv
BY InitEstablishesInv, StepPreservesInv, PTL DEF RegistrySpec

(* The registry's variables keep their types, whoever calls what. *)
THEOREM TypeCorrect == RegistrySpec => []RegistryTypeOK
BY RegistryInvHolds, PTL DEF RegistryInv

(* "Is a job running?" is never answered with a job that has ended. *)
THEOREM ActiveJobRuns == RegistrySpec => []ActiveIsRunning
BY RegistryInvHolds, PTL DEF RegistryInv

(* A connection that attached, at whatever moment, sends the whole log in  *)
(* order, and is told of the end exactly when it has been let go.          *)
THEOREM AttachIsRaceFree == RegistrySpec => [](SubscriptionsMatch /\ FollowersSeeTheLog)
BY RegistryInvHolds, PTL DEF RegistryInv

(* The verdict is the last event of a log, and is the job's status. *)
THEOREM VerdictClosesTheLog == RegistrySpec => []NothingAfterTheVerdict
BY RegistryInvHolds, PTL DEF RegistryInv

(* The newest frame of an activity queue tells what is active. *)
THEOREM NewestFrameIsTrue == RegistrySpec => []FeedTellsTheTruth
BY RegistryInvHolds, PTL DEF RegistryInv

(* No step changes the verdict of a job that has one, or adds to its log. *)
LEMMA StepKeepsVerdicts ==
    ASSUME RegistryInv, [RegistryNext]_registryVars,
           NEW k \in Jobs, status[k] \in Verdicts
    PROVE  status'[k] = status[k] /\ events'[k] = events[k]
<1> USE DEF RegistryInv
<1>1. k # active
  BY NoJobAssumption DEF ActiveIsRunning, Running, Verdicts
<1>2. ASSUME NEW j \in Jobs, StartJob(j)
      PROVE  status'[k] = status[k] /\ events'[k] = events[k]
  BY <1>2 DEF StartJob, Verdicts, RegistryTypeOK
<1>3. ASSUME NEW j \in Jobs, EnsureFinished(j)
      PROVE  status'[k] = status[k] /\ events'[k] = events[k]
  BY <1>3 DEF EnsureFinished, Finish, Running, Verdicts, RegistryTypeOK
<1>4. ASSUME NEW e \in Event, Publish(e)
      PROVE  status'[k] = status[k] /\ events'[k] = events[k]
  BY <1>1, <1>4 DEF Publish, Finish, RegistryTypeOK, registryVars
<1>5. ASSUME NEW f \in Followers, NEW j \in Jobs, Attach(f, j)
      PROVE  status'[k] = status[k] /\ events'[k] = events[k]
  BY <1>5 DEF Attach
<1>6. ASSUME NEW j \in Jobs, RequestCancel(j)
      PROVE  status'[k] = status[k] /\ events'[k] = events[k]
  BY <1>6 DEF RequestCancel
<1>7. ASSUME NEW w \in Watchers,
             SubscribeActivity(w) \/ TakeActivity(w) \/ UnsubscribeActivity(w)
      PROVE  status'[k] = status[k] /\ events'[k] = events[k]
  BY <1>7 DEF SubscribeActivity, TakeActivity, UnsubscribeActivity
<1>8. CASE UNCHANGED registryVars
  BY <1>8 DEF registryVars
<1> QED
  BY <1>2, <1>3, <1>4, <1>5, <1>6, <1>7, <1>8 DEF RegistryNext

THEOREM VerdictsAreFinal == RegistrySpec => VerdictIsFinal
<1>1. RegistryInv /\ [RegistryNext]_registryVars =>
         [\A j \in Jobs : status[j] \in Verdicts =>
            /\ status'[j] = status[j]
            /\ events'[j] = events[j]]_registryVars
  BY StepKeepsVerdicts
<1> QED
  BY <1>1, RegistryInvHolds, PTL DEF RegistrySpec, VerdictIsFinal

----------------------------------------------------------------------------
(* The routes that call it *)

LEMMA EvtType ==
    ASSUME NEW j \in Jobs, NEW stage \in Stages, NEW phase \in Phases
    PROVE  Evt(j, stage, phase) \in Event
BY DEF Evt, Event

(* A put appends to the response of its own request. *)
LEMMA SayType ==
    ASSUME UploadTypeOK, NEW j \in Jobs, NEW e \in Event, Say(j, e)
    PROVE  response' \in [Jobs -> Seq(Event \cup {End})]
<1>1. /\ response \in [Jobs -> Seq(Event \cup {End})]
      /\ e \in Event \cup {End}
  BY DEF UploadTypeOK
<1>2. Append(response[j], e) \in Seq(Event \cup {End})
  BY <1>1
<1>3. response' = [response EXCEPT ![j] = Append(@, e)]
  BY DEF Say
<1> QED
  BY <1>1, <1>2, <1>3

LEMMA ConcludeType ==
    ASSUME UploadTypeOK, NEW j \in Jobs, NEW verdict \in Verdicts,
           Conclude(j, verdict)
    PROVE  /\ response' \in [Jobs -> Seq(Event \cup {End})]
           /\ pc' = [pc EXCEPT ![j] = "closing"]
           /\ Publish(Evt(j, verdict, "none"))
<1>1. Evt(j, verdict, "none") \in Event
  BY EvtType DEF Stages, Phases
<1>2. Say(j, Evt(j, verdict, "none"))
  BY DEF Conclude
<1> QED
  BY <1>1, <1>2, SayType DEF Conclude, Goto, Say

LEMMA ProgressType ==
    ASSUME UploadTypeOK, NEW j \in Jobs, NEW phase \in Phases,
           Say(j, Evt(j, "progress", phase))
    PROVE  /\ response' \in [Jobs -> Seq(Event \cup {End})]
           /\ Publish(Evt(j, "progress", phase))
<1>1. Evt(j, "progress", phase) \in Event
  BY EvtType DEF Stages
<1> QED
  BY <1>1, SayType DEF Say

----------------------------------------------------------------------------
LEMMA InitEstablishesUploadType == Init => UploadTypeOK
<1> SUFFICES ASSUME Init PROVE UploadTypeOK
  OBVIOUS
<1>1. response \in [Jobs -> Seq(Event \cup {End})]
  BY DEF Init
<1> QED
  BY <1>1 DEF Init, UploadTypeOK, Resting, NoFrame

LEMMA RoutesKeepType ==
    ASSUME UploadAssumption, UploadTypeOK, NEW j \in Jobs, Route(j) \/ Client(j)
    PROVE  UploadTypeOK'
<1> USE DEF Goto, producerVars, watcherVars, UploadTypeOK, AtWork, Resting
<1>1. CASE Refuse(j)
  BY <1>1 DEF Refuse
<1>2. CASE BeginRead(j)
  BY <1>2 DEF BeginRead
<1>3. CASE Start(j)
  BY <1>3 DEF Start
<1>4. CASE Client(j)
  BY <1>4 DEF Client, Cancel, ClientLeaves
<1> QED
  BY <1>1, <1>2, <1>3, <1>4 DEF Route

LEMMA ProducerKeepsType ==
    ASSUME UploadAssumption, UploadTypeOK, NEW j \in Jobs, Producer(j)
    PROVE  UploadTypeOK'
<1> USE DEF Goto, watcherVars
<1>1. CASE BeginTranscribe(j)
  <2>1. response' \in [Jobs -> Seq(Event \cup {End})]
    BY <1>1, ProgressType DEF BeginTranscribe, Phases
  <2> QED
    BY <1>1, <2>1 DEF BeginTranscribe, UploadTypeOK, AtWork
<1>2. CASE DiarizerReports(j)
  <2>1. response' \in [Jobs -> Seq(Event \cup {End})]
    BY <1>2, ProgressType, ConcludeType DEF DiarizerReports, Phases, Verdicts
  <2>2. pc' = pc \/ pc' = [pc EXCEPT ![j] = "closing"]
    BY <1>2 DEF DiarizerReports, Conclude
  <2>3. ticks' = ticks \/ ticks' = [ticks EXCEPT ![j] = @ + 1]
    BY <1>2 DEF DiarizerReports
  <2>4. UNCHANGED <<thread, scheduled, segmented, saved, gone, watcherVars>>
    BY <1>2 DEF DiarizerReports
  <2>5. ticks' \in [Jobs -> Nat]
    BY <2>3 DEF UploadTypeOK
  <2> QED
    BY <2>1, <2>2, <2>4, <2>5 DEF UploadTypeOK
<1>3. ASSUME NEW found \in BOOLEAN, DiarizerReturns(j, found)
      PROVE  UploadTypeOK'
  <2>1. response' \in [Jobs -> Seq(Event \cup {End})]
    BY <1>3, ProgressType, ConcludeType DEF DiarizerReturns, Phases, Verdicts
  <2>2. \/ pc' = [pc EXCEPT ![j] = "handoff"]
        \/ pc' = [pc EXCEPT ![j] = "closing"]
    BY <1>3 DEF DiarizerReturns, Conclude
  <2>3. segmented' = [segmented EXCEPT ![j] = found]
    BY <1>3 DEF DiarizerReturns
  <2>4. UNCHANGED <<ticks, thread, scheduled, saved, gone, watcherVars>>
    BY <1>3 DEF DiarizerReturns
  <2> QED
    BY <2>1, <2>2, <2>3, <2>4 DEF UploadTypeOK, AtWork
<1>4. CASE HandOff(j)
  <2>1. response' \in [Jobs -> Seq(Event \cup {End})]
    BY <1>4, ProgressType, ConcludeType DEF HandOff, Phases, Verdicts
  <2> QED
    BY <1>4, <2>1 DEF HandOff, Conclude, UploadTypeOK, AtWork
<1>5. CASE BeginDecode(j)
  <2>1. response' \in [Jobs -> Seq(Event \cup {End})]
    BY <1>5, ProgressType DEF BeginDecode, Phases
  <2> QED
    BY <1>5, <2>1 DEF BeginDecode, UploadTypeOK, AtWork
<1>6. CASE DecodeWhole(j)
  <2>1. response' \in [Jobs -> Seq(Event \cup {End})]
    BY <1>6, ConcludeType DEF DecodeWhole, Verdicts
  <2> QED
    BY <1>6, <2>1 DEF DecodeWhole, Conclude, UploadTypeOK
<1>7. CASE Resume(j)
  <2>1. response' \in [Jobs -> Seq(Event \cup {End})]
    BY <1>7, ConcludeType DEF Resume, Verdicts
  <2> QED
    BY <1>7, <2>1 DEF Resume, Conclude, UploadTypeOK
<1>8. CASE BeginLibraryPass(j)
  BY <1>8 DEF BeginLibraryPass, UploadTypeOK, AtWork
<1>9. ASSUME NEW n \in 0 .. Ticks, NEW verdict \in {"done", "error"},
             SpeakerPass(j, n, verdict)
      PROVE  UploadTypeOK'
  <2>1. response' \in [Jobs -> Seq(Event \cup {End})]
    BY <1>9, ConcludeType DEF SpeakerPass, Verdicts
  <2>2. n \in Nat
    BY DEF UploadAssumption
  <2> QED
    BY <1>9, <2>1, <2>2 DEF SpeakerPass, Conclude, UploadTypeOK
<1>10. CASE Fails(j)
  <2>1. response' \in [Jobs -> Seq(Event \cup {End})]
    BY <1>10, ConcludeType DEF Fails, Verdicts
  <2> QED
    BY <1>10, <2>1 DEF Fails, Conclude, UploadTypeOK
<1>11. CASE Close(j)
  <2>1. Append(response[j], End) \in Seq(Event \cup {End})
    BY DEF UploadTypeOK
  <2>2. response' \in [Jobs -> Seq(Event \cup {End})]
    BY <1>11, <2>1 DEF Close, UploadTypeOK
  <2> QED
    BY <1>11, <2>2 DEF Close, UploadTypeOK, Resting
<1> QED
  BY <1>1, <1>2, <1>3, <1>4, <1>5, <1>6, <1>7, <1>8, <1>9, <1>10, <1>11
     DEF Producer

LEMMA ThreadKeepsType ==
    ASSUME UploadTypeOK, NEW j \in Jobs, PoolThread(j) \/ EmitScheduled(j)
    PROVE  UploadTypeOK'
<1> USE DEF watcherVars
<1>1. CASE ThreadReports(j)
  <2>1. \/ thread' = [thread EXCEPT ![j] = "cancelled"]
           /\ UNCHANGED <<ticks, scheduled>>
        \/ /\ ticks' = [ticks EXCEPT ![j] = @ + 1]
           /\ scheduled' = [scheduled EXCEPT ![j] = @ + 1]
           /\ UNCHANGED thread
    BY <1>1 DEF ThreadReports
  <2>2. UNCHANGED <<pc, segmented, response, saved, gone, watcherVars>>
    BY <1>1 DEF ThreadReports
  <2>3. /\ thread' \in [Jobs -> {"none", "running", "ok", "failed", "cancelled"}]
        /\ ticks' \in [Jobs -> Nat]
        /\ scheduled' \in [Jobs -> Nat]
    <3>1. ticks[j] + 1 \in Nat /\ scheduled[j] + 1 \in Nat
      BY DEF UploadTypeOK
    <3>2. thread' = thread \/ thread' = [thread EXCEPT ![j] = "cancelled"]
      BY <2>1
    <3>3. ticks' = ticks \/ ticks' = [ticks EXCEPT ![j] = @ + 1]
      BY <2>1
    <3>4. scheduled' = scheduled \/ scheduled' = [scheduled EXCEPT ![j] = @ + 1]
      BY <2>1
    <3>5. thread' \in [Jobs -> {"none", "running", "ok", "failed", "cancelled"}]
      BY <3>2 DEF UploadTypeOK
    <3>6. ticks' \in [Jobs -> Nat]
      BY <3>1, <3>3 DEF UploadTypeOK
    <3>7. scheduled' \in [Jobs -> Nat]
      BY <3>1, <3>4 DEF UploadTypeOK
    <3> QED
      BY <3>5, <3>6, <3>7
  <2> QED
    BY <2>2, <2>3 DEF UploadTypeOK
<1>2. ASSUME NEW outcome \in {"ok", "failed"}, ThreadReturns(j, outcome)
      PROVE  UploadTypeOK'
  BY <1>2 DEF ThreadReturns, UploadTypeOK
<1>3. CASE EmitScheduled(j)
  <2>1. response' \in [Jobs -> Seq(Event \cup {End})]
    BY <1>3, ProgressType DEF EmitScheduled, Phases
  <2>2. scheduled[j] \in Nat /\ scheduled[j] - 1 \in Nat
    BY <1>3 DEF EmitScheduled, UploadTypeOK
  <2> QED
    BY <1>3, <2>1, <2>2 DEF EmitScheduled, UploadTypeOK
<1> QED
  BY <1>1, <1>2, <1>3 DEF PoolThread

(* _own_job answers with a frame the connection can send. *)
LEMMA OwnJobType ==
    ASSUME NEW w \in Watchers, NEW j \in Jobs \cup {NoJob}
    PROVE  OwnJob(w, j) \in [active : BOOLEAN, job : Jobs \cup {NoJob}]
BY DEF OwnJob, NoFrame

LEMMA ConnectionKeepsType ==
    ASSUME RegistryTypeOK, UploadTypeOK, NEW w \in Watchers, Connection(w)
    PROVE  UploadTypeOK'
<1> USE DEF producerVars
<1>1. CASE Watch(w)
  BY <1>1 DEF Watch, UploadTypeOK
<1>2. CASE Snapshot(w)
  <2>1. OwnJob(w, active) \in [active : BOOLEAN, job : Jobs \cup {NoJob}]
    BY OwnJobType DEF RegistryTypeOK
  <2> QED
    BY <1>2, <2>1 DEF Snapshot, UploadTypeOK
<1>3. CASE Deliver(w)
  <2>1. Head(feed[w]) \in Frame
    BY <1>3 DEF Deliver, TakeActivity, RegistryTypeOK
  <2>2. /\ Head(feed[w]) \in [active : BOOLEAN, job : Jobs \cup {NoJob}]
        /\ Head(feed[w]).job \in Jobs
    BY <2>1 DEF Frame
  <2>3. OwnJob(w, Head(feed[w]).job)
           \in [active : BOOLEAN, job : Jobs \cup {NoJob}]
    BY <2>2, OwnJobType
  <2>4. shown' \in [Watchers -> [active : BOOLEAN, job : Jobs \cup {NoJob}]]
    BY <1>3, <2>2, <2>3 DEF Deliver, UploadTypeOK
  <2> QED
    BY <1>3, <2>4 DEF Deliver, UploadTypeOK
<1>4. CASE WatcherLeaves(w)
  BY <1>4 DEF WatcherLeaves, UploadTypeOK
<1> QED
  BY <1>1, <1>2, <1>3, <1>4 DEF Connection

LEMMA StepPreservesUploadType ==
    ASSUME UploadAssumption, RegistryTypeOK, UploadTypeOK, [Next]_vars
    PROVE  UploadTypeOK'
<1>1. ASSUME NEW f \in Followers, Follow(f) PROVE UploadTypeOK'
  BY <1>1 DEF Follow, producerVars, watcherVars, UploadTypeOK
<1>2. CASE UNCHANGED vars
  BY <1>2 DEF vars, producerVars, watcherVars, UploadTypeOK
<1> QED
  BY <1>1, <1>2, RoutesKeepType, ProducerKeepsType, ThreadKeepsType,
     ConnectionKeepsType DEF Next, Quiet

----------------------------------------------------------------------------
(* Every step of a caller is a step of the registry, or none. *)
LEMMA CallsAreRegistrySteps ==
    ASSUME RegistryTypeOK, UploadTypeOK, [Next]_vars
    PROVE  [RegistryNext]_registryVars
<1>1. ASSUME NEW j \in Jobs, Route(j) \/ Client(j)
      PROVE  [RegistryNext]_registryVars
  BY <1>1 DEF Route, Client, Refuse, BeginRead, Start, Cancel, ClientLeaves,
     RegistryNext
<1>2. ASSUME NEW j \in Jobs, NEW verdict \in Verdicts, Conclude(j, verdict)
      PROVE  [RegistryNext]_registryVars
  <2>1. Evt(j, verdict, "none") \in Event
    BY EvtType DEF Stages, Phases
  <2> QED
    BY <1>2, <2>1 DEF Conclude, Say, RegistryNext
<1>3. ASSUME NEW j \in Jobs, NEW phase \in Phases,
             Say(j, Evt(j, "progress", phase))
      PROVE  [RegistryNext]_registryVars
  <2>1. Evt(j, "progress", phase) \in Event
    BY EvtType DEF Stages
  <2> QED
    BY <1>3, <2>1 DEF Say, RegistryNext
<1>4. ASSUME NEW j \in Jobs, Producer(j)
      PROVE  [RegistryNext]_registryVars
  <2> USE DEF Phases, Verdicts
  <2>1. CASE BeginTranscribe(j)
    BY <1>3, <2>1 DEF BeginTranscribe
  <2>2. CASE DiarizerReports(j)
    BY <1>2, <1>3, <2>2 DEF DiarizerReports
  <2>3. ASSUME NEW found \in BOOLEAN, DiarizerReturns(j, found)
        PROVE  [RegistryNext]_registryVars
    BY <1>2, <1>3, <2>3 DEF DiarizerReturns
  <2>4. CASE HandOff(j)
    BY <1>2, <1>3, <2>4 DEF HandOff
  <2>5. CASE BeginDecode(j)
    BY <1>3, <2>5 DEF BeginDecode
  <2>6. CASE DecodeWhole(j)
    BY <1>2, <2>6 DEF DecodeWhole
  <2>7. CASE Resume(j)
    BY <1>2, <2>7 DEF Resume
  <2>8. CASE BeginLibraryPass(j)
    BY <2>8 DEF BeginLibraryPass
  <2>9. ASSUME NEW n \in 0 .. Ticks, NEW verdict \in {"done", "error"},
               SpeakerPass(j, n, verdict)
        PROVE  [RegistryNext]_registryVars
    BY <1>2, <2>9 DEF SpeakerPass
  <2>10. CASE Fails(j)
    BY <1>2, <2>10 DEF Fails
  <2>11. CASE Close(j)
    BY <2>11 DEF Close, RegistryNext
  <2> QED
    BY <1>4, <2>1, <2>2, <2>3, <2>4, <2>5, <2>6, <2>7, <2>8, <2>9, <2>10, <2>11
       DEF Producer
<1>5. ASSUME NEW j \in Jobs, PoolThread(j) PROVE [RegistryNext]_registryVars
  BY <1>5 DEF PoolThread, ThreadReports, ThreadReturns
<1>6. ASSUME NEW j \in Jobs, EmitScheduled(j) PROVE [RegistryNext]_registryVars
  BY <1>3, <1>6 DEF EmitScheduled, Phases
<1>7. ASSUME NEW f \in Followers, Follow(f) PROVE [RegistryNext]_registryVars
  BY <1>7 DEF Follow, Busy, RegistryTypeOK, RegistryNext
<1>8. ASSUME NEW w \in Watchers, Connection(w)
      PROVE  [RegistryNext]_registryVars
  BY <1>8 DEF Connection, Watch, Snapshot, Deliver, WatcherLeaves, RegistryNext
<1>9. CASE UNCHANGED vars
  BY <1>9 DEF vars
<1> QED
  BY <1>1, <1>4, <1>5, <1>6, <1>7, <1>8, <1>9 DEF Next, Quiet

LEMMA TypesHold == Spec => [](RegistryTypeOK /\ UploadTypeOK)
<1>1. Init => RegistryTypeOK /\ UploadTypeOK
  BY InitEstablishesInv, InitEstablishesUploadType DEF Init, RegistryInv
<1>2. RegistryTypeOK /\ UploadTypeOK /\ [Next]_vars =>
         (RegistryTypeOK /\ UploadTypeOK)'
  <2> SUFFICES ASSUME RegistryTypeOK, UploadTypeOK, [Next]_vars
               PROVE  (RegistryTypeOK /\ UploadTypeOK)'
    OBVIOUS
  <2> QED
    BY UploadAssumption, CallsAreRegistrySteps, StepPreservesType,
       StepPreservesUploadType
<1> QED
  BY <1>1, <1>2, PTL DEF Spec

(* The producers' variables keep their types. *)
THEOREM UploadTypeCorrect == Spec => []UploadTypeOK
BY TypesHold, PTL

(* The routes, producers and connections use the registry as it is meant to*)
(* be used, so that everything proved of the registry holds of them.       *)
THEOREM CallersImplementRegistry == Spec => RegistrySpec
<1>1. RegistryTypeOK /\ UploadTypeOK /\ [Next]_vars => [RegistryNext]_registryVars
  BY CallsAreRegistrySteps
<1>2. Init => RegistryInit
  BY DEF Init
<1> QED
  BY <1>1, <1>2, TypesHold, PTL DEF Spec, RegistrySpec

LEMMA UploadsKeepRegistryInv == Spec => []RegistryInv
BY CallersImplementRegistry, RegistryInvHolds, PTL

----------------------------------------------------------------------------
(* What an activity connection shows.  A step that changes which job is    *)
(* active puts a frame on every queue.                                     *)
Feeds ==
    /\ activitySubs' = activitySubs
    /\ \/ UNCHANGED <<active, feed>>
       \/ \A w \in activitySubs : feed'[w] # <<>>

LEMMA NotifyFeeds ==
    ASSUME RegistryTypeOK, NEW isActive, NEW j, Notify(isActive, j)
    PROVE  \A w \in activitySubs : feed'[w] # <<>>
<1> SUFFICES ASSUME NEW w \in activitySubs PROVE feed'[w] # <<>>
  OBVIOUS
<1> DEFINE frame == [active |-> isActive, job |-> j]
<1>1. w \in Watchers /\ feed[w] \in Seq(Frame)
  BY DEF RegistryTypeOK
<1>2. feed'[w] = Append(feed[w], frame)
  BY <1>1 DEF Notify
<1>3. Append(feed[w], frame) # <<>>
  <2> HIDE DEF frame
  <2>1. feed[w] \in Seq(Frame \cup {frame})
    BY <1>1
  <2>2. Len(Append(feed[w], frame)) = Len(feed[w]) + 1 /\ Len(feed[w]) \in Nat
    BY <2>1
  <2>3. Len(<<>>) = 0
    OBVIOUS
  <2> QED
    BY <2>2, <2>3
<1> QED
  BY <1>2, <1>3

LEMMA FinishFeeds ==
    ASSUME RegistryTypeOK, NEW j, NEW verdict, NEW str, Finish(j, verdict, str)
    PROVE  UNCHANGED <<active, feed>> \/ \A w \in activitySubs : feed'[w] # <<>>
<1>1. CASE Running(j) /\ active = j
  BY <1>1, NotifyFeeds DEF Finish
<1>2. CASE ~(Running(j) /\ active = j)
  BY <1>2 DEF Finish
<1> QED
  BY <1>1, <1>2

LEMMA SayFeeds ==
    ASSUME RegistryTypeOK, NEW j, NEW e, Say(j, e)
    PROVE  Feeds
<1>1. Publish(e)
  BY DEF Say
<1>2. CASE active = NoJob
  BY <1>1, <1>2 DEF Publish, registryVars, Feeds
<1>3. CASE active # NoJob
  <2>1. activitySubs' = activitySubs
    BY <1>1, <1>3 DEF Publish
  <2>2. \/ Finish(active, e.stage, Forward(stream, active, e))
        \/ UNCHANGED <<active, feed>>
    BY <1>1, <1>3 DEF Publish
  <2> QED
    BY <2>1, <2>2, FinishFeeds DEF Feeds
<1> QED
  BY <1>2, <1>3

(* Every step but a connection's own. *)
LEMMA OthersFeed ==
    ASSUME RegistryTypeOK, [Next]_vars, ~\E w \in Watchers : Connection(w)
    PROVE  Feeds /\ UNCHANGED <<watcher, shown>>
<1>1. ASSUME NEW j \in Jobs, Route(j)
      PROVE  Feeds /\ UNCHANGED <<watcher, shown>>
  <2>1. CASE Start(j)
    BY <2>1, NotifyFeeds DEF Start, StartJob, Feeds, watcherVars
  <2>2. CASE Refuse(j) \/ BeginRead(j)
    BY <2>2 DEF Refuse, BeginRead, registryVars, watcherVars, Feeds
  <2> QED
    BY <1>1, <2>1, <2>2 DEF Route
<1>2. ASSUME NEW j \in Jobs, Client(j)
      PROVE  Feeds /\ UNCHANGED <<watcher, shown>>
  BY <1>2 DEF Client, Cancel, RequestCancel, ClientLeaves, registryVars, watcherVars,
     Feeds
<1>3. ASSUME NEW j \in Jobs, Producer(j)
      PROVE  Feeds /\ UNCHANGED <<watcher, shown>>
  <2>1. UNCHANGED <<watcher, shown>>
    BY <1>3 DEF Producer, BeginTranscribe, DiarizerReports, DiarizerReturns, HandOff,
       BeginDecode, DecodeWhole, Resume, BeginLibraryPass, SpeakerPass, Fails, Close,
       watcherVars
  <2>2. CASE Close(j)
    BY <2>1, <2>2, FinishFeeds DEF Close, EnsureFinished, Feeds
  <2>3. CASE BeginLibraryPass(j)
    BY <2>1, <2>3 DEF BeginLibraryPass, registryVars, Feeds
  <2>4. CASE ~Close(j) /\ ~BeginLibraryPass(j)
    <3>1. \E e : Say(j, e)
      BY <1>3, <2>4 DEF Producer, BeginTranscribe, DiarizerReports, DiarizerReturns,
         HandOff, BeginDecode, DecodeWhole, Resume, SpeakerPass, Fails, Conclude
    <3> QED
      BY <2>1, <3>1, SayFeeds
  <2> QED
    BY <2>2, <2>3, <2>4
<1>4. ASSUME NEW j \in Jobs, PoolThread(j)
      PROVE  Feeds /\ UNCHANGED <<watcher, shown>>
  BY <1>4 DEF PoolThread, ThreadReports, ThreadReturns, registryVars, watcherVars, Feeds
<1>5. ASSUME NEW j \in Jobs, EmitScheduled(j)
      PROVE  Feeds /\ UNCHANGED <<watcher, shown>>
  BY <1>5, SayFeeds DEF EmitScheduled, watcherVars
<1>6. ASSUME NEW f \in Followers, Follow(f)
      PROVE  Feeds /\ UNCHANGED <<watcher, shown>>
  BY <1>6 DEF Follow, Attach, watcherVars, Feeds
<1>7. CASE UNCHANGED vars
  BY <1>7 DEF vars, registryVars, watcherVars, Feeds
<1> QED
  BY <1>1, <1>2, <1>3, <1>4, <1>5, <1>6, <1>7 DEF Next, Quiet

(* A connection that has subscribed has a queue until it leaves. *)
StreamsAreSubscribed ==
    \A w \in Watchers : watcher[w] \in {"subscribed", "streaming"} => w \in activitySubs

LEMMA ConnectionTellsTheTruth ==
    ASSUME UploadAssumption, RegistryInv, UploadTypeOK, StreamsAreSubscribed,
           ActivityTellsTheTruth, NEW w \in Watchers, Connection(w)
    PROVE  StreamsAreSubscribed' /\ ActivityTellsTheTruth'
<1> USE DEF StreamsAreSubscribed, ActivityTellsTheTruth, OwnBusy, UploadTypeOK,
        RegistryInv, RegistryTypeOK
<1>1. CASE Watch(w)
  BY <1>1 DEF Watch, SubscribeActivity
<1>2. CASE Snapshot(w)
  BY <1>2 DEF Snapshot, registryVars, OwnJob, NoFrame
<1>3. CASE Deliver(w)
  <2>1. /\ watcher[w] = "streaming" /\ w \in activitySubs /\ feed[w] # <<>>
        /\ feed' = [feed EXCEPT ![w] = Tail(@)]
        /\ UNCHANGED <<active, activitySubs, watcher>>
        /\ shown' = [shown EXCEPT ![w] = IF Head(feed[w]).active
                                         THEN OwnJob(w, Head(feed[w]).job)
                                         ELSE Head(feed[w])]
    BY <1>3 DEF Deliver, TakeActivity
  <2>2. StreamsAreSubscribed'
    BY <2>1
  <2>3. ASSUME Tail(feed[w]) = <<>> PROVE shown'[w].active <=> OwnBusy(WatcherUser[w])
    <3>1. feed[w] \in Seq(Frame) /\ Len(feed[w]) = 1
      <4>1. feed[w] \in Seq(Frame) /\ feed[w] # <<>>
        BY <2>1
      <4>2. Len(Tail(feed[w])) = Len(feed[w]) - 1 /\ Len(feed[w]) \in Nat
        BY <4>1, HeadTailProperties
      <4>3. Len(feed[w]) - 1 = 0
        BY <2>3, <4>2, EmptySeq
      <4> DEFINE n == Len(feed[w])
      <4>4. n \in Nat /\ n - 1 = 0
        BY <4>2, <4>3
      <4> HIDE DEF n
      <4>5. n = 1
        BY <4>4
      <4> QED
        BY <4>1, <4>5 DEF n
    <3>2. Head(feed[w]) = feed[w][Len(feed[w])]
      BY <3>1
    <3>3. /\ Head(feed[w]).active <=> (active # NoJob)
          /\ Head(feed[w]).active => Head(feed[w]).job = active
      BY <2>1, <3>2 DEF FeedTellsTheTruth
    <3> QED
      BY <2>1, <3>3 DEF OwnJob, NoFrame
  <2>4. ActivityTellsTheTruth'
    BY <2>1, <2>3
  <2> QED
    BY <2>2, <2>4
<1>4. CASE WatcherLeaves(w)
  BY <1>4 DEF WatcherLeaves, UnsubscribeActivity, registryVars
<1> QED
  BY <1>1, <1>2, <1>3, <1>4 DEF Connection

(* Whatever the requests are and however they overlap, an activity page    *)
(* that has read its queue shows the truth.                                *)
THEOREM ActivityIsTold == Spec => []ActivityTellsTheTruth
<1>1. Init => StreamsAreSubscribed /\ ActivityTellsTheTruth
  BY DEF Init, StreamsAreSubscribed, ActivityTellsTheTruth
<1>2. RegistryInv /\ UploadTypeOK /\ StreamsAreSubscribed /\ ActivityTellsTheTruth
        /\ [Next]_vars => (StreamsAreSubscribed /\ ActivityTellsTheTruth)'
  <2> SUFFICES ASSUME RegistryInv, UploadTypeOK, StreamsAreSubscribed,
                      ActivityTellsTheTruth, [Next]_vars
               PROVE  StreamsAreSubscribed' /\ ActivityTellsTheTruth'
    OBVIOUS
  <2>1. CASE \E w \in Watchers : Connection(w)
    BY <2>1, ConnectionTellsTheTruth, UploadAssumption
  <2>2. CASE ~\E w \in Watchers : Connection(w)
    <3>1. Feeds /\ UNCHANGED <<watcher, shown>>
      BY <2>2, OthersFeed DEF RegistryInv
    <3> QED
      BY <3>1 DEF Feeds, StreamsAreSubscribed, ActivityTellsTheTruth, OwnBusy
  <2> QED
    BY <2>1, <2>2
<1> QED
  BY <1>1, <1>2, UploadsKeepRegistryInv, UploadTypeCorrect, PTL DEF Spec

----------------------------------------------------------------------------
(* A pool thread that does not decode works for a pass over the library. *)
WorkIsAPass == \A j \in Jobs : pc[j] = "working" => Mode[j] = "library"

LEMMA StepKeepsWorkIsAPass ==
    ASSUME UploadTypeOK, WorkIsAPass, [Next]_vars
    PROVE  WorkIsAPass'
<1> USE DEF WorkIsAPass, Goto, UploadTypeOK
<1>1. ASSUME NEW j \in Jobs, Route(j) \/ Client(j) PROVE WorkIsAPass'
  BY <1>1 DEF Route, Client, Refuse, BeginRead, Start, Cancel, ClientLeaves,
     producerVars
<1>2. ASSUME NEW j \in Jobs, Producer(j) PROVE WorkIsAPass'
  BY <1>2 DEF Producer, BeginTranscribe, DiarizerReports, DiarizerReturns, HandOff,
     BeginDecode, DecodeWhole, Resume, BeginLibraryPass, SpeakerPass, Fails, Close,
     Conclude
<1>3. ASSUME NEW j \in Jobs, PoolThread(j) \/ EmitScheduled(j) PROVE WorkIsAPass'
  BY <1>3 DEF PoolThread, ThreadReports, ThreadReturns, EmitScheduled
<1>4. CASE UNCHANGED pc
  BY <1>4
<1> QED
  BY <1>1, <1>2, <1>3, <1>4 DEF Next, Quiet, vars, producerVars, Follow, Connection,
     Watch, Snapshot, Deliver, WatcherLeaves

LEMMA WorkIsAPassHolds == Spec => []WorkIsAPass
<1>1. Init => WorkIsAPass
  BY DEF Init, WorkIsAPass
<1> QED
  BY <1>1, StepKeepsWorkIsAPass, UploadTypeCorrect, PTL DEF Spec

(* The event that ends a response is the newest one on it. *)
LEMMA ConcludeIsNewest ==
    ASSUME UploadTypeOK, NEW j \in Jobs, NEW verdict \in Verdicts,
           Conclude(j, verdict)
    PROVE  response'[j][Len(response'[j])].stage = verdict
<1> DEFINE e == Evt(j, verdict, "none")
<1>1. /\ response[j] \in Seq(Event \cup {End})
      /\ response'[j] = Append(response[j], e)
      /\ e \in Event /\ e.stage = verdict
  BY EvtType DEF UploadTypeOK, Conclude, Say, Stages, Phases, Evt
<1> HIDE DEF e
<1>2. /\ Len(response'[j]) = Len(response[j]) + 1
      /\ response'[j][Len(response[j]) + 1] = e
  BY <1>1
<1> QED
  BY <1>1, <1>2

(* Whoever leaves before the result finds it kept, for any requests: it is *)
(* the decode's own last step that looks at the flag, not an earlier one.  *)
THEOREM LeaversFindTheirResults == Spec => LeaversResultsAreSaved
<1> DEFINE Leaves(j) == /\ gone[j] /\ Mode[j] = "transcribe" /\ pc[j] \in AtWork
                        /\ pc'[j] = "closing"
                        /\ response'[j][Len(response'[j])].stage = "done"
<1>1. ASSUME UploadTypeOK, WorkIsAPass, [Next]_vars, NEW j \in Jobs, Leaves(j)
      PROVE  saved'[j]
  <2>1. Producer(j)
    <3>1. pc[j] # "closing" /\ pc'[j] = "closing"
      BY <1>1 DEF AtWork
    <3>2. ASSUME NEW i \in Jobs, Route(i) PROVE FALSE
      BY <1>1, <3>1, <3>2 DEF Route, Refuse, BeginRead, Start, Goto, UploadTypeOK
    <3>3. ASSUME NEW i \in Jobs, Client(i) \/ PoolThread(i) \/ EmitScheduled(i)
          PROVE  FALSE
      BY <3>1, <3>3 DEF Client, Cancel, ClientLeaves, PoolThread, ThreadReports,
         ThreadReturns, EmitScheduled, producerVars
    <3>4. ASSUME NEW i \in Jobs, Producer(i), i # j PROVE FALSE
      <4>1. UNCHANGED pc \/ \E where : Goto(i, where)
        BY <3>4 DEF Producer, BeginTranscribe, DiarizerReports, DiarizerReturns,
           HandOff, BeginDecode, DecodeWhole, Resume, BeginLibraryPass, SpeakerPass,
           Fails, Close, Conclude
      <4> QED
        BY <1>1, <3>1, <3>4, <4>1 DEF Goto, UploadTypeOK
    <3>5. ~UNCHANGED pc
      BY <3>1
    <3> QED
      BY <1>1, <3>2, <3>3, <3>4, <3>5 DEF Next, Quiet, vars, producerVars, Follow,
         Connection, Watch, Snapshot, Deliver, WatcherLeaves
  <2>2. ASSUME NEW verdict \in Verdicts, Conclude(j, verdict) PROVE verdict = "done"
    BY <1>1, <2>2, ConcludeIsNewest
  <2>3. ~Conclude(j, "error") /\ ~Conclude(j, "cancelled")
    BY <2>2 DEF Verdicts
  <2>4. pc[j] # "closing" /\ pc'[j] = "closing" /\ gone[j] /\ Mode[j] = "transcribe"
    BY <1>1 DEF AtWork
  <2>5. DecodeWhole(j) \/ Resume(j)
    BY <1>1, <2>1, <2>3, <2>4 DEF Producer, BeginTranscribe, DiarizerReports,
       DiarizerReturns, HandOff, BeginDecode, BeginLibraryPass, SpeakerPass, Fails,
       Close, Goto, UploadTypeOK
  <2>6. CASE DecodeWhole(j)
    BY <1>1, <2>4, <2>6 DEF DecodeWhole, UploadTypeOK
  <2>7. CASE Resume(j)
    <3>1. pc[j] = "decoding"
      BY <1>1, <2>4, <2>7 DEF Resume, WorkIsAPass
    <3> QED
      BY <1>1, <2>3, <2>4, <2>7, <3>1 DEF Resume, UploadTypeOK
  <2> QED
    BY <2>5, <2>6, <2>7
<1>2. UploadTypeOK /\ WorkIsAPass /\ [Next]_vars =>
        [\A j \in Jobs : gone[j] /\ Mode[j] = "transcribe" /\ pc[j] \in AtWork
                           /\ pc'[j] = "closing"
                           /\ response'[j][Len(response'[j])].stage = "done"
                         => saved'[j]]_vars
  BY <1>1
<1> QED
  BY <1>2, UploadTypeCorrect, WorkIsAPassHolds, PTL DEF Spec, LeaversResultsAreSaved

----------------------------------------------------------------------------
(* From here on the requests are Exclusive.                                *)
(*                                                                         *)
(* A producer's thread, and the callbacks it scheduled, exist only while   *)
(* the producer waits for them: nothing reports for a producer that ended. *)
WaitsForItsThread ==
    \A j \in Jobs : thread[j] # "none" \/ scheduled[j] > 0 =>
                      pc[j] \in {"decoding", "working"}

(* Where a producer stands says what the registry knows of its job. *)
PcTellsStatus ==
    \A j \in Jobs :
        /\ pc[j] \in {"idle", "refused"} => status[j] = "new"
        /\ pc[j] \in AtWork => active = j
        /\ pc[j] \in {"closing", "finished"} => status[j] \in Verdicts
        /\ pc[j] # "reading"

(* The inductive invariant *)
SerialInv == WaitsForItsThread /\ PcTellsStatus /\ LogMirrorsResponse

LEMMA InitEstablishesSerialInv == Init => SerialInv
<1> SUFFICES ASSUME Init PROVE SerialInv
  OBVIOUS
<1>1. WaitsForItsThread
  BY DEF Init, WaitsForItsThread
<1>2. PcTellsStatus
  BY DEF Init, RegistryInit, PcTellsStatus, AtWork
<1>3. LogMirrorsResponse
  BY DEF Init, RegistryInit, LogMirrorsResponse
<1> QED
  BY <1>1, <1>2, <1>3 DEF SerialInv

LEMMA StepKeepsThreads ==
    ASSUME UploadTypeOK, Exclusive, WaitsForItsThread, [Next]_vars
    PROVE  WaitsForItsThread'
<1> USE DEF WaitsForItsThread, Goto, producerVars
<1>1. ASSUME NEW j \in Jobs, Route(j) \/ Client(j) PROVE WaitsForItsThread'
  BY <1>1 DEF Route, Client, Refuse, BeginRead, Start, Cancel, ClientLeaves,
     UploadTypeOK
<1>2. ASSUME NEW j \in Jobs, Producer(j) PROVE WaitsForItsThread'
  <2> USE DEF UploadTypeOK, Conclude
  <2>1. CASE BeginTranscribe(j)
    BY <2>1 DEF BeginTranscribe
  <2>2. CASE DiarizerReports(j)
    BY <2>2 DEF DiarizerReports
  <2>3. ASSUME NEW found \in BOOLEAN, DiarizerReturns(j, found)
        PROVE  WaitsForItsThread'
    BY <2>3 DEF DiarizerReturns
  <2>4. CASE HandOff(j)
    BY <2>4 DEF HandOff
  <2>5. CASE BeginDecode(j)
    BY ZenonT(60), <2>5 DEF BeginDecode
  <2>6. CASE DecodeWhole(j)
    BY <2>6 DEF DecodeWhole
  <2>7. CASE Resume(j)
    BY <2>7 DEF Resume
  <2>8. CASE BeginLibraryPass(j)
    BY <2>8 DEF BeginLibraryPass
  <2>9. ASSUME NEW n \in 0 .. Ticks, NEW verdict \in {"done", "error"},
               SpeakerPass(j, n, verdict)
        PROVE  WaitsForItsThread'
    BY <2>9 DEF SpeakerPass, Exclusive
  <2>10. CASE Fails(j)
    BY <2>10 DEF Fails
  <2>11. CASE Close(j)
    BY <2>11 DEF Close
  <2> QED
    BY <1>2, <2>1, <2>2, <2>3, <2>4, <2>5, <2>6, <2>7, <2>8, <2>9, <2>10, <2>11
       DEF Producer
<1>3. ASSUME NEW j \in Jobs, PoolThread(j) \/ EmitScheduled(j)
      PROVE  WaitsForItsThread'
  BY <1>3 DEF PoolThread, ThreadReports, ThreadReturns, EmitScheduled,
     UploadTypeOK
<1>4. CASE UNCHANGED <<pc, thread, scheduled>>
  BY <1>4
<1> QED
  BY <1>1, <1>2, <1>3, <1>4 DEF Next, Quiet, vars, Follow, Connection, Watch,
     Snapshot, Deliver, WatcherLeaves

----------------------------------------------------------------------------
(* The kinds of step the service takes, by what they do to a job's place,  *)
(* the registry and the response.                                          *)
OnlyMoves(j) == \A i \in Jobs \ {j} : pc'[i] = pc[i]

BeginsJob(j) ==
    /\ active = NoJob
    /\ pc[j] = "idle" /\ pc'[j] \in AtWork /\ OnlyMoves(j)
    /\ active' = j
    /\ status' = [status EXCEPT ![j] = "running"]
    /\ UNCHANGED <<events, response>>

ReportsProgress(j) ==
    /\ pc[j] \in AtWork /\ pc'[j] \in AtWork /\ OnlyMoves(j)
    /\ \E phase \in Phases :
          LET e == Evt(j, "progress", phase) IN
          /\ events' = [events EXCEPT ![j] = Append(@, e)]
          /\ response' = [response EXCEPT ![j] = Append(@, e)]
    /\ UNCHANGED <<active, status>>

Concludes(j) ==
    /\ pc[j] \in AtWork /\ pc'[j] = "closing" /\ OnlyMoves(j)
    /\ active' = NoJob
    /\ \E verdict \in Verdicts :
          LET e == Evt(j, verdict, "none") IN
          /\ status' = [status EXCEPT ![j] = verdict]
          /\ events' = [events EXCEPT ![j] = Append(@, e)]
          /\ response' = [response EXCEPT ![j] = Append(@, e)]

ClosesResponse(j) ==
    /\ pc[j] = "closing" /\ pc'[j] = "finished" /\ OnlyMoves(j)
    /\ response' = [response EXCEPT ![j] = Append(@, End)]
    /\ UNCHANGED <<active, status, events>>

SaysNothing ==
    /\ \A j \in Jobs : \/ pc'[j] = pc[j]
                       \/ {pc[j], pc'[j]} \subseteq AtWork
                       \/ {pc[j], pc'[j]} \subseteq {"idle", "refused"}
    /\ UNCHANGED <<active, status, events, response>>

Kind == \/ \E j \in Jobs : \/ BeginsJob(j) \/ ReportsProgress(j)
                           \/ Concludes(j) \/ ClosesResponse(j)
        \/ SaysNothing

(* What a producer at work says goes to its own log ... *)
LEMMA ProgressReachesOwnLog ==
    ASSUME RegistryInv, UploadTypeOK, SerialInv, NEW j \in Jobs,
           pc[j] \in AtWork, NEW phase \in Phases,
           Say(j, Evt(j, "progress", phase)), pc'[j] \in AtWork, OnlyMoves(j)
    PROVE  ReportsProgress(j)
<1> DEFINE e == Evt(j, "progress", phase)
<1>1. active = j /\ active # NoJob
  BY NoJobAssumption DEF SerialInv, PcTellsStatus
<1>2. ~Terminal(e)
  BY DEF Terminal, Evt, Verdicts
<1>3. /\ events' = [events EXCEPT ![j] = Append(@, e)]
      /\ UNCHANGED <<active, status>>
      /\ response' = [response EXCEPT ![j] = Append(@, e)]
  BY <1>1, <1>2 DEF Say, Publish
<1> QED
  BY <1>3 DEF ReportsProgress

(* ... and so does its verdict, which frees the server. *)
LEMMA VerdictReachesOwnLog ==
    ASSUME RegistryInv, UploadTypeOK, SerialInv, NEW j \in Jobs,
           pc[j] \in AtWork, NEW verdict \in Verdicts, Conclude(j, verdict)
    PROVE  Concludes(j)
<1> DEFINE e == Evt(j, verdict, "none")
<1>1. active = j /\ active # NoJob /\ Running(active)
  BY NoJobAssumption
     DEF SerialInv, PcTellsStatus, RegistryInv, ActiveIsRunning
<1>2. Terminal(e) /\ e.stage = verdict
  BY DEF Terminal, Evt
<1>3. /\ events' = [events EXCEPT ![j] = Append(@, e)]
      /\ response' = [response EXCEPT ![j] = Append(@, e)]
      /\ Finish(j, verdict, Forward(stream, j, e))
  BY <1>1, <1>2 DEF Conclude, Say, Publish
<1>4. active' = NoJob /\ status' = [status EXCEPT ![j] = verdict]
  BY <1>1, <1>3 DEF Finish
<1>5. pc'[j] = "closing" /\ OnlyMoves(j)
  BY DEF Conclude, Goto, OnlyMoves, UploadTypeOK
<1> QED
  BY <1>3, <1>4, <1>5 DEF Concludes

LEMMA RouteKind ==
    ASSUME RegistryInv, UploadTypeOK, SerialInv, Exclusive, UploadAssumption,
           NEW j \in Jobs, Route(j) \/ Client(j)
    PROVE  Kind
<1>1. CASE Refuse(j)
  <2>1. pc[j] = "idle" /\ pc' = [pc EXCEPT ![j] = "refused"]
    BY <1>1 DEF Refuse, Goto, SerialInv, PcTellsStatus
  <2>2. UNCHANGED <<active, status, events, response>>
    BY <1>1 DEF Refuse, registryVars
  <2> QED
    BY <2>1, <2>2 DEF Kind, SaysNothing, UploadTypeOK
<1>2. CASE BeginRead(j)
  BY <1>2 DEF BeginRead, Exclusive
<1>3. CASE Start(j)
  <2>1. pc[j] = "idle" /\ active = NoJob
    <3>1. pc[j] = "idle"
      BY <1>3 DEF Start, SerialInv, PcTellsStatus
    <3>2. CASE Mode[j] \in Passes
      BY <1>3, <3>1, <3>2 DEF Start, OwnBusy, Busy, Exclusive, RegistryInv,
         RegistryTypeOK
    <3>3. CASE Mode[j] \notin Passes
      BY <1>3, <3>1, <3>3 DEF Start, Busy
    <3> QED
      BY <3>1, <3>2, <3>3
  <2>2. pc'[j] \in AtWork /\ OnlyMoves(j)
    BY <1>3 DEF Start, Goto, OnlyMoves, AtWork, UploadTypeOK
  <2> QED
    BY <1>3, <2>1, <2>2 DEF Start, StartJob, Kind, BeginsJob
<1>4. CASE Client(j)
  BY <1>4 DEF Client, Cancel, ClientLeaves, RequestCancel, Kind, SaysNothing,
     producerVars, registryVars
<1> QED
  BY <1>1, <1>2, <1>3, <1>4 DEF Route

LEMMA ProducerKind ==
    ASSUME RegistryInv, UploadTypeOK, SerialInv, Exclusive, NEW j \in Jobs,
           Producer(j)
    PROVE  Kind
<1> USE DEF Goto, OnlyMoves, UploadTypeOK
<1>1. CASE BeginTranscribe(j)
  BY <1>1, ProgressReachesOwnLog DEF BeginTranscribe, Kind, AtWork, Phases
<1>2. CASE DiarizerReports(j)
  <2>1. pc[j] \in AtWork
    BY <1>2 DEF DiarizerReports, AtWork
  <2>2. \/ Conclude(j, "cancelled")
        \/ Say(j, Evt(j, "progress", "diarization")) /\ UNCHANGED pc
    BY <1>2 DEF DiarizerReports
  <2> QED
    BY <2>1, <2>2, ProgressReachesOwnLog, VerdictReachesOwnLog
       DEF Kind, Phases, Verdicts
<1>3. ASSUME NEW found \in BOOLEAN, DiarizerReturns(j, found) PROVE Kind
  <2>1. pc[j] \in AtWork
    BY <1>3 DEF DiarizerReturns, AtWork
  <2>2. \/ Conclude(j, "done")
        \/ /\ Say(j, Evt(j, "progress", "diarization"))
           /\ pc'[j] \in AtWork /\ OnlyMoves(j)
    BY <1>3 DEF DiarizerReturns, AtWork
  <2> QED
    BY <2>1, <2>2, ProgressReachesOwnLog, VerdictReachesOwnLog
       DEF Kind, Phases, Verdicts
<1>4. CASE HandOff(j)
  <2>1. pc[j] \in AtWork
    BY <1>4 DEF HandOff, AtWork
  <2>2. \/ Conclude(j, "cancelled")
        \/ /\ Say(j, Evt(j, "progress", "diarization"))
           /\ pc'[j] \in AtWork /\ OnlyMoves(j)
    BY <1>4 DEF HandOff, AtWork
  <2> QED
    BY <2>1, <2>2, ProgressReachesOwnLog, VerdictReachesOwnLog
       DEF Kind, Phases, Verdicts
<1>5. CASE BeginDecode(j)
  <2>1. /\ pc[j] \in AtWork
        /\ Say(j, Evt(j, "progress", "transcription"))
        /\ pc'[j] \in AtWork /\ OnlyMoves(j)
    BY <1>5 DEF BeginDecode, AtWork
  <2> QED
    BY <2>1, ProgressReachesOwnLog DEF Kind, Phases
<1>6. CASE DecodeWhole(j)
  BY <1>6, VerdictReachesOwnLog DEF DecodeWhole, Kind, Verdicts, AtWork
<1>7. CASE Resume(j)
  <2>1. pc[j] \in AtWork
    BY <1>7 DEF Resume, AtWork
  <2>2. \E verdict \in Verdicts : Conclude(j, verdict)
    BY <1>7 DEF Resume, Verdicts
  <2> QED
    BY <2>1, <2>2, VerdictReachesOwnLog DEF Kind
<1>8. CASE BeginLibraryPass(j)
  BY <1>8 DEF BeginLibraryPass, registryVars, Kind, SaysNothing, AtWork
<1>9. ASSUME NEW n \in 0 .. Ticks, NEW verdict \in {"done", "error"},
             SpeakerPass(j, n, verdict)
      PROVE  Kind
  BY <1>9 DEF SpeakerPass, Exclusive
<1>10. CASE Fails(j)
  BY <1>10, VerdictReachesOwnLog DEF Fails, Kind, Verdicts, AtWork
<1>11. CASE Close(j)
  <2>1. ~Running(j)
    BY <1>11 DEF Close, SerialInv, PcTellsStatus, Running, Verdicts
  <2>2. UNCHANGED <<active, status, events>>
    BY <1>11, <2>1 DEF Close, EnsureFinished, Finish
  <2> QED
    BY <1>11, <2>2 DEF Close, Kind, ClosesResponse
<1> QED
  BY <1>1, <1>2, <1>3, <1>4, <1>5, <1>6, <1>7, <1>8, <1>9, <1>10, <1>11
     DEF Producer

LEMMA StepKind ==
    ASSUME RegistryInv, UploadTypeOK, SerialInv, Exclusive, UploadAssumption,
           [Next]_vars
    PROVE  Kind
<1>1. ASSUME NEW j \in Jobs, EmitScheduled(j) PROVE Kind
  <2>1. pc[j] \in AtWork
    BY <1>1 DEF EmitScheduled, SerialInv, WaitsForItsThread, AtWork
  <2>2. \E phase \in Phases : Say(j, Evt(j, "progress", phase))
    BY <1>1 DEF EmitScheduled, Phases
  <2>3. pc'[j] \in AtWork /\ OnlyMoves(j)
    BY <1>1, <2>1 DEF EmitScheduled, OnlyMoves
  <2> QED
    BY <2>1, <2>2, <2>3, ProgressReachesOwnLog DEF Kind
<1>2. ASSUME NEW j \in Jobs, PoolThread(j) PROVE Kind
  BY <1>2 DEF PoolThread, ThreadReports, ThreadReturns, registryVars, Kind,
     SaysNothing
<1>3. ASSUME NEW f \in Followers, Follow(f) PROVE Kind
  BY <1>3 DEF Follow, Attach, producerVars, Kind, SaysNothing
<1>4. ASSUME NEW w \in Watchers, Connection(w) PROVE Kind
  BY <1>4 DEF Connection, Watch, Snapshot, Deliver, WatcherLeaves,
     SubscribeActivity, TakeActivity, UnsubscribeActivity, producerVars,
     registryVars, Kind, SaysNothing
<1>5. CASE UNCHANGED vars
  BY <1>5 DEF vars, registryVars, producerVars, Kind, SaysNothing
<1> QED
  BY <1>1, <1>2, <1>3, <1>4, <1>5, RouteKind, ProducerKind DEF Next, Quiet

----------------------------------------------------------------------------
LEMMA KindKeepsPc ==
    ASSUME RegistryInv, UploadTypeOK, PcTellsStatus, Kind
    PROVE  PcTellsStatus'
<1> USE DEF PcTellsStatus
<1>1. ASSUME NEW j \in Jobs, BeginsJob(j) PROVE PcTellsStatus'
  BY <1>1, NoJobAssumption
     DEF BeginsJob, OnlyMoves, AtWork, RegistryInv, RegistryTypeOK
<1>2. ASSUME NEW j \in Jobs, ReportsProgress(j) PROVE PcTellsStatus'
  BY <1>2 DEF ReportsProgress, OnlyMoves, AtWork
<1>3. ASSUME NEW j \in Jobs, Concludes(j) PROVE PcTellsStatus'
  BY <1>3 DEF Concludes, OnlyMoves, AtWork, RegistryInv, RegistryTypeOK
<1>4. ASSUME NEW j \in Jobs, ClosesResponse(j) PROVE PcTellsStatus'
  BY <1>4 DEF ClosesResponse, OnlyMoves, AtWork
<1>5. CASE SaysNothing
  BY <1>5 DEF SaysNothing, AtWork
<1> QED
  BY <1>1, <1>2, <1>3, <1>4, <1>5 DEF Kind

LEMMA KindKeepsMirror ==
    ASSUME RegistryInv, UploadTypeOK, LogMirrorsResponse, Kind
    PROVE  LogMirrorsResponse'
<1> USE DEF LogMirrorsResponse, RegistryInv, RegistryTypeOK, UploadTypeOK, AtWork
<1>1. ASSUME NEW j \in Jobs, BeginsJob(j) PROVE LogMirrorsResponse'
  BY <1>1 DEF BeginsJob, OnlyMoves
<1>2. ASSUME NEW j \in Jobs, NEW e, pc[j] \in AtWork,
             pc'[j] # "finished", OnlyMoves(j),
             events' = [events EXCEPT ![j] = Append(@, e)],
             response' = [response EXCEPT ![j] = Append(@, e)]
      PROVE  LogMirrorsResponse'
  <2> SUFFICES ASSUME NEW i \in Jobs
               PROVE  response'[i] = IF pc'[i] = "finished"
                                     THEN Append(events'[i], End) ELSE events'[i]
    OBVIOUS
  <2>1. CASE i = j
    <3>1. response[j] = events[j]
      BY <1>2
    <3> QED
      BY <1>2, <2>1, <3>1
  <2>2. CASE i # j
    BY <1>2, <2>2 DEF OnlyMoves
  <2> QED
    BY <2>1, <2>2
<1>3. ASSUME NEW j \in Jobs, ReportsProgress(j) \/ Concludes(j)
      PROVE  LogMirrorsResponse'
  <2>1. PICK e : /\ events' = [events EXCEPT ![j] = Append(@, e)]
                 /\ response' = [response EXCEPT ![j] = Append(@, e)]
    BY <1>3 DEF ReportsProgress, Concludes
  <2>2. pc[j] \in AtWork /\ pc'[j] # "finished" /\ OnlyMoves(j)
    BY <1>3 DEF ReportsProgress, Concludes
  <2> HIDE DEF LogMirrorsResponse, AtWork
  <2> QED
    BY <1>2, <2>1, <2>2
<1>4. ASSUME NEW j \in Jobs, ClosesResponse(j) PROVE LogMirrorsResponse'
  BY <1>4 DEF ClosesResponse, OnlyMoves
<1>5. CASE SaysNothing
  BY <1>5 DEF SaysNothing
<1> QED
  BY <1>1, <1>3, <1>4, <1>5 DEF Kind

LEMMA SerialInvHolds ==
    ASSUME Exclusive
    PROVE  Spec => [](RegistryInv /\ UploadTypeOK /\ SerialInv)
<1>1. RegistryInv /\ UploadTypeOK /\ SerialInv /\ [Next]_vars => SerialInv'
  <2> SUFFICES ASSUME RegistryInv, UploadTypeOK, SerialInv, [Next]_vars
               PROVE  SerialInv'
    OBVIOUS
  <2>1. Kind
    BY StepKind, UploadAssumption
  <2> QED
    BY <2>1, StepKeepsThreads, KindKeepsPc, KindKeepsMirror DEF SerialInv
<1> QED
  BY <1>1, InitEstablishesSerialInv, UploadsKeepRegistryInv, UploadTypeCorrect,
     PTL DEF Spec

(* Two jobs never run together: a request that is not refused starts when  *)
(* the one before it has its verdict.                                      *)
THEOREM ServesOneJob ==
    ASSUME Exclusive PROVE Spec => []OneJobAtATime
<1>1. UploadTypeOK /\ SerialInv => OneJobAtATime
  BY DEF UploadTypeOK, SerialInv, PcTellsStatus, OneJobAtATime, Running, Resting,
     Verdicts
<1> QED
  BY <1>1, SerialInvHolds, PTL

(* The TTL monitor never finds the registry empty under a producer at work.*)
THEOREM KeepsWorkVisible ==
    ASSUME Exclusive PROVE Spec => []WorkIsVisible
<1>1. SerialInv => WorkIsVisible
  BY NoJobAssumption DEF SerialInv, PcTellsStatus, WorkIsVisible
<1> QED
  BY <1>1, SerialInvHolds, PTL

(* A reattached page is sent what the uploader is sent, all of it. *)
THEOREM MirrorsResponses ==
    ASSUME Exclusive PROVE Spec => []LogMirrorsResponse
BY SerialInvHolds, PTL DEF SerialInv

----------------------------------------------------------------------------
(* What the events of a log say: they are its own job's, and a verdict is  *)
(* one that closes the log.                                                *)
EventsAreOwn ==
    \A j \in Jobs : \A i \in 1 .. Len(events[j]) :
        /\ events[j][i].by = j
        /\ events[j][i].stage \in Verdicts => Terminal(events[j][i])

LEMMA KindKeepsEvents ==
    ASSUME RegistryTypeOK, EventsAreOwn, Kind
    PROVE  EventsAreOwn'
<1>1. ASSUME NEW j \in Jobs, NEW e, e.by = j, e.stage \in Verdicts => Terminal(e),
             events' = [events EXCEPT ![j] = Append(@, e)]
      PROVE  EventsAreOwn'
  <2> SUFFICES ASSUME NEW k \in Jobs, NEW i \in 1 .. Len(events'[k])
               PROVE  /\ events'[k][i].by = k
                      /\ events'[k][i].stage \in Verdicts => Terminal(events'[k][i])
    BY DEF EventsAreOwn, Terminal
  <2>1. events[j] \in Seq(Event) /\ events[k] \in Seq(Event)
    BY DEF RegistryTypeOK
  <2>2. CASE k # j
    <3>1. events'[k] = events[k]
      BY <1>1, <2>2 DEF RegistryTypeOK
    <3> QED
      BY <3>1 DEF EventsAreOwn
  <2>3. CASE k = j
    <3>1. events'[j] = Append(events[j], e)
      BY <1>1 DEF RegistryTypeOK
    <3>2. CASE i = Len(events[j]) + 1
      <4>1. events'[j][i] = e
        BY <2>1, <3>1, <3>2
      <4> QED
        BY <1>1, <2>3, <4>1
    <3>3. CASE i # Len(events[j]) + 1
      <4>1. i \in 1 .. Len(events[j]) /\ events'[j][i] = events[j][i]
        BY <2>1, <2>3, <3>1, <3>3
      <4> QED
        BY <2>3, <4>1 DEF EventsAreOwn
    <3> QED
      BY <3>2, <3>3
  <2> QED
    BY <2>2, <2>3
<1>2. ASSUME NEW j \in Jobs, ReportsProgress(j) PROVE EventsAreOwn'
  <2>1. PICK phase \in Phases :
          events' = [events EXCEPT ![j] = Append(@, Evt(j, "progress", phase))]
    BY <1>2 DEF ReportsProgress
  <2>2. /\ Evt(j, "progress", phase).by = j
        /\ Evt(j, "progress", phase).stage \notin Verdicts
    BY DEF Evt, Verdicts
  <2> QED
    BY <1>1, <2>1, <2>2
<1>3. ASSUME NEW j \in Jobs, Concludes(j) PROVE EventsAreOwn'
  <2>1. PICK verdict \in Verdicts :
          events' = [events EXCEPT ![j] = Append(@, Evt(j, verdict, "none"))]
    BY <1>3 DEF Concludes
  <2>2. Evt(j, verdict, "none").by = j /\ Terminal(Evt(j, verdict, "none"))
    BY DEF Evt, Terminal
  <2> QED
    BY <1>1, <2>1, <2>2
<1>4. ASSUME events' = events PROVE EventsAreOwn'
  BY <1>4 DEF EventsAreOwn, Terminal
<1> QED
  BY <1>2, <1>3, <1>4 DEF Kind, BeginsJob, ClosesResponse, SaysNothing

LEMMA EventsAreOwnHolds ==
    ASSUME Exclusive PROVE Spec => []EventsAreOwn
<1>1. Init => EventsAreOwn
  BY DEF Init, RegistryInit, EventsAreOwn
<1>2. RegistryInv /\ UploadTypeOK /\ SerialInv /\ EventsAreOwn /\ [Next]_vars
        => EventsAreOwn'
  BY StepKind, UploadAssumption, KindKeepsEvents DEF RegistryInv
<1> QED
  BY <1>1, <1>2, SerialInvHolds, PTL DEF Spec

(* Nothing follows a verdict on a response but the end of the stream: no   *)
(* callback of a thread, no window, no second verdict.                     *)
THEOREM VerdictsComeLast ==
    ASSUME Exclusive PROVE Spec => []VerdictEndsTheResponse
<1>1. RegistryInv /\ SerialInv /\ EventsAreOwn => VerdictEndsTheResponse
  <2> SUFFICES ASSUME RegistryInv, SerialInv, EventsAreOwn, NEW j \in Jobs,
                      NEW i \in 1 .. Len(response[j]), response[j][i].stage \in Verdicts,
                      NEW k \in i + 1 .. Len(response[j])
               PROVE  response[j][k] = End
    BY DEF VerdictEndsTheResponse
  <2> DEFINE n == Len(events[j])
  <2>1. events[j] \in Seq(Event) /\ n \in Nat
    BY DEF RegistryInv, RegistryTypeOK
  <2>2. ASSUME i \in 1 .. n, events[j][i].stage \in Verdicts PROVE i = n
    BY <2>2 DEF EventsAreOwn, RegistryInv, NothingAfterTheVerdict
  <2>3. CASE response[j] = events[j]
    BY <2>1, <2>2, <2>3
  <2>4. CASE response[j] = Append(events[j], End)
    <3>1. /\ Len(response[j]) = n + 1 /\ response[j][n + 1] = End
          /\ \A m \in 1 .. n : response[j][m] = events[j][m]
      BY <2>1, <2>4
    <3>2. i # n + 1
      BY <3>1 DEF End, Verdicts
    <3>3. i \in 1 .. n
      BY <2>1, <3>1, <3>2
    <3>4. i = n
      BY <2>2, <3>1, <3>3
    <3> QED
      BY <2>1, <3>1, <3>4
  <2> QED
    BY <2>3, <2>4 DEF SerialInv, LogMirrorsResponse
<1> QED
  BY <1>1, SerialInvHolds, EventsAreOwnHolds, PTL

(* A connection follows a job of its own user, and sends nothing before.   *)
FollowsOwn ==
    \A f \in Followers :
        /\ watching[f] = NoJob => stream[f] = <<>>
        /\ \A j \in Jobs : watching[f] = j => Owner[j] = FollowerUser[f]

(* Only the registry's attach makes a connection follow, and what is put   *)
(* goes to those that do.                                                  *)
PutsToFollowers ==
    /\ UNCHANGED watching
    /\ \A f \in Followers : watching[f] = NoJob => stream'[f] = stream[f]

LEMMA FinishPutsToFollowers ==
    ASSUME RegistryInv, NEW j \in Jobs, NEW verdict, NEW str,
           \A f \in Followers : watching[f] = NoJob => str[f] = stream[f],
           Finish(j, verdict, str)
    PROVE  \A f \in Followers : watching[f] = NoJob => stream'[f] = stream[f]
<1> SUFFICES ASSUME NEW f \in Followers, watching[f] = NoJob
             PROVE  stream'[f] = stream[f]
  OBVIOUS
<1>1. f \notin subscribers[j] /\ str[f] = stream[f]
  BY NoJobAssumption DEF RegistryInv, SubscriptionsMatch
<1>2. stream' = str \/ stream' = Forward(str, j, End)
  BY DEF Finish
<1> QED
  BY <1>1, <1>2 DEF Forward

LEMMA SayPutsToFollowers ==
    ASSUME RegistryInv, NEW j, NEW e, Say(j, e)
    PROVE  PutsToFollowers
<1>1. Publish(e)
  BY DEF Say
<1>2. CASE active = NoJob
  BY <1>1, <1>2 DEF Publish, registryVars, PutsToFollowers
<1>3. CASE active # NoJob
  <2> DEFINE str == Forward(stream, active, e)
  <2>1. active \in Jobs
    BY <1>3 DEF RegistryInv, RegistryTypeOK
  <2>2. /\ UNCHANGED watching
        /\ Finish(active, e.stage, str) \/ stream' = str
    BY <1>1, <1>3 DEF Publish
  <2>3. \A f \in Followers : watching[f] = NoJob => str[f] = stream[f]
    BY <2>1, NoJobAssumption DEF RegistryInv, SubscriptionsMatch, Forward
  <2> HIDE DEF str
  <2> QED
    BY <2>1, <2>2, <2>3, FinishPutsToFollowers DEF PutsToFollowers
<1> QED
  BY <1>2, <1>3

LEMMA StepKeepsFollowsOwn ==
    ASSUME RegistryInv, FollowsOwn, [Next]_vars
    PROVE  FollowsOwn'
<1>1. ASSUME NEW f \in Followers, Follow(f) PROVE FollowsOwn'
  BY <1>1 DEF Follow, Attach, Busy, RegistryInv, RegistryTypeOK, FollowsOwn
<1>2. ASSUME PutsToFollowers PROVE FollowsOwn'
  BY <1>2 DEF FollowsOwn, PutsToFollowers
<1>3. ASSUME NEW j \in Jobs, Route(j) \/ Client(j) \/ PoolThread(j)
      PROVE  PutsToFollowers
  BY <1>3 DEF Route, Refuse, BeginRead, Start, StartJob, Client, Cancel, RequestCancel,
     ClientLeaves, PoolThread, ThreadReports, ThreadReturns, registryVars, PutsToFollowers
<1>4. ASSUME NEW j \in Jobs, Producer(j) \/ EmitScheduled(j)
      PROVE  PutsToFollowers
  <2>1. CASE Close(j)
    <3>1. Finish(j, "error", stream) /\ UNCHANGED watching
      BY <2>1 DEF Close, EnsureFinished
    <3> QED
      BY <3>1, FinishPutsToFollowers DEF PutsToFollowers
  <2>2. CASE BeginLibraryPass(j)
    BY <2>2 DEF BeginLibraryPass, registryVars, PutsToFollowers
  <2>3. CASE ~Close(j) /\ ~BeginLibraryPass(j)
    <3>1. \E e : Say(j, e)
      BY <1>4, <2>3 DEF Producer, BeginTranscribe, DiarizerReports, DiarizerReturns,
         HandOff, BeginDecode, DecodeWhole, Resume, SpeakerPass, Fails, Conclude,
         EmitScheduled
    <3> QED
      BY <3>1, SayPutsToFollowers
  <2> QED
    BY <2>1, <2>2, <2>3
<1>5. ASSUME NEW w \in Watchers, Connection(w) PROVE PutsToFollowers
  BY <1>5 DEF Connection, Watch, Snapshot, Deliver, WatcherLeaves, SubscribeActivity,
     TakeActivity, UnsubscribeActivity, registryVars, PutsToFollowers
<1>6. CASE UNCHANGED vars
  BY <1>6 DEF vars, registryVars, FollowsOwn
<1> QED
  BY <1>1, <1>2, <1>3, <1>4, <1>5, <1>6 DEF Next, Quiet

(* A page that reattaches is sent the events of its own user's jobs only:  *)
(* the route looks at the owner of the active job once, when it attaches.  *)
THEOREM OwnEventsOnly ==
    ASSUME Exclusive PROVE Spec => []FollowersSeeOwnJobs
<1>1. Init => FollowsOwn
  BY NoJobAssumption DEF Init, RegistryInit, FollowsOwn
<1>2. RegistryInv /\ FollowsOwn /\ [Next]_vars => FollowsOwn'
  BY StepKeepsFollowsOwn
<1>3. RegistryInv /\ EventsAreOwn /\ FollowsOwn => FollowersSeeOwnJobs
  <2> SUFFICES ASSUME RegistryInv, EventsAreOwn, FollowsOwn, NEW f \in Followers,
                      NEW i \in 1 .. Len(stream[f]), stream[f][i] # End
               PROVE  Owner[stream[f][i].by] = FollowerUser[f]
    BY DEF FollowersSeeOwnJobs
  <2> DEFINE j == watching[f]
  <2>1. j \in Jobs \cup {NoJob}
    BY DEF RegistryInv, RegistryTypeOK
  <2>2. CASE j = NoJob
    BY <2>2 DEF FollowsOwn
  <2>3. CASE j # NoJob
    <3>1. /\ j \in Jobs /\ events[j] \in Seq(Event) /\ Owner[j] = FollowerUser[f]
          /\ stream[f] = events[j] \/ stream[f] = Append(events[j], End)
      BY <2>1, <2>3 DEF RegistryInv, RegistryTypeOK, FollowersSeeTheLog, FollowsOwn
    <3> HIDE DEF j
    <3>2. i \in 1 .. Len(events[j]) /\ stream[f][i] = events[j][i]
      BY <3>1
    <3> QED
      BY <3>1, <3>2 DEF EventsAreOwn
  <2> QED
    BY <2>2, <2>3
<1> QED
  BY <1>1, <1>2, <1>3, SerialInvHolds, EventsAreOwnHolds, UploadsKeepRegistryInv, PTL DEF Spec

----------------------------------------------------------------------------
(* Who can be cancelled, and what a cancelled transcription with segments  *)
(* cannot have: the whole-file decode and a result.                        *)
CancelInv ==
    \A j \in Jobs :
        /\ cancelRequested[j] => Mode[j] = "transcribe"
        /\ pc[j] = "whole" => ~segmented[j]
        /\ cancelRequested[j] /\ segmented[j] => status[j] # "done"

(* The verdict a producer says is its job's; what is no verdict changes no *)
(* job's.                                                                  *)
LEMMA VerdictIsItsJobs ==
    ASSUME RegistryInv, UploadTypeOK, SerialInv, NEW j \in Jobs, pc[j] \in AtWork
    PROVE  /\ \A verdict \in Verdicts : Conclude(j, verdict) =>
                /\ status' = [status EXCEPT ![j] = verdict]
                /\ pc' = [pc EXCEPT ![j] = "closing"]
                /\ UNCHANGED cancelRequested
           /\ \A phase \in Phases : Say(j, Evt(j, "progress", phase)) =>
                UNCHANGED <<status, cancelRequested>>
<1>1. ASSUME NEW verdict \in Verdicts, Conclude(j, verdict)
      PROVE  /\ status' = [status EXCEPT ![j] = verdict]
             /\ pc' = [pc EXCEPT ![j] = "closing"]
             /\ UNCHANGED cancelRequested
  <2> DEFINE e == Evt(j, verdict, "none")
  <2>1. active = j /\ active # NoJob /\ Running(active)
    BY NoJobAssumption DEF SerialInv, PcTellsStatus, RegistryInv, ActiveIsRunning
  <2>2. Terminal(e) /\ e.stage = verdict
    BY DEF Terminal, Evt
  <2>3. Finish(j, verdict, Forward(stream, j, e)) /\ UNCHANGED cancelRequested
    BY <1>1, <2>1, <2>2 DEF Conclude, Say, Publish
  <2> QED
    BY <1>1, <2>1, <2>3 DEF Finish, Conclude, Goto
<1>2. ASSUME NEW phase \in Phases, Say(j, Evt(j, "progress", phase))
      PROVE  UNCHANGED <<status, cancelRequested>>
  <2>1. ~Terminal(Evt(j, "progress", phase))
    BY DEF Terminal, Evt, Verdicts
  <2> QED
    BY <1>2, <2>1 DEF Say, Publish, registryVars
<1> QED
  BY <1>1, <1>2

LEMMA ProducerKeepsCancelInv ==
    ASSUME RegistryInv, UploadTypeOK, SerialInv, WorkIsAPass, Exclusive,
           CancelInv, NEW j \in Jobs, Producer(j)
    PROVE  CancelInv'
(* A step by its effect on the job's status, place and segments *)
<1>1. ASSUME NEW verdict \in Verdicts, pc[j] \in AtWork, Conclude(j, verdict),
             segmented' = segmented,
             verdict = "done" => ~cancelRequested[j] \/ ~segmented[j]
      PROVE  CancelInv'
  <2>1. /\ status' = [status EXCEPT ![j] = verdict]
        /\ pc' = [pc EXCEPT ![j] = "closing"] /\ UNCHANGED cancelRequested
    BY <1>1, VerdictIsItsJobs
  <2> QED
    BY <1>1, <2>1 DEF CancelInv, UploadTypeOK, RegistryInv, RegistryTypeOK
<1>2. ASSUME NEW phase \in Phases, pc[j] \in AtWork,
             Say(j, Evt(j, "progress", phase)),
             \/ UNCHANGED <<pc, segmented>>
             \/ \E where : /\ Goto(j, where)
                           /\ where = "whole" => ~segmented[j]
                           /\ UNCHANGED segmented
             \/ \E found \in BOOLEAN :
                   /\ Goto(j, "handoff")
                   /\ segmented' = [segmented EXCEPT ![j] = found]
                   /\ status[j] # "done"
      PROVE  CancelInv'
  <2>1. UNCHANGED <<status, cancelRequested>>
    BY <1>2, VerdictIsItsJobs
  <2>2. CASE UNCHANGED <<pc, segmented>>
    BY <2>1, <2>2 DEF CancelInv
  <2>3. CASE \E where : /\ Goto(j, where)
                        /\ where = "whole" => ~segmented[j]
                        /\ UNCHANGED segmented
    BY <2>1, <2>3 DEF CancelInv, Goto, UploadTypeOK
  <2>4. CASE \E found \in BOOLEAN :
                /\ Goto(j, "handoff")
                /\ segmented' = [segmented EXCEPT ![j] = found]
                /\ status[j] # "done"
    BY <2>1, <2>4 DEF CancelInv, Goto, UploadTypeOK
  <2> QED
    BY <1>2, <2>2, <2>3, <2>4
<1> USE DEF Verdicts, Phases, AtWork
<1>3. CASE BeginTranscribe(j)
  BY <1>2, <1>3 DEF BeginTranscribe
<1>4. CASE DiarizerReports(j)
  BY <1>1, <1>2, <1>4 DEF DiarizerReports
<1>5. ASSUME NEW found \in BOOLEAN, DiarizerReturns(j, found) PROVE CancelInv'
  <2>1. status[j] # "done" /\ pc[j] = "diarizing"
    BY <1>5, NoJobAssumption DEF DiarizerReturns, SerialInv, PcTellsStatus, RegistryInv,
       ActiveIsRunning, Running
  <2>2. CASE Mode[j] = "transcribe"
    <3>1. /\ Say(j, Evt(j, "progress", "diarization"))
          /\ Goto(j, "handoff")
          /\ segmented' = [segmented EXCEPT ![j] = found]
      BY <1>5, <2>2 DEF DiarizerReturns
    <3> QED
      BY <1>2, <2>1, <3>1
  <2>3. CASE Mode[j] # "transcribe"
    <3>1. /\ status' = [status EXCEPT ![j] = "done"]
          /\ pc' = [pc EXCEPT ![j] = "closing"] /\ UNCHANGED cancelRequested
          /\ segmented' = [segmented EXCEPT ![j] = found]
      BY <1>5, <2>1, <2>3, VerdictIsItsJobs DEF DiarizerReturns
    <3> QED
      BY <2>3, <3>1 DEF CancelInv, UploadTypeOK, RegistryInv, RegistryTypeOK
  <2> QED
    BY <2>2, <2>3
<1>6. CASE HandOff(j)
  BY <1>1, <1>2, <1>6 DEF HandOff
<1>7. CASE BeginDecode(j)
  BY <1>2, <1>7 DEF BeginDecode
<1>8. CASE DecodeWhole(j)
  BY <1>1, <1>8 DEF DecodeWhole, CancelInv
<1>9. CASE Resume(j)
  <2>1. CASE Conclude(j, "error") \/ Conclude(j, "cancelled")
    BY <1>1, <1>9, <2>1 DEF Resume
  <2>2. CASE ~(Conclude(j, "error") \/ Conclude(j, "cancelled"))
    <3>1. /\ Conclude(j, "done") /\ segmented' = segmented
          /\ pc[j] \in {"decoding", "working"}
          /\ pc[j] = "decoding" => ~cancelRequested[j]
      BY <1>9, <2>2 DEF Resume
    <3>2. ~cancelRequested[j]
      BY <3>1 DEF WorkIsAPass, CancelInv
    <3> QED
      BY <1>1, <3>1, <3>2
  <2> QED
    BY <2>1, <2>2
<1>10. CASE BeginLibraryPass(j)
  BY <1>10 DEF BeginLibraryPass, Goto, registryVars, CancelInv, UploadTypeOK
<1>11. ASSUME NEW n \in 0 .. Ticks, NEW verdict \in {"done", "error"},
              SpeakerPass(j, n, verdict)
       PROVE  CancelInv'
  BY <1>11 DEF SpeakerPass, Exclusive
<1>12. CASE Fails(j)
  BY <1>1, <1>12 DEF Fails
<1>13. CASE Close(j)
  <2>1. ~Running(j)
    BY <1>13 DEF Close, SerialInv, PcTellsStatus, Running
  <2>2. UNCHANGED <<status, cancelRequested, segmented>>
    BY <1>13, <2>1 DEF Close, EnsureFinished, Finish
  <2> QED
    BY <1>13, <2>2 DEF Close, Goto, CancelInv, UploadTypeOK
<1> QED
  BY <1>3, <1>4, <1>5, <1>6, <1>7, <1>8, <1>9, <1>10, <1>11, <1>12, <1>13 DEF Producer

LEMMA StepKeepsCancelInv ==
    ASSUME RegistryInv, UploadTypeOK, SerialInv, WorkIsAPass, Exclusive,
           CancelInv, [Next]_vars
    PROVE  CancelInv'
<1>1. ASSUME NEW j \in Jobs, Route(j) \/ Client(j) PROVE CancelInv'
  <2>1. CASE Refuse(j) \/ BeginRead(j)
    BY <2>1 DEF Refuse, BeginRead, Goto, registryVars, CancelInv, UploadTypeOK
  <2>2. CASE Start(j)
    <3>1. /\ status' = [status EXCEPT ![j] = "running"]
          /\ UNCHANGED <<cancelRequested, segmented>>
      BY <2>2 DEF Start, StartJob
    <3>2. \A i \in Jobs : pc'[i] = "whole" => pc[i] = "whole"
      BY <2>2 DEF Start, Goto, UploadTypeOK
    <3> QED
      BY <3>1, <3>2 DEF CancelInv, RegistryInv, RegistryTypeOK
  <2>3. CASE Cancel(j)
    <3>1. /\ cancelRequested' = [cancelRequested EXCEPT ![j] = TRUE]
          /\ Mode[j] = "transcribe" /\ status[j] = "running"
          /\ UNCHANGED <<status, segmented, pc>>
      BY <2>3 DEF Cancel, RequestCancel, Running, producerVars
    <3> QED
      BY <3>1 DEF CancelInv, RegistryInv, RegistryTypeOK
  <2>4. CASE ClientLeaves(j)
    BY <2>4 DEF ClientLeaves, registryVars, producerVars, CancelInv
  <2> QED
    BY <1>1, <2>1, <2>2, <2>3, <2>4 DEF Route, Client
<1>2. ASSUME NEW j \in Jobs, PoolThread(j) PROVE CancelInv'
  BY <1>2 DEF PoolThread, ThreadReports, ThreadReturns, registryVars, CancelInv
<1>3. ASSUME NEW j \in Jobs, EmitScheduled(j) PROVE CancelInv'
  <2>1. pc[j] \in AtWork
    BY <1>3 DEF EmitScheduled, SerialInv, WaitsForItsThread, AtWork
  <2>2. \E phase \in Phases : Say(j, Evt(j, "progress", phase))
    BY <1>3 DEF EmitScheduled, Phases
  <2>3. UNCHANGED <<status, cancelRequested>>
    BY <2>1, <2>2, VerdictIsItsJobs
  <2> QED
    BY <1>3, <2>3 DEF EmitScheduled, CancelInv
<1>4. ASSUME NEW f \in Followers, Follow(f) PROVE CancelInv'
  BY <1>4 DEF Follow, Attach, producerVars, CancelInv
<1>5. ASSUME NEW w \in Watchers, Connection(w) PROVE CancelInv'
  BY <1>5 DEF Connection, Watch, Snapshot, Deliver, WatcherLeaves, SubscribeActivity,
     TakeActivity, UnsubscribeActivity, producerVars, registryVars, CancelInv
<1>6. CASE UNCHANGED vars
  BY <1>6 DEF vars, registryVars, producerVars, CancelInv
<1> QED
  BY <1>1, <1>2, <1>3, <1>4, <1>5, <1>6, ProducerKeepsCancelInv DEF Next, Quiet

(* A transcription that accepted a cancel and has segments to decode has   *)
(* no result, wherever between two events the cancel arrived.              *)
THEOREM CancelledIsNotDone ==
    ASSUME Exclusive PROVE Spec => []CancelIsHonouredWithSegments
<1>1. Init => CancelInv
  BY DEF Init, RegistryInit, CancelInv
<1>2. RegistryInv /\ UploadTypeOK /\ SerialInv /\ WorkIsAPass /\ CancelInv
        /\ [Next]_vars => CancelInv'
  BY StepKeepsCancelInv
<1>3. CancelInv => CancelIsHonouredWithSegments
  BY DEF CancelInv, CancelIsHonouredWithSegments
<1> QED
  BY <1>1, <1>2, <1>3, SerialInvHolds, WorkIsAPassHolds, PTL DEF Spec

(* The safety part of the refinement: every behaviour of the service is,   *)
(* seen through the registry, one of SerialJobs.                           *)
THEOREM RefinesSerialJobs ==
    ASSUME Exclusive
    PROVE  Spec => Serial!Init /\ [][Serial!Next]_<<active, status, events>>
<1>1. Init => Serial!Init
  BY DEF Init, RegistryInit, Serial!Init
<1>2. RegistryInv /\ UploadTypeOK /\ SerialInv /\ [Next]_vars
        => [Serial!Next]_<<active, status, events>>
  <2> SUFFICES ASSUME RegistryInv, UploadTypeOK, SerialInv, Kind
               PROVE  [Serial!Next]_<<active, status, events>>
    BY StepKind, UploadAssumption
  <2>1. ASSUME NEW j \in Jobs, BeginsJob(j) PROVE Serial!Begin(j)
    BY <2>1 DEF BeginsJob, Serial!Begin, SerialInv, PcTellsStatus
  <2>2. ASSUME NEW j \in Jobs, ReportsProgress(j) PROVE Serial!Progress(j)
    <3>1. active = j
      BY <2>2 DEF ReportsProgress, SerialInv, PcTellsStatus
    <3>2. PICK phase \in Phases :
             events' = [events EXCEPT ![j] = Append(@, Evt(j, "progress", phase))]
      BY <2>2 DEF ReportsProgress
    <3>3. Evt(j, "progress", phase) \in Serial!Report(j)
      BY DEF Evt, Serial!Report
    <3> QED
      BY <2>2, <3>1, <3>2, <3>3 DEF ReportsProgress, Serial!Progress
  <2>3. ASSUME NEW j \in Jobs, Concludes(j)
        PROVE  \E verdict \in Serial!Final : Serial!End(j, verdict)
    <3>1. active = j
      BY <2>3 DEF Concludes, SerialInv, PcTellsStatus
    <3>2. \A verdict \in Verdicts :
             /\ verdict \in Serial!Final
             /\ Evt(j, verdict, "none") = Serial!Result(j, verdict)
      BY DEF Verdicts, Stages, Serial!Final, Evt, Serial!Result
    <3> QED
      BY <2>3, <3>1, <3>2 DEF Concludes, Serial!End
  <2>4. ASSUME \/ \E j \in Jobs : ClosesResponse(j)
               \/ SaysNothing
        PROVE  UNCHANGED <<active, status, events>>
    BY <2>4 DEF ClosesResponse, SaysNothing
  <2> QED
    BY <2>1, <2>2, <2>3, <2>4 DEF Kind, Serial!Next
<1> QED
  BY <1>1, <1>2, SerialInvHolds, PTL DEF Spec
=============================================================================

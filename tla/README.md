# Formal models of asr-mcp

TLA+ models of asr-mcp, the transcription server in this repository, and of its
desktop client: a FastAPI process that diarizes and transcribes uploads on one
GPU, keeps a library of voiceprints, and serves live transcription over a
WebSocket.  Every definition is translated from the source; `PROJECT.json` maps
each one to its lines.

## 1. The system

One process, one asyncio event loop, a thread pool for GPU work, one SQLite
database, one set of GPU models.

| Component | State it keeps | Operations | Talks to | What makes it correct |
|---|---|---|---|---|
| **Job registry** `core/job_state.py` | the one active job, its status, cancel flag, event log and subscribers; the activity subscribers | start_job, publish, attach, finish, ensure_finished, subscribe/unsubscribe_activity | called by every producer and SSE route | attach loses and repeats nothing; a verdict is final; the active job is running |
| **Upload routes** `api/asr_router.py`, passes of `api/voiceprint_router.py` | per request: response queue, producer task, pool thread, `client_disconnected` | transcribe/diarize upload, active, active/stream, activity/stream, active/cancel, consolidate/rescan stream | job registry, models, diarizer, database | one job at a time; the log is the response; cancel is honoured; results are kept |
| **Model residency** `core/model_state.py`, `core/model_loader.py`, `server.py` | which models are loaded, last use | ensure_*_ready, unload_*, touch, TTL monitor, rebuild drain | everything that runs a model | nothing is unloaded under a job by the monitor; idle models go |
| **Back ends** `transcribers/` | the model, its device, the size of a piece | load, unload, transcribe | called from any number of pool threads | the audio is decoded once, whatever memory does |
| **Live stream** `streaming/handler.py`, `protocol.py` | per connection: bounded audio queue, worker task, turn detector, timeline guard | receive, submit, overflow, worker, flush, close | turn detector, attribution, models | audio in order, overflow told to the client, shutdown ends |
| **Turn detector, speech gate** `streaming/turn_detector.py`, `speech_gate.py` | the open turn and the held one | process, flush, merge, trim | live stream | every frame of speech in one turn, where it was spoken |
| **Attribution** `streaming/attribution.py`, `speaker/*.py` | speaker claims of a session | claim, second pass | voiceprint library | an uncertain speaker is not named |
| **Voiceprint library** `voiceprint/service.py`, `db/` | profiles, snippets, files | enrol, rename, merge, delete, collect, learn, rescan, consolidate | database, disk, embedding model | rows have their audio; nobody is promoted behind the user's back |
| **Audit and rebuild** `voiceprint/audit.py`, `rebuild.py` | the persisted queue of broken profiles | audit, enqueue, run_pending | voiceprint library, TTL monitor | repairs lose no audio, survive a restart and come to an end |
| **Accounts** `auth/`, `api/auth_router.py`, `api/admin_router.py` | credentials, Google links, throttle, sessions | register, confirm, login, Google sign-in, disable, delete | database, mailer, Google | a link confirms its own account; no second way into a vault |
| **Diarization** `diarization/`, `speaker/boundary.py` | none between calls | run, cluster, refine | models | segments are ordered and disjoint |
| **Clients** `asr-client/` | capture queue, detectors, reply queue, retry state | live client, upload client | the server | turns go out in order, once; the client ends |

Hard to get right: tasks interleave at every `await` (each progress event
sleeps 10 ms); pool threads hand events back to the loop; the registry looks up
the *active* job rather than the caller's; clients vanish at any moment;
subscription and snapshot happen in different steps; nothing reserves a model
for whoever uses it; the library's files, rows and profiles are changed by
requests while a pool thread is between two of its own changes; and the repair
queue is written once, at the end of a pass that a crash may cut short.
`PROJECT.json` lists these hazards line by line.

## 2. Modules

| Module | Models | State and actions |
|---|---|---|
| `JobRegistry` | `job_state.py` | its globals and the `ActiveJob` fields are the variables; one action per function, since none of them awaits |
| `UploadJobs` | the upload, cancel and SSE routes of `asr_router.py`, the passes of `voiceprint_router.py` | extends `JobRegistry`; `pc` is the place of a request and its producer, one action per stretch of code between two awaits; `thread` and `scheduled` are the pool thread and the callbacks it has handed to the loop |
| `SerialJobs` | what the service promises | the job being served, each job's verdict and log |
| `ModelResidency` | `model_state.py`, `model_loader.py`, the monitor and drain of `server.py`, and the places where uploads, live sessions, requests and the tool load, use and unload | `st` is `ModelState`; one action per stretch between two awaits of a caller |
| `BackendDecode` | loading, unloading and `transcribe` of the three back ends | the shared model state, and per thread its place, position and pieces, each of which has all its words, some, or is named as failed |
| `LiveStream` | `handle_ws_stream` of `streaming/handler.py` | receiver, queue, worker, notices and shutdown of one session; `phase` and `worker.at` say where the two tasks are |
| `LossyFifo` | what a live session promises | the fate of each turn it took in |
| `TurnDetector` | class `TurnDetector` | its fields; one step per frame |
| `SpeechGate` | `trim_turn_edges` | an operator on a turn |
| `MicTurns` | class `TurnCoalescer`, fed as `handler.py` feeds it | extends `TurnDetector` with the held turn, and `SpeechGate` |
| `Timeline` | `TimelineGuard` of `streaming/protocol.py` and `_check_timeline` | the guard's fields, the turns built, the faults told |
| `VoiceprintStore` | what each operation of `service.py` and `db/manager.py` does to one user's profiles, rows, files and directories | operators from stores to stores |
| `VoiceprintLibrary` | requests on the loop between the steps of the pool thread that collects, learns, consolidates or rescans | extends `VoiceprintStore`; `task` is the thread and what it has read so far, `scan` what a rescan listed and where in it the thread is |
| `VoiceprintRebuild` | the audit at a start, the queue file, the drain, `run_pending`, `rebuild_profile_from_scratch` and `_purge_dead_snippet_rows`, among the requests of the user | extends `VoiceprintStore`; `entries` and `done` are the file, `repair` the pass that dies with its process, `listed` and `dead` what its purge has read |
| `Accounts` | the credentials store, registration, confirmation, throttle, Google sign-in and the administrator | a method of the store is part of one action, a route is split at its awaits |
| `LiveClient` | `run_live` and `main` of `asr-client/live_client.py` | callbacks, main thread, receiver thread, socket and a server that answers |
| `UploadJobsProofs` (with `JobRegistry`), `ModelProofs` (`ModelResidency`, `BackendDecode`), `VoiceprintProofs` (`VoiceprintStore`, `VoiceprintLibrary`, `VoiceprintRebuild`), `AccountsProofs`, `TimelineProofs`, `LiveStreamProofs`, `MicTurnsProofs`, `LiveClientProofs` | - | the theorems |
| `MCUploadJobs`, `MCVoiceprintLibrary`, `MCVoiceprintRebuild`, `MCAccounts` | - | instances for TLC; the other modules are instantiated by their cfg alone |

How the state corresponds to the code.  `active` is `_active`; `status`,
`cancelRequested`, `events` and `subscribers` are the fields of `ActiveJob`; a
follower's `stream` is the snapshot `attach` returned followed by what its queue
brought, nothing being consumed, so that a property can compare it with the
log; `feed` is an activity subscriber's queue, which is consumed; `response`
is everything put on the uploader's queue.

Abstractions.  A job is the request that creates it.  An event is its stage
(progress or a verdict), its phase and -- a history the code does not record --
the producer that emitted it.  A file that fits in memory is read without
suspension (`UploadFile.read` awaits a thread only for a body spooled to disk);
`Spooled` says which do not.  The diarizer reports up to `Ticks` times, a
transcription has up to `Windows` windows.  The consolidation of everybody and
the rescan run the same code around a different call of the service, so they are
one mode, `library`; a consolidation of one speaker, which runs on the loop, is
`speaker`.

In `ModelResidency` a model is there or not; for each the model keeps who loaded
or removed it last, and when a caller misses a model it needs, the pair goes into
`starved`.  These histories let a property say *who* is to blame.  Uploads are
serial there, as `OneJobAtATime` has it for bodies that fit in memory; live
sessions, requests and the repair pass are not.  What the back ends do inside one
call is `BackendDecode`, in which the model can be taken away at any point.

In the live modules a turn is the number under which it was submitted and the
utterances it carries; a transcript, an "empty" and an "error" message all answer
it.  `LiveStream` leaves open whether two turns merge and when a held one is due,
which `MicTurns` computes from positions; `TurnDetector` leaves open which side
of the two thresholds a frame falls on, which the code computes from an adaptive
noise floor.  That floor is a function of the past frames, so every sequence of
levels the code can see is among those checked.  In the same way the trim of
`SpeechGate` is told which frames Silero calls voiced, and `LiveClient` lets any
block open, carry on or close a turn.

In `VoiceprintStore` an embedding is the set of clips it was fitted on, a
recording its hash, and a snippet's path has the name the code would give it: two
spans that start and last alike within the rounding of a file name share a slot.
Which spans and clusters are good enough is a choice.  An account's password is
the registration that chose it.

Definitions that a comment calls a *mutant* are not part of the model.  Each is
a plausible bug in a neighbouring definition, and shows that the property it is
listed with in `PROJECT.json` would catch that bug.

## 3. Model checking

| Run | Question | Result |
|---|---|---|
| `upload_exclusive` | Is the service serial for a transcription and a pass of one user, bodies in memory; are cancel, disconnect and the activity connection served truly? | yes; it implements `SerialJobs`, liveness included |
| `upload_overlap` | What is left when a spooled upload and another user's pass overlap? | the callers still take registry steps only, attaching is race-free, a verdict is final, every job ends, every follower is released |
| `second_upload` | One job at a time? | no: the check and `start_job` are separated by the read of a spooled body |
| `residency` | Who may share the card, who takes a model from under a job, and do idle models go? | only a live session, the transcription tool and a repair pass put recogniser and voice model side by side; an upload loses a model to requests, repairs and failed loads, never to the monitor; idle models go unless a load failed |
| `decode` | Is all audio decoded or named as failed exactly once, and does every call end, while memory runs out and the model is taken away? | every moment is put to the decoder or named once, and every call ends, unless in an error; the words of what was decoded are complete with Qwen3 and Whisper, not with Cohere |
| `live_session` | Is every turn of a session answered in order or reported as dropped, and does the shutdown end? | yes, unless a time limit of the shutdown runs out |
| `mic_turns` | Is each frame of speech submitted once, in order and in place, whatever is merged, and does the edge trim keep it so? | yes |
| `timeline` | Does the guard trust honest clients and keep unflagged channels in order? | yes |
| `library` | Do rows keep their audio, pending profiles their flag and other speakers their snippets while threads and requests interleave? Does a reprocess replace exactly the previous take? | other speakers' snippets stay, and a reprocess replaces what it should; rows lose audio and profiles their flag only in the ways named below |
| `rebuild` | Do repairs lose no audio, come to an end, and empty the queue across restarts and crashes, while requests rename, merge and delete? | yes, but for the row of a file that a request moves between the repair's look and its deletion |
| `accounts` | Do links confirm only their own account, is the throttle a window, does no sign-up open a second way into a vault, is nobody refused let in by the other store? | yes |
| `live_client` | Do turns go out in order and once, does all closed speech but the turn in hand go out, does the client end? | yes |

### Where the code differs from what is written about it

Each is why a property is stated under a condition, or stands in its module as a
definition ("claimed, and not so") that TLC refutes and no run lists.

Jobs and models.

- `publish` writes to whatever job is active (`job_state.py:96`): while two jobs
  overlap a follower is sent another user's events, against "your own jobs" of the
  repository's `README.md:20`: `FollowersSeeOwnJobs`.
- A displaced producer's verdict closes the job that displaced it, whose pass
  then runs unseen (`job_state.py:104`); `voiceprint_router.py:430` counts on the
  registry to keep the models loaded.  `WorkIsVisible` is proved for an exclusive
  service only.
- The end of any job is sent, with id and verdict, to every activity connection
  (`asr_router.py:1669`), not to its owner's alone as the docstring at 1633 says.
- An accepted cancel is not honoured when diarization found no segments
  (`asr_router.py:1464`, `docs/api.md:128`): `CancelIsHonoured`; the run checks
  `CancelIsHonouredWithSegments`.
- "Loading speech recognition model" is sent after the load it announces
  (`asr_router.py:1442`-1460), where its comment and `docs/processing.md:264` have
  it before.
- The progress of a single-speaker consolidation is sent after its verdict
  (`voiceprint_router.py:455`); `VerdictEndsTheResponse` is checked without that mode.
- Without diarized segments a transcription is not saved unless its client has
  left (`asr_router.py:1477`), whatever `save` says (`docs/api.md:102`).
- Voiceprint and JSON requests unload the back end or the voice model under a
  running upload; a live session whose back end was unloaded answers every later
  turn "empty".  A half-failed load is never unloaded, nor is anything when the
  TTL is 0, where the repair queue is not drained either.  The drain checks for a
  job and then loads in a thread (`server.py:107`).
- A step of Cohere's decoder that fails, be it that the session was unloaded by
  another request, ends the window: the words so far are returned, without an error
  and without naming the rest (`cohere.py:812`-820): `EveryWordIsThere`.
  `AudioIsAccountedFor` and its theorem claim all words for Qwen3 and Whisper only.
- Cohere's CPU fallback fails when the encoder session could not be made again
  (`cohere.py:408`; its docstring at 426): `MemoryIsSurvived`.  Whisper starts over
  on the CPU and tells its segments again: `SegmentsAreToldOnce`.

Live sessions.

- After an overflow `queue.join()` cannot return, since the dropped turn is never
  marked done (`handler.py:282`), and 30 s are waited for nothing (552):
  `JoinReturnsWhenIdle`.  With `drop_on_overflow` off the notice of a drop is a
  coroutine nobody awaits (`handler.py:275`): `DropsAreReported`.
- A session whose shutdown runs out of time closes over turns neither answered
  nor reported (`handler.py:567`): `ClosesAfterDeciding` excepts it.
- `MSG_FLUSH` leaves a turn open in the detector (`handler.py:554`; see
  `protocol.py:50`): `EveryUtteranceIsSubmitted` excepts it.
- A forced split and a flush cut off the hangover's worth of frames although they
  are speech (`turn_detector.py:354`).
- The guard forgets that it moved a turn, so that the next one may lie inside it
  (`protocol.py:263`, against 178 and 229): `UnflaggedTurnsAreOrdered` speaks of
  channels that were never flagged.
- The live client sets its stop event before it sends the last turns
  (`live_client.py:1652`), so that the thread which would read their transcripts
  and the stats ends, and the wait of 30 s for them is mostly in vain:
  `RepliesAreRead`.  When the server cannot be reached it says it keeps recording
  (1568) and stops at once.  Blocks still in the queue at the end are neither
  recorded nor sent; a second Ctrl+C in the shutdown writes nothing.

Voiceprints and accounts.

- A reprocess drops the previous take even if nothing of the new one was kept
  (`service.py:1920`): `NothingIsLost`.
- A rebuild that fails or dies between the deletion of a pending profile and the
  flagging of the new one leaves it unflagged (`service.py:1025`, against the
  docstring at 985): `RebuildKeepsPending`.
- "The only route that promotes a pending profile" (`voiceprint_router.py:78`) is not
  the only one: a merge of a profile into itself does, and so does a rescan that finds
  its files changed, because it drops the profile and fits it anew
  (`service.py:1577`).  A file is taken for changed when its time or size differs from
  the row listed minutes before (1530), so that an upload or a reprocess of the same
  name during a rescan is enough: `OnlyConfirmPromotes`.  `PromotionIsTheUsersAct`
  excepts exactly the speakers a rescan found changed, and acts that name the speaker.
- Audio is written and then given a row (`service.py:757` and 764; 1491 and 1498).
  A rename, merge or deletion in between takes the file away and the row is made
  all the same: `RowsAreMadeWithAudio`.  `RowsHaveAudio` excepts these rows, the ones
  whose file vanished from outside or was the file of two rows, and those a
  confirm left behind.
- "Delete this speaker's snippet rows whose audio is gone" (`service.py:2931`):
  `_purge_dead_snippet_rows` looks for the files first and deletes by id afterwards, so
  that a row whose file a rename is just moving goes although its audio is
  there: `PurgesOnlyTheDead`.  `RepairsLoseNoAudio` excepts files of rows that were
  moved after the repair had listed them (the history `moved`), and no others.
- A voice learned without an embedding session and refitted by a later rescan is
  matchable under its "Pending" name: `PendingNamesNeverMatch`.
- A merge onto a file of the same name leaves two rows on one file
  (`service.py:1384`); `_rename_snippet_dir` points rows to files that were not
  moved; a refit in a thread makes a deleted speaker's profile again.
- A signup whose mail fails deletes by name, which by then may be another
  signup's row (`auth_router.py:327`): `AnsweredSignupsLast`.
- Disabling an account refuses its sign-ins; its sessions last.

Bounds.  Every constant that a module calls a bound only ends the behaviours; the
other constants are parameters of the code.

- *Uploads.*  Two jobs show every race of a registry that holds one: a displaced
  job and the one that displaced it.  One progress event per phase (`Ticks`,
  `Windows` = 1) lets a cancel, a disconnect and a second request fall before,
  between and after events; a second one repeats the step.  The runs stutter when
  both requests are answered (`Quiet`), so a deadlock would be reported.
- *Residency.*  One upload, because uploads are serial; one session; two requests
  or passes and one failing load, which is enough for a model to be taken, come
  back and be taken again while an upload is in each of its phases.
- *Back ends.*  Two threads, because what one of them does to the shared model is
  seen by the other; four units are two of Cohere's windows and two halvings of
  Qwen3's piece; one unload by somebody else.
- *Live session.*  A queue of two and four utterances let a session overflow while
  one turn is in work, another waits and a third is held, and end in each of these
  states.  It stutters when it is over (`Over`) and nowhere else.
- *Microphone.*  The frame counts keep the order of the shipped ones (post-roll <
  hangover, confirmation < pre-roll < maximum); thirteen frames hold three turns, a
  split and two merges.  Two frames of trim are reached by a turn of seven, and
  the share of a turn is what limits a shorter one.
- *Timeline.*  Three turns on two channels: a fault needs one before it, and its
  effect shows on the one after it.
- *Library.*  A registered and a free name and a pending speaker, one with a file
  that no row claims; a recording with five spans of which two collide in their file's
  name and one is too short to be kept, a budget of one; one thread, one request and
  one mishap at any point of it.  A second request would find the library in a state
  the first could have left.  A report lists one finding of a kind (`ReportCap`, 50 in
  the code), so that it is cut off.
- *Rebuild.*  A registered and a pending speaker with a snippet that cannot be
  embedded and one without audio; two attempts, two acts from outside (a request, a
  job, a file or session that disappears, a load that fails) and one crash, so that an
  entry can fail, survive a crash, fail for good and be found again.  `DeadCap` is one
  and `MaxDone` three: the list of what was dealt with is pruned in the model as in
  the code.  Should more findings persist than `MAX_DONE` holds (200), each start would
  queue the pruned ones again and `RepairsCease` would not hold; the run has fewer.
- *Accounts.*  Two signups for two spellings of one name, two Google accounts, one
  browser, two network addresses; any number of sign-ins, deletions and restarts.  The
  clock reaches the window's length (`MaxTime` = `Window` = 2), so that attempts leave
  it.
- *Live client.*  Four blocks on two channels: two turns on one of them, or a
  merge, beside a turn of the other.

Deadlock is checked for the uploads and the live session.  The other runs stop at
their bounds (`CHECK_DEADLOCK FALSE`); the runs with liveness properties show that
they do not stop short of what they have to do.

Fairness.  In `UploadJobs` the loop runs every task and callback that is ready, a
pool thread on a finite file returns, and a route that has read its body goes on.
In `LiveStream` the worker and the notices run, and both waits of the shutdown are
bounded (`Shutdown`).  In `ModelResidency` time passes, the monitor's loop goes
round, and tasks and threads return.  In `VoiceprintRebuild` the monitor wakes
every minute (unless the TTL is 0), a pass runs to its end or to a crash, of
which there are finitely many, and a job that runs comes to its end (`JobEnds`, which
`EveryJobEnds` of `UploadJobs` shows); loads fail finitely often.  In `BackendDecode` a thread goes on.  In `LiveClient`
the shutdown and the receiver run; the main loop may wait for audio for ever and
the server need not answer.  No client, user or mail server is ever obliged to
act.  `Accounts` and `VoiceprintLibrary` state no fairness.

## 4. Proofs

Checked by TLAPS for all values of the constants; each theorem's run shows the
same on a small instance.

**Registry** (`UploadJobsProofs`): attach is race-free, a verdict is final and
closes the log, the newest activity frame is true, for any sets of jobs and
connections and any order of calls.  The inductive invariant is the conjunction of
these and `FollowedHasStarted`: a connection without a subscription follows a job
that is not active.  Without it `FollowersSeeTheLog` is not inductive: an event
published to the active job would have to reach a connection that holds no
subscription.  The crux is that `publish` touches only the active job, which is
running (`ActiveIsRunning`) and so has an open log (`NothingAfterTheVerdict`).

**Uploads** (`UploadJobsProofs`): every step of a caller is a step of the registry
(`CallersImplementRegistry`), so these theorems hold of the whole service.  Then,
assuming `Exclusive` -- no body is read from disk, a pass and all other jobs belong
to one user, nobody consolidates a single speaker, exactly what the
counterexamples violate -- `SerialInv` ties the place of each producer to
what the registry knows (`PcTellsStatus`), says that a thread exists only while its
producer waits for it (`WaitsForItsThread`), and that log and response agree; each
step is then one of five kinds (`Kind`), from which `OneJobAtATime`,
`WorkIsVisible`, `LogMirrorsResponse` and the safety part of the refinement of
`SerialJobs` follow.  On the same ground stand `VerdictEndsTheResponse`,
`FollowersSeeOwnJobs` (`FollowsOwn`: a follower follows a job of its own user, and an
event is the job's own, `EventsAreOwn`) and `CancelIsHonouredWithSegments`, whose
`CancelInv` says that the one stretch that ends a job without a look at the flag, the
decoding of the whole file, is for a job without segments.  Two results need no
assumption: an activity connection is told of every change (`ActivityTellsTheTruth`,
from `StreamsAreSubscribed` and the registry's newest frame), and the result of a
client that left is saved in the step that ends its job (`LeaversResultsAreSaved`).

**Residency** (`ModelProofs`): `PhasesTakeTurns` and `MonitorSparesJobs`.
The argument is a relation between two states of the models: a change is
`Harmless` if it leaves `PhasesTakeTurns` true and makes nobody but a request, a
repair pass or a failed load the one who took a model that was held.  Loading and
touching are harmless, unloading is but for what it takes, and harmless changes
chain.  The invariant then needs what an upload at work is owed in each phase
(`JobsHold`: every model of its phase is there, or was taken by such a caller),
and that at most one upload is at work (`OneAtWork`), or the hand-over of one would
take the models of another.  The monitor only unloads when no upload is at work,
live sessions only ever load.

**Back ends** (`ModelProofs`), for any number of threads, any sizes of a piece and
audio of any length: the safety half of `AudioIsAccountedFor`.  `DecodeInv` says of
each thread that its pieces abut up to where it is (`PiecesAbut`), that a piece in
work ends ahead of that wherever in its decode, retry or fallback the thread is
(`LooksAhead`), and that a text is returned only from the end of the audio
(`EndsAtTheEnd`).  A piece also carries how much of its words were decoded, and only
Cohere's decoder leaves some (`Unbroken`); its words are what the theorem does not
claim.  The property alone is not inductive, since it speaks of threads that have
ended.  The lemmas about operators are `ChunksEndAhead` and
`WindowsEndAhead` -- no cut is made at or behind the start, whatever quiet frame was
found -- and `AppendAbuts`.  What a thread does to the shared model never touches
another thread's pieces (`OthersWait`).

**Accounts** (`AccountsProofs`): `LinksConfirmTheirOwn` from the fact that a
registration makes one row, whose link is its own and unopened or opened once
(`OneRowEach`, `LinkIsItsOwn`, `OpenedOnce`); `ThrottleHolds` because what the
throttle forgets is older than its window (`Remembers`), so that the attempts it
counts are all that were admitted in it; `SignInsAreEntitled` and `NoSecondDoor`
from the stores' keys being lowercased (`RowsAreLowered`) and from both ways of
signing up asking all three stores (`user_id_taken`).

**Timeline** (`TimelineProofs`): an honest client is never flagged, and the turns
of a channel never flagged are where they were declared and in order.  The first
needs that an honest client has declared nothing beyond the present
(`HonestyShows`), so that neither fault can be found; the second, that what the
guard remembers of a channel it trusts is the end of that channel's last turn
(`GuardRemembers`): the property compares two turns, the guard one turn with its
memory.

**Live session** (`LiveStreamProofs`), for any queue size and number of utterances.
The invariant has four parts.  `BoxInv` is about where the turns are: the queue is in
order, each turn taken in waits, is in work, was answered or is lost, those that wait
are newer than all others, a dropped one has its notice, and `unfinished` counts at
least what waits and is in work.
`WorkerInPhase` ties worker to shutdown, `NothingIsForgotten` has every utterance in a
turn, held or open, and `ShutdownIsIdle` says that once the wait for the queue is over
nothing waits.  `EveryUtteranceIsSubmitted` follows for both settings of
`drop_on_overflow`; with it on, so do `DropsAreReported`, `ClosesAfterDeciding` and
the refinement `KeepsFifo`, in which the fate of a turn is read off the place where it
is (`Fate`): to drop the head of the queue is to drop the oldest pending turn but the
one in work, because `WaitingAreNewest`.

**Microphone** (`MicTurnsProofs`), for any frame counts, thresholds of the merge and
recordings of any length.  The detector's part of the invariant says that what it
remembers is a stretch of the recording in place: the pre-roll while it listens
(`Listening`), the open turn while somebody speaks (`Speaking`).  The coalescer's part
is that submitted and held turns stand in a row (`InARow`) before the `Frontier`, the
first frame the detector may still give away, and that they carry the speech of the
turns closed so far and no other (`AnyCarries`); that each frame goes out once follows,
since turns in a row share no place.  `MergeKeepsPlace` and `TrimKeepsPlace` are the
two lemmas about operators: filling the gap of a merge with silence and trimming the
edges leave every frame where it was recorded.

**Live client** (`LiveClientProofs`), for any merge limits and recordings of any
length.  `TurnsInOrder` puts the turns of a channel in one line across the places they
may be in: sent, then in the main thread's hands, then held (except in the one step
in which the coalescer is handed what comes after it), then open, and all of them
before the audio that is still to be heard (`TurnsArePast`, `AudioInOrder`), which is
what makes the next detection come last.  A merge or the release at the shutdown makes a
turn that `Spans` two of them, so that it stands where they stood.  `Phases` says what
the main thread may have in hand at each place, whence at most one turn is cut off by
Ctrl+C; `SpeechIsKept` follows each block of closed speech.

**Voiceprint library** (`VoiceprintProofs`), for any store the service can start
from, any speakers, recordings, spans and bounds.  `WellKept` says that a store's ids
are used once and that each file is where its name puts it.  One lemma per
operation of `VoiceprintStore` shows that it `Evolves` a store: what comes out is
`WellKept`, its rows are new or keep the recording and the slot of their file's
name, and a row that lost its file is among those the model notes as lost or was
dead before.  Evolutions chain, so that an action made of several operations needs
no look at rows and files again.

`RowsHaveAudio` is not inductive: dropping a row deletes its file, which a second
row may point to.  The invariant adds that two rows of one file are noted
(`SharedIsNoted`), but for those that the thread at work has just made.  That
exception is what the rest is for: `TakeIsInPlace` says that the thread's
take lies in its speaker's directory, under names of spans that do not overlap any
it has still to cut -- so that what it cuts next never lands on a file of its own take
(`SlotAssumption`: clips of one name overlap) -- and the replacement of the previous
take at its end keeps the files of the new one.  `ReprocessReplaces` follows from
that, the budget (`TakeIsInBudget`) and ids used once; `OthersKeepTheirAudio` from
the names of files, which carry their recording; `PromotionIsTheUsersAct` from the
fact that an operation which leaves a pending row in place leaves it pending
(`KeepsWaiting`), step by step of each thread: only an act that names the speaker and
a rescan that found its files changed do otherwise.  For a rescan, which changes the
store one file, row or profile at a time, `ScanIsSound` says that what it holds
between two of its steps bears the name of its audio.

**Rebuild** (`VoiceprintProofs`): `RepairsLoseNoAudio`, on the same lemmas.
`RebuildInv` adds to types and `WellKept` that what a pass has still to try was
queued and that the speaker at work is no longer among it (`PassIsSound`), without
which a pass could take away a speaker it has not come to.  The purge lists rows, looks
for their files and deletes by id in three steps, between which requests act;
`PurgeIsSound` carries what it has read across them: listed ids are old
(`IdsAreOld`), a listed row still has the listed path or was moved since
(`ListingIsSound`), and a row taken for dead whose file is there after all was moved,
or shares the file with a row that will not be deleted (`DeadAreSpared`).  The last
holds because no request gives an old row a file it did not have except by moving it:
each request keeps the files of all rows it does not move (`KeepsFiles`), or alters no
row (`Clear`).

Assumptions: those named in the modules (`NoJobAssumption`, `UploadAssumption`,
`ResidencyAssumption`, `AccountsAssumption`, `TimelineAssumption`, `LiveAssumption`,
`DetectorAssumption`, `CoalescerAssumption`, `TrimAssumption`, `ClientAssumption`,
`DecodeAssumption`, `StoreAssumption`, `StockAssumption`, `SlotAssumption`,
`LibraryAssumption`, `TaskAssumption`, `RebuildAssumption`): the types of the
constants, that special values are none of the others, the order of the detector's
frame counts, that lowercasing twice is lowercasing once, that the stores a run
begins with are `WellKept` (the library's with no row dead or sharing its file),
and that spans of one file name overlap.  TLC evaluates them in the runs.  Two
theorems' hypotheses are choices of the operator or of the clients: `Exclusive`, and
`DropOnOverflow`, which is the setting the server ships with.

Model-checked only: liveness under fairness -- `EveryJobEnds`, `FollowersAreReleased`,
`HandlerReturns`, `TurnsAreDecided`, `RepairsCease`, `QueueDrains`,
`IdleModelsAreReleased`, `SessionEnds`, the return of each call in
`AudioIsAccountedFor` -- and the fairness in `SerialSpec`, whose initial states
and steps are proved to refine: all of it rests on ENABLED, which is out of the
prover's reach.  Every other property of a passing run is a theorem.  What the
library's operators do is written without recursion or folds over its rows, in the
closed forms the lemmas need, because a theorem by induction over such a fold cannot
be instantiated by the installed provers.

## 5. Not modelled

- **Turn attribution** and **speaker matching**: functions of one list of segments
  and their similarity scores.  Every branch compares floating-point scores with
  thresholds; without the scores nothing is left to check.
- **Diarization pipeline**: a sequential pass over numeric arrays without state
  between calls.  Its progress events and failures are in `UploadJobs`.
- **Signal processing** (voice activity, embedding, audio, clustering): numeric.
- **Upload client**: a sequential script that waits after a 409 and retries once; it
  sees only its own user's job while it waits.  What a client that vanishes means for
  the server is in `UploadJobs`.
- **Mail, tools, small routers**: thin handlers.  What the tools do to the models is in
  `ModelResidency`; mail that is late, lost or refused is in `Accounts`.
- Of the parts that are modelled: the byte layout of live frames, the contents of
  transcripts, the decision of the speech gate on its two scores, the choice of
  good spans, fingerprints and previews of the library, the five findings of the
  audit that are only reported, API tokens, the purge of a user's data, prompts,
  features and text cleaning of the back ends, level meter and gain of the client.

- Of the library and the rebuild: a step of a request on the loop is one step of the
  model, beside the steps of the pool thread.  The ids of rows are given once; the
  database may give the id of a deleted last row again (`autoincrement` at
  `models.py:160` does not become SQLite's keyword), so that a deletion by id could hit a newer row.  A pass of the
  rebuild and the thread of a job are not composed: `VoiceprintRebuild` has the
  requests beside a pass, `VoiceprintLibrary` the requests beside a job.  Flagged
  snippets are left out of `VoiceprintRebuild`, which has none.  The order of queued
  entries, of files and of directories is arbitrary in the model, and a load that
  fails does so finitely often, while the code tries again every minute.

## 6. Plan

1. What is false today (section 3) as properties of runs and theorems, once the
   code is changed: `AnsweredSignupsLast`, `RepliesAreRead`, `MemoryIsSurvived`,
   `RebuildKeepsPending`, `EveryWordIsThere`, `RowsAreMadeWithAudio`,
   `OnlyConfirmPromotes`, `PurgesOnlyTheDead`, `WorkIsVisible` without `Exclusive`.
2. The token and purge routes of the accounts, and the upload client's retry, beside
   the modules they would share their state with.

------------------------------ MODULE LiveStream ------------------------------
(***************************************************************************)
(* One live WebSocket session, asr_mcp/streaming/handler.py: the receiver, *)
(* the bounded queue of turns, the worker that decodes them one at a time  *)
(* in a pool thread, the notices about dropped turns, and the shutdown.    *)
(*                                                                         *)
(* A turn is known by its number, the value of stats["queued_turns"] when  *)
(* it was submitted.  Its audio is a range of utterances, numbered as they *)
(* are heard: a turn frame carries one, the coalescer may merge several of *)
(* the raw stream.  A transcript, an "empty" and an "error" message all    *)
(* answer a turn.  A malformed packet, a control message or a packet of    *)
(* the loopback channel moves a counter and nothing else.                  *)
(***************************************************************************)
EXTENDS Naturals, Sequences, Functions

CONSTANTS
  QueueSize,        \* streaming.queue_size
  DropOnOverflow,   \* streaming.drop_on_overflow
  MaxHeard          \* bound: utterances of a session

ASSUME LiveAssumption ==
  /\ QueueSize \in Nat \ {0}
  /\ DropOnOverflow \in BOOLEAN
  /\ MaxHeard \in Nat

VARIABLES
  phase,      \* where handle_ws_stream is
  flushed,    \* remote_flushed
  heard,      \* utterances heard so far
  open,       \* the utterance of the turn the detector has open, or None
  held,       \* the turn the coalescer holds, if any
  submitted,  \* the audio of each turn submitted, in order
  queue,      \* the asyncio.Queue
  unfinished, \* its count of items without a task_done
  lost,       \* turns counted in stats["dropped_turns"]
  notices,    \* tasks created to tell the client of a lost turn
  worker,     \* where _asr_worker is, and its turn
  outbox,     \* messages handed to the socket; a client that is gone gets none
  timedOut    \* history: queue.join() was given up

inputVars == <<flushed, heard, open, held>>
boxVars == <<submitted, queue, unfinished, lost, notices>>
vars == <<phase, inputVars, boxVars, worker, outbox, timedOut>>

None == 0
Stop == None                        \* what ends the worker when it is queued
Turns == 1..Len(submitted)
Utterances == 1..heard
Message(type, n) == [type |-> type, turn |-> n]
At(place) == worker.at = place
Busy == worker.at \in {"decoding", "sending"}

LiveInit ==
  /\ phase = "receiving" /\ flushed = FALSE
  /\ heard = 0 /\ open = None /\ held = <<>>
  /\ submitted = <<>> /\ queue = <<>> /\ unfinished = 0
  /\ lost = {} /\ notices = {}
  /\ worker = [at |-> "waiting", turn |-> Stop]
  /\ outbox = <<>> /\ timedOut = FALSE

-----------------------------------------------------------------------------
(* _submit.  It never awaits, so a receiver step may call it repeatedly. *)

Box == [submitted |-> submitted, queue |-> queue, unfinished |-> unfinished,
        lost |-> lost, notices |-> notices]

Enqueue(b, n) == [b EXCEPT !.queue = Append(@, n), !.unfinished = @ + 1]

\* Mutants of DropOldest: the last waiting turn goes; the drop is only logged.
DropLast(b) ==
  LET last == b.queue[Len(b.queue)]
  IN  [b EXCEPT !.queue = SubSeq(@, 1, Len(@) - 1), !.lost = @ \cup {last},
                !.notices = @ \cup {last}]
DropSilently(b) ==
  [b EXCEPT !.queue = Tail(@), !.lost = @ \cup {Head(b.queue)}]

\* A get_nowait without a task_done leaves the item among the unfinished.
DropOldest(b) ==
  [b EXCEPT !.queue = Tail(@), !.lost = @ \cup {Head(b.queue)},
            !.notices = @ \cup {Head(b.queue)}]

\* The notice of a turn that was refused is a coroutine nobody awaits.
Put(b, audio) ==
  LET n == Len(b.submitted) + 1
      counted == [b EXCEPT !.submitted = Append(@, audio)]
  IN  IF Len(b.queue) < QueueSize THEN Enqueue(counted, n)
      ELSE IF DropOnOverflow THEN Enqueue(DropOldest(counted), n)
      ELSE [counted EXCEPT !.lost = @ \cup {n}]

PutBoth(b, ready) ==
  IF ready = <<>> THEN b
  ELSE IF Len(ready) = 1 THEN Put(b, ready[1])
  ELSE Put(Put(b, ready[1]), ready[2])

Submit(ready) ==
  LET b == PutBoth(Box, ready)
  IN  /\ submitted' = b.submitted /\ queue' = b.queue /\ unfinished' = b.unfinished
      /\ lost' = b.lost /\ notices' = b.notices

-----------------------------------------------------------------------------
(* The receiver. *)

Audio(path, said) == [path |-> path, said |-> said]

\* TurnCoalescer.submit: the turn is held, alone or merged into the one held
\* before, which is released otherwise.  The lengths that decide are data.
Coalesce(turn) ==
  IF held = <<>> THEN {[held |-> <<turn>>, ready |-> <<>>]}
  ELSE {[held |-> <<Audio("raw", held[1].said \cup turn.said)>>, ready |-> <<>>],
        [held |-> <<turn>>, ready |-> held]}

Hear == heard < MaxHeard /\ heard' = heard + 1

ReceiveTurnFrame ==
  /\ phase = "receiving" /\ Hear
  /\ Submit(<<Audio("frame", {heard + 1})>>)
  /\ UNCHANGED <<phase, flushed, open, held, worker, outbox, timedOut>>

\* A raw packet goes through the detector, then the coalescer's deadline is
\* polled; a turn held by this very packet is not yet due.
TurnOpens ==
  /\ phase = "receiving" /\ open = None /\ Hear /\ open' = heard + 1
  /\ \E due \in BOOLEAN :
       /\ Submit(IF due THEN held ELSE <<>>)
       /\ held' = IF due THEN <<>> ELSE held
  /\ UNCHANGED <<phase, flushed, worker, outbox, timedOut>>

TurnCloses ==
  /\ phase = "receiving" /\ open # None /\ open' = None
  /\ \E c \in Coalesce(Audio("raw", {open})) : Submit(c.ready) /\ held' = c.held
  /\ UNCHANGED <<phase, flushed, heard, worker, outbox, timedOut>>

DeadlinePasses ==
  /\ phase = "receiving" /\ held # <<>>
  /\ Submit(held) /\ held' = <<>>
  /\ UNCHANGED <<phase, flushed, heard, open, worker, outbox, timedOut>>

\* The client hangs up: detector and coalescer are flushed.
Hangup ==
  /\ phase = "receiving" /\ phase' = "draining"
  /\ \/ /\ open # None
        /\ \E c \in Coalesce(Audio("raw", {open})) : Submit(c.ready \o c.held)
     \/ open = None /\ Submit(held)
  /\ open' = None /\ held' = <<>>
  /\ UNCHANGED <<flushed, heard, worker, outbox, timedOut>>

\* Mutant of ReceiveFlush: the coalescer is flushed for raw streams only.
ReceiveFlushKeepsHeld ==
  /\ phase = "receiving" /\ phase' = "draining" /\ flushed' = TRUE
  /\ UNCHANGED <<heard, open, held, boxVars, worker, outbox, timedOut>>

\* The client asks for a flush: the detector keeps what it has open.
ReceiveFlush ==
  /\ phase = "receiving" /\ phase' = "draining" /\ flushed' = TRUE
  /\ Submit(held) /\ held' = <<>>
  /\ UNCHANGED <<heard, open, worker, outbox, timedOut>>

\* Any other exception ends the session without a flush.
ReceiverFails ==
  /\ phase = "receiving" /\ phase' = "failed"
  /\ worker' = [worker EXCEPT !.at = "cancelled"]
  /\ UNCHANGED <<inputVars, boxVars, outbox, timedOut>>

-----------------------------------------------------------------------------
(* The worker, and the notices. *)

WorkerTakes ==
  /\ At("waiting") /\ queue # <<>>
  /\ queue' = Tail(queue)
  /\ IF Head(queue) = Stop
     THEN /\ worker' = [worker EXCEPT !.at = "stopped"]
          /\ unfinished' = unfinished - 1
     ELSE /\ worker' = [at |-> "decoding", turn |-> Head(queue)]
          /\ UNCHANGED unfinished
  /\ UNCHANGED <<phase, inputVars, submitted, lost, notices, outbox, timedOut>>

\* _transcribe_turn returns or raises; either way there is a message to send.
Decoded ==
  /\ At("decoding") /\ worker' = [worker EXCEPT !.at = "sending"]
  /\ UNCHANGED <<phase, inputVars, boxVars, outbox, timedOut>>

WorkerSends ==
  /\ At("sending") /\ worker' = [worker EXCEPT !.at = "waiting"]
  /\ outbox' = Append(outbox, Message("answer", worker.turn))
  /\ unfinished' = unfinished - 1
  /\ UNCHANGED <<phase, inputVars, submitted, queue, lost, notices, timedOut>>

\* _notify_gap.
SendNotice ==
  /\ \E n \in notices : /\ outbox' = Append(outbox, Message("dropped", n))
                       /\ notices' = notices \ {n}
  /\ UNCHANGED <<phase, inputVars, submitted, queue, unfinished, lost, worker, timedOut>>

-----------------------------------------------------------------------------
(* The shutdown. *)

\* put_nowait(None), which a full queue refuses.
StopWorker ==
  /\ phase' = "stopping"
  /\ IF Len(queue) < QueueSize
     THEN queue' = Append(queue, Stop) /\ unfinished' = unfinished + 1
     ELSE UNCHANGED <<queue, unfinished>>

\* Mutant of JoinReturns: the queue is polled instead of joined.
JoinWhenEmpty ==
  /\ phase = "draining" /\ queue = <<>>
  /\ StopWorker
  /\ UNCHANGED <<inputVars, submitted, lost, notices, worker, outbox, timedOut>>

JoinReturns ==
  /\ phase = "draining" /\ unfinished = 0
  /\ StopWorker
  /\ UNCHANGED <<inputVars, submitted, lost, notices, worker, outbox, timedOut>>

\* Mutant of JoinTimesOut: the turns still pending are waited for again.
JoinAgain ==
  /\ phase = "draining" /\ unfinished # 0 /\ timedOut' = TRUE
  /\ UNCHANGED <<phase, inputVars, boxVars, worker, outbox>>

\* Thirty seconds are over.
JoinTimesOut ==
  /\ phase = "draining" /\ unfinished # 0
  /\ StopWorker /\ timedOut' = TRUE
  /\ UNCHANGED <<inputVars, submitted, lost, notices, worker, outbox>>

\* Tasks the receiver created have had their turn before the worker is done.
Report ==
  /\ phase = "stopping" /\ notices = {}
  /\ phase' = "closed"
  /\ outbox' = Append(outbox, Message("stats", None))

WorkerStopped ==
  /\ At("stopped") /\ Report
  /\ UNCHANGED <<inputVars, boxVars, worker, timedOut>>

\* Five more seconds are over: wait_for cancels the worker, whose send has a
\* finally and whose decoding goes on in the pool, for nobody.
WorkerTimesOut ==
  /\ ~At("stopped") /\ Report
  /\ worker' = [worker EXCEPT !.at = "cancelled"]
  /\ unfinished' = IF At("sending") THEN unfinished - 1 ELSE unfinished
  /\ UNCHANGED <<inputVars, submitted, queue, lost, notices, timedOut>>

-----------------------------------------------------------------------------
Receiver == \/ ReceiveTurnFrame \/ TurnOpens \/ TurnCloses \/ DeadlinePasses
            \/ Hangup \/ ReceiveFlush \/ ReceiverFails
Worker == WorkerTakes \/ Decoded \/ WorkerSends
Shutdown == JoinReturns \/ JoinTimesOut \/ WorkerStopped \/ WorkerTimesOut

\* The session is over; what its pool thread still decodes has no effect.
Over == phase \in {"closed", "failed"} /\ notices = {} /\ UNCHANGED vars

LiveNext == Receiver \/ Worker \/ SendNotice \/ Shutdown \/ Over

\* A pool thread returns, the loop runs what is ready, and both waits of the
\* shutdown are bounded.  No client is obliged to send or to hang up.
LiveSpec ==
  /\ LiveInit /\ [][LiveNext]_vars
  /\ WF_vars(Worker) /\ WF_vars(SendNotice) /\ WF_vars(Shutdown)

-----------------------------------------------------------------------------
(* Properties. *)

Told(type) == {m.turn : m \in {x \in Range(outbox) : x.type = type}}
Answered == Told("answer")
Reported == Told("dropped")
InWork == IF Busy THEN {worker.turn} ELSE {}
Waiting == Range(queue) \ {Stop}
Decided == Answered \cup Reported

LiveTypeOK ==
  /\ phase \in {"receiving", "draining", "stopping", "closed", "failed"}
  /\ flushed \in BOOLEAN /\ timedOut \in BOOLEAN
  /\ heard \in 0..MaxHeard /\ open \in 0..heard
  /\ Len(held) <= 1
  /\ held \in Seq([path : {"raw"}, said : SUBSET (1..heard)])
  /\ submitted \in Seq([path : {"raw", "frame"}, said : SUBSET (1..heard)])
  /\ queue \in Seq(Turns \cup {Stop}) /\ Len(queue) <= QueueSize
  /\ unfinished \in Nat
  /\ lost \subseteq Turns /\ notices \subseteq lost
  /\ worker \in [at : {"waiting", "decoding", "sending", "stopped", "cancelled"},
                 turn : Turns \cup {Stop}]
  /\ outbox \in Seq([type : {"answer", "dropped", "stats"}, turn : Turns \cup {None}])

\* After the receiver has ended normally every utterance was submitted, but for
\* the one a MSG_FLUSH found open.
EveryUtteranceIsSubmitted ==
  phase \in {"draining", "stopping", "closed"} =>
    Utterances = (UNION {t.said : t \in Range(submitted)})
                   \cup (IF open = None THEN {} ELSE {open})

\* The join of the shutdown never returns while a turn is undecided, so a
\* session that closes without a timeout has answered every turn it was given
\* or told the client that it dropped it.
ClosesAfterDeciding ==
  phase = "closed" /\ ~timedOut => Turns = Decided

\* Once the receiver is done the handler returns, however slow the decoder.
HandlerReturns == phase = "draining" ~> phase = "closed"

\* While a session lasts, a turn that was submitted is answered or reported.
TurnsAreDecided ==
  \A n \in 1..MaxHeard : n \in Turns ~> n \in Decided \/ timedOut \/ phase = "failed"

\* A session keeps the promise of LossyFifo.
Fifo == INSTANCE LossyFifo WITH
  fate <- [n \in Turns |-> IF n \in lost THEN "dropped"
                           ELSE IF n \in Answered THEN "answered" ELSE "pending"]
KeepsFifo == Fifo!FifoSpec

\* Claimed by the code, and not so.

\* "wait for the decoder to drain": the join returns once nothing is pending.
JoinReturnsWhenIdle ==
  phase = "draining" /\ Waiting \cup InWork = {} => unfinished = 0

\* "The client is told explicitly": each turn that is dropped has a notice.  It is so
\* when the oldest makes room (LiveStreamProofs), and not when the newest is refused.
DropsAreReported == lost \subseteq notices \cup Reported
=============================================================================

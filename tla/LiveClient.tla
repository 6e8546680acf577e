------------------------------ MODULE LiveClient ------------------------------
(***************************************************************************)
(* The desktop live client, asr-client/live_client.py, run_live: the audio *)
(* callbacks, the main loop that records, cuts and sends turns, the thread *)
(* that reads the server's replies, the shutdown and what main writes.     *)
(*                                                                         *)
(* Audio is counted in capture blocks.  What is speech is open: any block  *)
(* may open a turn, close it, or carry it on (TurnDetector and MicTurns    *)
(* say how the server's copy of the detector decides).                     *)
(***************************************************************************)
EXTENDS Integers, Sequences

CONSTANTS
  Mic, Speaker,  \* the two channels
  MergeGap,      \* merge_gap_sec in blocks
  MaxMerge,      \* max_merge_sec in blocks
  MaxBlocks      \* bound: blocks captured, both channels together

ASSUME ClientAssumption ==
  Mic # Speaker /\ MergeGap \in Nat /\ MaxMerge \in Nat /\ MaxBlocks \in Nat

Channels == {Mic, Speaker}

VARIABLES
  captured,  \* blocks each callback has delivered
  outQ,      \* out_q: <<channel, block>>, to the main loop
  recorded,  \* what each WAV holds: the blocks, 0 for the resampler's tail
  open,      \* the turn the channel's detector has open, if any
  held,      \* the turn its coalescer holds, if any
  pc,        \* where the main thread is
  back,      \* where it goes on when `ready` is sent
  block,     \* the block taken from out_q
  ready,     \* turns to send, in order
  sequence,
  sent,      \* history: what was handed to the socket, with its sequence number
  sendError,
  stop,      \* the event that ends the loop and the receiver
  socket,    \* "none", "up", "broken" (the server is out of reach), "closed"
  server,    \* sequence numbers the server still has to answer, and 0 for MSG_FLUSH
  inbox,     \* its replies on their way: sequence numbers, and 0 for stats
  reader,    \* where the receiver thread is
  inHand,    \* the reply it has read and not handled
  closedByServer,
  heard,     \* the replies on_message has handled
  exit,      \* how the program ended
  closed,    \* history: <<channel, block>> in turns the detectors have closed
  cutOff     \* history: the turns in hand when Ctrl+C came

audioVars == <<captured, outQ, recorded>>
turnVars == <<open, held, closed>>
sendVars == <<ready, sequence, sent, sendError>>
replyVars == <<reader, inHand, closedByServer, heard>>
linkVars == <<socket, server, inbox>>
clientVars == <<audioVars, turnVars, sendVars, replyVars, linkVars,
                pc, back, block, stop, exit, cutOff>>

ClientInit ==
  /\ captured = [c \in Channels |-> 0] /\ outQ = <<>>
  /\ recorded = [c \in Channels |-> <<>>]
  /\ open = [c \in Channels |-> <<>>] /\ held = [c \in Channels |-> <<>>]
  /\ pc = "connect" /\ back = "mic" /\ block = <<Mic, 0>>
  /\ ready = <<>> /\ sequence = 0 /\ sent = <<>> /\ sendError = FALSE
  /\ stop = FALSE /\ socket = "none" /\ server = <<>> /\ inbox = <<>>
  /\ reader = "unborn" /\ inHand = <<>> /\ closedByServer = FALSE /\ heard = <<>>
  /\ exit = "running" /\ closed = {} /\ cutOff = <<>>

-----------------------------------------------------------------------------
(* The audio threads.  They run from before the connection is tried until   *)
(* the captures are stopped.                                                 *)

Working == {"connect", "mic", "speaker", "take", "feed", "submit", "send"}

Callback(c) ==
  /\ pc \in Working \cup {"stopping"}
  /\ captured[Mic] + captured[Speaker] < MaxBlocks
  /\ captured' = [captured EXCEPT ![c] = @ + 1]
  /\ outQ' = Append(outQ, <<c, captured[c] + 1>>)
  /\ UNCHANGED <<recorded, turnVars, sendVars, replyVars, linkVars,
                 pc, back, block, stop, exit, cutOff>>

-----------------------------------------------------------------------------
(* Detection: one TurnDetector and one TurnCoalescer per channel.            *)

Turn(c, from, to) == [channel |-> c, from |-> from, to |-> to]
Blocks(turn) == {turn.channel} \X (turn.from..turn.to)

\* TurnDetector.feed: what may become of the open turn (stay as it is, open, go
\* on, close), and the turn that is returned: none if too few frames were voiced.
Detections(c, b) ==
  IF open[c] = <<>> THEN {[open |-> <<>>, turns |-> <<>>], [open |-> <<Turn(c, b, b)>>, turns |-> <<>>]}
  ELSE LET longer == <<Turn(c, open[c][1].from, b)>> IN
       {[open |-> longer, turns |-> <<>>],
        [open |-> <<>>, turns |-> longer], [open |-> <<>>, turns |-> <<>>]}

\* TurnDetector.flush.
DetectorTail(c) == {open[c], <<>>}

\* TurnCoalescer.submit: what is held and what is ready afterwards.
Submitted(c, turns) ==
  IF turns = <<>> THEN [held |-> held[c], ready |-> <<>>]
  ELSE IF held[c] = <<>> THEN [held |-> turns, ready |-> <<>>]
  ELSE LET head == held[c][1]
           tail == turns[1]
       IN  IF tail.from - head.to - 1 <= MergeGap /\ tail.to - head.from < MaxMerge
           THEN [held |-> <<Turn(c, head.from, tail.to)>>, ready |-> <<>>]
           ELSE [held |-> turns, ready |-> held[c]]

\* TurnCoalescer.poll: the merge window of the held turn is over, or not.
Polled(c) == {held[c], <<>>}

\* TurnCoalescer.flush, after the tail was submitted.
Released(c, tail) == LET s == Submitted(c, tail) IN s.ready \o s.held

BlocksOf(turns) == UNION {Blocks(turns[i]) : i \in 1..Len(turns)}

-----------------------------------------------------------------------------
(* The main thread.                                                          *)

\* Transport.__enter__, and the receiver thread that is started whether or not
\* it succeeded.
Connect ==
  /\ pc = "connect"
  /\ \/ socket' = "up" /\ pc' = "mic" /\ UNCHANGED <<sendError, stop>>
     \/ UNCHANGED socket /\ pc' = "stopping" /\ sendError' = TRUE /\ stop' = TRUE
  /\ reader' = "check"
  /\ UNCHANGED <<audioVars, turnVars, ready, sequence, sent, server, inbox, inHand,
                 closedByServer, heard, back, block, exit, cutOff>>

\* The coalescers are polled: a turn goes when its merge window is over.
Poll(c, here, next) ==
  /\ pc = here
  /\ ready' \in Polled(c)
  /\ held' = IF ready' = <<>> THEN held ELSE [held EXCEPT ![c] = <<>>]
  /\ pc' = IF ready' = <<>> THEN next ELSE "send"
  /\ back' = next
  /\ UNCHANGED <<audioVars, open, closed, sequence, sent, sendError, replyVars, linkVars,
                 block, stop, exit, cutOff>>

\* out_q.get with its timeout, and the block is recorded.
Take ==
  /\ pc = "take"
  /\ \/ /\ outQ = <<>> /\ pc' = "mic" /\ UNCHANGED <<outQ, block, recorded>>
     \/ /\ outQ # <<>> /\ outQ' = Tail(outQ) /\ block' = outQ[1]
        /\ recorded' = [recorded EXCEPT ![outQ[1][1]] = Append(@, outQ[1][2])]
        /\ pc' = "feed"
  /\ UNCHANGED <<captured, turnVars, sendVars, replyVars, linkVars, back, stop, exit, cutOff>>

\* The detector hears the block.
Feed ==
  /\ pc = "feed"
  /\ \E d \in Detections(block[1], block[2]) :
       /\ open' = [open EXCEPT ![block[1]] = d.open]
       /\ ready' = d.turns
       /\ closed' = closed \cup BlocksOf(d.turns)
  /\ pc' = IF ready' = <<>> THEN "mic" ELSE "submit"
  /\ UNCHANGED <<audioVars, held, sequence, sent, sendError, replyVars, linkVars,
                 back, block, stop, exit, cutOff>>

\* The coalescer takes the turn that was closed.
Submit ==
  /\ pc = "submit"
  /\ held' = [held EXCEPT ![block[1]] = Submitted(block[1], ready).held]
  /\ ready' = Submitted(block[1], ready).ready
  /\ pc' = IF ready' = <<>> THEN "mic" ELSE "send"
  /\ back' = "mic"
  /\ UNCHANGED <<audioVars, open, closed, sequence, sent, sendError, replyVars, linkVars,
                 block, stop, exit, cutOff>>

\* A frame handed to the socket: read by the server, or lost on a dead link whose
\* end has not been noticed.
Deliver(n) ==
  /\ socket \in {"up", "broken"}
  /\ server' = IF socket = "up" THEN Append(server, n) ELSE server
Refused == socket # "up"

\* The next of the ready turns is sent.  A failure ends the loop.
Send ==
  /\ pc = "send"
  /\ sequence' = sequence + 1
  /\ \/ /\ Deliver(sequence + 1)
        /\ sent' = Append(sent, [turn |-> ready[1], seq |-> sequence + 1])
        /\ ready' = Tail(ready)
        /\ pc' = IF Len(ready) = 1 THEN back ELSE "send"
        /\ UNCHANGED <<sendError, stop>>
     \/ /\ Refused
        /\ sendError' = TRUE /\ stop' = TRUE /\ pc' = "stopping"
        /\ UNCHANGED <<server, sent, ready>>
  /\ UNCHANGED <<audioVars, turnVars, replyVars, socket, inbox, back, block, exit, cutOff>>

\* Ctrl+C reaches the main thread between any two of its steps.
Interrupt ==
  /\ pc \in Working
  /\ pc' = "stopping" /\ stop' = TRUE
  /\ cutOff' = ready /\ ready' = <<>>
  /\ UNCHANGED <<audioVars, turnVars, sequence, sent, sendError, replyVars, linkVars,
                 back, block, exit>>

\* The captures are stopped: what is still in out_q stays there.
StopCaptures ==
  /\ pc = "stopping" /\ pc' = "flush"
  /\ cutOff' = cutOff \o ready /\ ready' = <<>>
  /\ UNCHANGED <<audioVars, turnVars, sequence, sent, sendError, replyVars, linkVars,
                 back, block, stop, exit>>

\* Mutants of FlushAtShutdown: the open turn is sent past the coalescer; it is
\* closed and forgotten.
FlushTailFirst ==
  /\ pc = "flush" /\ pc' = "last"
  /\ \E mic \in DetectorTail(Mic), spk \in DetectorTail(Speaker) :
       /\ ready' = mic \o held[Mic] \o spk \o held[Speaker]
       /\ closed' = closed \cup BlocksOf(mic \o spk)
  /\ recorded' = [c \in Channels |-> Append(recorded[c], 0)]
  /\ open' = [c \in Channels |-> <<>>] /\ held' = [c \in Channels |-> <<>>]
  /\ UNCHANGED <<captured, outQ, sequence, sent, sendError, replyVars, linkVars,
                 back, block, stop, exit, cutOff>>
FlushForgetsTail ==
  /\ pc = "flush" /\ pc' = "last"
  /\ \E mic \in DetectorTail(Mic), spk \in DetectorTail(Speaker) :
       /\ ready' = held[Mic] \o held[Speaker]
       /\ closed' = closed \cup BlocksOf(mic \o spk)
  /\ recorded' = [c \in Channels |-> Append(recorded[c], 0)]
  /\ open' = [c \in Channels |-> <<>>] /\ held' = [c \in Channels |-> <<>>]
  /\ UNCHANGED <<captured, outQ, sequence, sent, sendError, replyVars, linkVars,
                 back, block, stop, exit, cutOff>>
\* flush_at_shutdown: each channel's open turn goes through its coalescer, which
\* is then emptied; the resampler's last samples are recorded.
FlushAtShutdown ==
  /\ pc = "flush" /\ pc' = "last"
  /\ \E mic \in DetectorTail(Mic), spk \in DetectorTail(Speaker) :
       /\ ready' = Released(Mic, mic) \o Released(Speaker, spk)
       /\ closed' = closed \cup BlocksOf(mic \o spk)
  /\ recorded' = [c \in Channels |-> Append(recorded[c], 0)]
  /\ open' = [c \in Channels |-> <<>>] /\ held' = [c \in Channels |-> <<>>]
  /\ UNCHANGED <<captured, outQ, sequence, sent, sendError, replyVars, linkVars,
                 back, block, stop, exit, cutOff>>

\* The last turns are sent unless sending had failed; what fails now is dropped
\* without a word.
SendLast ==
  /\ pc = "last" /\ ready # <<>>
  /\ ready' = Tail(ready) /\ sequence' = sequence + 1
  /\ \/ /\ ~sendError /\ Deliver(sequence + 1)
        /\ sent' = Append(sent, [turn |-> ready[1], seq |-> sequence + 1])
     \/ /\ sendError \/ Refused
        /\ UNCHANGED <<server, sent>>
  /\ UNCHANGED <<audioVars, turnVars, sendError, replyVars, socket, inbox,
                 pc, back, block, stop, exit, cutOff>>

\* MSG_FLUSH, if there is a transport.
SendFlush ==
  /\ pc = "last" /\ ready = <<>>
  /\ pc' = IF socket = "none" /\ sendError THEN "write" ELSE "drain"
  /\ server' = IF socket = "up" THEN Append(server, 0) ELSE server
  /\ UNCHANGED <<audioVars, turnVars, sendVars, replyVars, socket, inbox,
                 back, block, stop, exit, cutOff>>

\* Mutant of Drain: the deadline is forgotten.
DrainWithoutDeadline ==
  /\ pc = "drain" /\ closedByServer
  /\ pc' = "write" /\ socket' = IF socket = "up" THEN "closed" ELSE socket
  /\ UNCHANGED <<audioVars, turnVars, sendVars, replyVars, server, inbox,
                 back, block, stop, exit, cutOff>>
\* The wait for the stats frame.  Its 30 s outlast the half second in which the
\* receiver sees the stop event.
Drain ==
  /\ pc = "drain"
  /\ closedByServer \/ reader \in {"unborn", "gone"}
  /\ pc' = "write" /\ socket' = IF socket = "up" THEN "closed" ELSE socket
  /\ UNCHANGED <<audioVars, turnVars, sendVars, replyVars, server, inbox,
                 back, block, stop, exit, cutOff>>

\* What the transcript is made of: the live items, or the server's attribution of
\* them if there are any and the request is wanted and answered.
FinalResults ==
  IF SelectSeq(heard, LAMBDA n : n # 0) = <<>> THEN {"live"} ELSE {"live", "re-diarized"}

\* The files of main: no transcript after a failed send.
Write ==
  /\ pc = "write" /\ pc' = "end"
  /\ exit' \in IF sendError THEN {"failed"} ELSE FinalResults
  /\ UNCHANGED <<audioVars, turnVars, sendVars, replyVars, linkVars,
                 back, block, stop, cutOff>>

\* A second Ctrl+C leaves the shutdown where it is: nothing is written.
InterruptAgain ==
  /\ pc \in {"stopping", "flush", "last", "drain", "write"}
  /\ pc' = "end" /\ exit' = "interrupted"
  /\ UNCHANGED <<audioVars, turnVars, sendVars, replyVars, linkVars,
                 back, block, stop, cutOff>>

-----------------------------------------------------------------------------
(* The receiver thread: Transport.receive and on_message until stop is set.  *)

CheckStop ==
  /\ reader = "check" /\ reader' = IF stop THEN "gone" ELSE "receive"
  /\ UNCHANGED <<inHand, closedByServer, heard>>

\* A message, or None: the half second is over, or the socket is dead.
Receive ==
  /\ reader = "receive"
  /\ \/ /\ socket = "up" /\ inbox # <<>>
        /\ inHand' = <<inbox[1]>> /\ inbox' = Tail(inbox)
        /\ closedByServer' = (closedByServer \/ inbox[1] = 0)
        /\ reader' = "handle"
     \/ /\ reader' = IF closedByServer THEN "gone" ELSE "check"
        /\ UNCHANGED <<inHand, inbox, closedByServer>>
  /\ UNCHANGED heard

OnMessage ==
  /\ reader = "handle" /\ reader' = "check"
  /\ heard' = heard \o inHand /\ inHand' = <<>>
  /\ UNCHANGED closedByServer

Receiver ==
  /\ \/ CheckStop /\ UNCHANGED inbox
     \/ Receive
     \/ OnMessage /\ UNCHANGED inbox
  /\ UNCHANGED <<audioVars, turnVars, sendVars, socket, server, pc, back, block, stop, exit, cutOff>>

-----------------------------------------------------------------------------
(* The server, and the network.                                              *)

\* One worker answers turn after turn (or tells that it dropped the oldest), and
\* sends its stats after the flush.
Answer ==
  /\ socket = "up" /\ server # <<>>
  /\ server' = Tail(server) /\ inbox' = Append(inbox, server[1])
  /\ UNCHANGED <<audioVars, turnVars, sendVars, replyVars, socket,
                 pc, back, block, stop, exit, cutOff>>

LinkBreaks ==
  /\ socket = "up" /\ socket' = "broken"
  /\ UNCHANGED <<audioVars, turnVars, sendVars, replyVars, server, inbox,
                 pc, back, block, stop, exit, cutOff>>

ShutDown == StopCaptures \/ FlushAtShutdown \/ SendLast \/ SendFlush \/ Drain \/ Write

ClientNext ==
  \/ \E c \in Channels : Callback(c)
  \/ Connect \/ Poll(Mic, "mic", "speaker") \/ Poll(Speaker, "speaker", "take")
  \/ Take \/ Feed \/ Submit \/ Send \/ Interrupt
  \/ ShutDown \/ InterruptAgain
  \/ Receiver
  \/ Answer \/ LinkBreaks

ClientSpec ==
  /\ ClientInit /\ [][ClientNext]_clientVars
  /\ WF_clientVars(ShutDown) /\ WF_clientVars(Receiver)

-----------------------------------------------------------------------------
(* Properties. *)

\* Turns go out under growing sequence numbers, and on each channel in the order
\* they were spoken, no audio twice, across polls, merges, a failed send and the
\* shutdown.
TurnsGoOutInOrder ==
  \A i, k \in 1..Len(sent) : i < k =>
    /\ sent[i].seq < sent[k].seq
    /\ sent[i].turn.channel = sent[k].turn.channel => sent[i].turn.to < sent[k].turn.from

\* A session that ends well has sent every turn its detectors closed, but for the
\* one that was in the main thread's hand when Ctrl+C came and those a link that
\* failed in the shutdown swallowed.
SpeechIsSent ==
  exit \in {"live", "re-diarized"} /\ socket = "closed"
    => /\ closed \subseteq BlocksOf(cutOff) \cup UNION {Blocks(sent[i].turn) : i \in 1..Len(sent)}
       /\ Len(cutOff) <= 1

\* The wait at the end of the session is "to drain before the socket closes", for
\* the replies to the last turns and the stats that follow them.  It is not so: the
\* receiver ended with the loop, at most one reply is read after that.
RepliesAreRead ==
  exit \in {"live", "re-diarized"} /\ socket = "closed" /\ server = <<>>
    => inbox = <<>>

\* A client that has been told to stop comes to its end: the stats frame it waits
\* for is mostly never read, and the deadline has to release it.
SessionEnds == stop ~> pc = "end"

=============================================================================

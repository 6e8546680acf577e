--------------------------- MODULE LiveClientProofs ---------------------------
(***************************************************************************)
(* Theorems of LiveClient, for any merge gap and span and recordings of    *)
(* any length.                                                             *)
(***************************************************************************)
EXTENDS LiveClient, SequenceTheorems, TLAPS

TurnSet == [channel : Channels, from : Nat, to : Nat]
Optional == {<<>>} \cup {<<t>> : t \in TurnSet}
SentSet == [turn : TurnSet, seq : Nat]
Items == Channels \X Nat
Places == Working \cup {"stopping", "flush", "last", "drain", "write", "end"}

ClientTypeOK ==
  /\ captured \in [Channels -> Nat] /\ outQ \in Seq(Items)
  /\ recorded \in [Channels -> Seq(Nat)]
  /\ open \in [Channels -> Optional] /\ held \in [Channels -> Optional]
  /\ pc \in Places /\ back \in {"mic", "speaker", "take"} /\ block \in Items
  /\ ready \in Seq(TurnSet) /\ sequence \in Nat
  /\ sent \in Seq(SentSet) /\ sendError \in BOOLEAN /\ stop \in BOOLEAN
  /\ socket \in {"none", "up", "broken", "closed"}
  /\ server \in Seq(Nat) /\ inbox \in Seq(Nat)
  /\ reader \in {"unborn", "check", "receive", "handle", "gone"}
  /\ inHand \in Seq(Nat) /\ closedByServer \in BOOLEAN /\ heard \in Seq(Nat)
  /\ exit \in {"running", "failed", "live", "re-diarized", "interrupted"}
  /\ closed \subseteq Items /\ cutOff \in Seq(TurnSet)

-----------------------------------------------------------------------------
(* Where a turn is *)

Among(t, ts) == \E k \in 1..Len(ts) : t = ts[k]
InSent(t) == \E i \in 1..Len(sent) : t = sent[i].turn
InReady(t) == Among(t, ready)
InHeld(t) == \E c \in Channels : held[c] = <<t>>
InOpen(t) == \E c \in Channels : open[c] = <<t>>
InCutOff(t) == Among(t, cutOff)

\* The audio of one lies before that of the other, or on another channel.
Before(t, u) == t.channel = u.channel => t.to < u.from

\* The audio of a turn was captured, and all that its channel has still to hear
\* comes after it.
Past(t) ==
  /\ t.from <= t.to /\ t.to <= captured[t.channel]
  /\ \A i \in 1..Len(outQ) : outQ[i][1] = t.channel => t.to < outQ[i][2]
  /\ pc = "feed" /\ block[1] = t.channel => t.to < block[2]

AudioInOrder ==
  /\ \A i \in 1..Len(outQ) : outQ[i][2] <= captured[outQ[i][1]]
  /\ \A i, k \in 1..Len(outQ) :
       i < k /\ outQ[i][1] = outQ[k][1] => outQ[i][2] < outQ[k][2]
  /\ pc = "feed" => /\ block[2] <= captured[block[1]]
                    /\ \A i \in 1..Len(outQ) : outQ[i][1] = block[1] => block[2] < outQ[i][2]

InHand(t) == InReady(t) \/ InHeld(t) \/ InOpen(t)
TurnsArePast == \A t \in TurnSet : InSent(t) \/ InHand(t) => Past(t)

SentInOrder ==
  /\ \A i \in 1..Len(sent) : sent[i].seq <= sequence
  /\ \A i, k \in 1..Len(sent) : i < k =>
       sent[i].seq < sent[k].seq /\ Before(sent[i].turn, sent[k].turn)

SentIsFirst == \A t, u \in TurnSet : InSent(t) /\ InHand(u) => Before(t, u)

InOrder(ts) == \A i, k \in 1..Len(ts) : i < k => Before(ts[i], ts[k])
\* What the detector has just closed comes after what the coalescer holds.
HeldInPlace ==
  \A c \in Channels, h \in TurnSet : held[c] = <<h>> =>
    /\ h.channel = c
    /\ \A t \in TurnSet : InReady(t) => IF pc = "submit" THEN Before(h, t) ELSE Before(t, h)
OpenIsLast ==
  \A c \in Channels, o \in TurnSet : open[c] = <<o>> =>
    /\ o.channel = c
    /\ \A t \in TurnSet : InReady(t) \/ InHeld(t) => Before(t, o)

TurnsInOrder ==
  TurnsArePast /\ SentInOrder /\ SentIsFirst /\ InOrder(ready) /\ HeldInPlace /\ OpenIsLast

\* What the main thread has in its hands, by where it stands.
Idle == \A c \in Channels : held[c] = <<>> /\ open[c] = <<>>
Phases ==
  /\ pc \in {"connect", "mic", "speaker", "take", "feed", "flush", "drain", "write"} => ready = <<>>
  /\ pc = "submit" => \E t \in TurnSet : ready = <<t>> /\ t.channel = block[1]
  /\ pc = "submit" => open[block[1]] = <<>>
  /\ pc = "send" => \E t \in TurnSet : ready = <<t>>
  /\ pc \in Working => cutOff = <<>>
  /\ pc = "stopping" => \/ cutOff = <<>> /\ ready \in Optional
                        \/ ready = <<>> /\ cutOff \in Optional
  /\ pc \in {"flush", "last", "drain", "write", "end"} => cutOff \in Optional
  /\ pc \in {"last", "drain", "write"} => Idle
  /\ pc = "connect" => closed = {}
  /\ socket = "closed" => pc \in {"write", "end"}
  /\ exit # "running" => pc = "end"
  /\ exit \in {"live", "re-diarized"} => ~sendError /\ ready = <<>> /\ Idle

\* A block of a turn a detector closed is in a turn that is on its way, was sent
\* or was cut off, unless the connection failed.
InWay(t) == InSent(t) \/ InReady(t) \/ InHeld(t) \/ InCutOff(t)
Kept(b) == \E t \in TurnSet : InWay(t) /\ b \in Blocks(t)
SpeechIsKept == sendError \/ socket \in {"none", "broken"} \/ \A b \in closed : Kept(b)

ClientInv == ClientTypeOK /\ AudioInOrder /\ TurnsInOrder /\ Phases /\ SpeechIsKept

-----------------------------------------------------------------------------
(* Types *)

LEMMA HeadOf ==
  ASSUME NEW S, NEW s \in Seq(S), s # <<>>
  PROVE  s[1] \in S /\ Tail(s) \in Seq(S) /\ 1 \in 1..Len(s)
BY HeadTailProperties, EmptySeq, ElementOfSeq

LEMMA OneOrNone ==
  ASSUME NEW x \in Optional
  PROVE  /\ x \in Seq(TurnSet)
         /\ x = <<>> \/ \E t \in TurnSet : x = <<t>> /\ x[1] = t /\ Len(x) = 1
<1>1. CASE x = <<>>
  BY <1>1
<1>2. ASSUME NEW t \in TurnSet, x = <<t>> PROVE x \in Seq(TurnSet) /\ x[1] = t /\ Len(x) = 1
  BY <1>2
<1> QED BY <1>1, <1>2 DEF Optional

LEMMA TurnType ==
  ASSUME NEW c \in Channels, NEW from \in Nat, NEW to \in Nat
  PROVE  /\ Turn(c, from, to) \in TurnSet
         /\ Turn(c, from, to).channel = c /\ Turn(c, from, to).from = from
         /\ Turn(c, from, to).to = to
BY DEF Turn, TurnSet

LEMMA TurnFieldTypes ==
  ASSUME NEW t \in TurnSet
  PROVE  t.channel \in Channels /\ t.from \in Nat /\ t.to \in Nat
BY DEF TurnSet

\* The blocks of turns that come one by one or not at all.
LEMMA BlocksOfType ==
  ASSUME NEW ts \in Seq(TurnSet)
  PROVE  /\ BlocksOf(ts) \subseteq Items
         /\ \A b : b \in BlocksOf(ts) <=> \E i \in 1..Len(ts) : b \in Blocks(ts[i])
<1>1. \A b : b \in BlocksOf(ts) <=> \E i \in 1..Len(ts) : b \in Blocks(ts[i])
  BY DEF BlocksOf
<1>2. ASSUME NEW i \in 1..Len(ts) PROVE Blocks(ts[i]) \subseteq Items
  <2>1. ts[i] \in TurnSet
    BY ElementOfSeq
  <2> QED BY <2>1 DEF Blocks, TurnSet, Items
<1> QED BY <1>1, <1>2

\* What the coalescer of a channel has and gives when a turn is submitted.
LEMMA SubmittedType ==
  ASSUME NEW c \in Channels, held[c] \in Optional, NEW ts \in Optional
  PROVE  /\ Submitted(c, ts).held \in Optional
         /\ Submitted(c, ts).ready \in Optional
<1>1. CASE ts = <<>> \/ held[c] = <<>>
  BY <1>1 DEF Submitted, Optional
<1>2. CASE ~(ts = <<>> \/ held[c] = <<>>)
  <2>1. PICK h \in TurnSet, t \in TurnSet : held[c][1] = h /\ ts[1] = t
    BY <1>2, OneOrNone
  <2>2. Turn(c, h.from, t.to) \in TurnSet
    BY TurnType, TurnFieldTypes
  <2>3. \/ Submitted(c, ts) = [held |-> <<Turn(c, h.from, t.to)>>, ready |-> <<>>]
        \/ Submitted(c, ts) = [held |-> ts, ready |-> held[c]]
    BY <1>2, <2>1 DEF Submitted
  <2> QED BY <2>2, <2>3 DEF Optional
<1> QED BY <1>1, <1>2

LEMMA DetectionsType ==
  ASSUME NEW c \in Channels, open[c] \in Optional, NEW b \in Nat, NEW d \in Detections(c, b)
  PROVE  d.open \in Optional /\ d.turns \in Optional
<1>1. Turn(c, b, b) \in TurnSet
  BY TurnType
<1>2. CASE open[c] = <<>>
  BY <1>1, <1>2 DEF Detections, Optional
<1>3. CASE open[c] # <<>>
  <2>1. PICK o \in TurnSet : open[c][1] = o
    BY <1>3, OneOrNone
  <2>2. Turn(c, o.from, b) \in TurnSet
    BY TurnType, TurnFieldTypes
  <2> QED BY <1>3, <2>1, <2>2 DEF Detections, Optional
<1> QED BY <1>2, <1>3

LEMMA TypeStep == ASSUME ClientInv, [ClientNext]_clientVars PROVE ClientTypeOK'
<1> USE DEF ClientInv
<1>1. ASSUME NEW c \in Channels, Callback(c) PROVE ClientTypeOK'
  <2>1. captured[c] + 1 \in Nat /\ <<c, captured[c] + 1>> \in Items
    BY DEF ClientTypeOK, Items
  <2>2. captured' \in [Channels -> Nat] /\ outQ' \in Seq(Items)
    BY <1>1, <2>1, AppendProperties DEF Callback, ClientTypeOK
  <2> QED BY SMTT(30), <1>1, <2>2 DEF Callback, ClientTypeOK, turnVars, sendVars, replyVars, linkVars
<1>2. CASE Connect
  BY <1>2 DEF Connect, ClientTypeOK, audioVars, turnVars, Places, Working
<1>3. ASSUME NEW c \in Channels, NEW here, NEW next \in {"speaker", "take"}, Poll(c, here, next)
      PROVE ClientTypeOK'
  <2>1. ready' \in Optional /\ held' \in [Channels -> Optional]
    BY <1>3 DEF Poll, Polled, ClientTypeOK, Optional
  <2>2. ready' \in Seq(TurnSet) /\ pc' \in Places /\ back' \in {"mic", "speaker", "take"}
    BY <1>3, <2>1, OneOrNone DEF Poll, Places, Working
  <2> QED BY <1>3, <2>1, <2>2 DEF Poll, ClientTypeOK, audioVars, replyVars, linkVars
<1>4. CASE Take
  <2>1. pc' \in Places
    BY <1>4 DEF Take, Places, Working
  <2>2. CASE outQ = <<>>
    BY <1>4, <2>1, <2>2 DEF Take, ClientTypeOK, turnVars, sendVars, replyVars, linkVars
  <2>3. CASE outQ # <<>>
    <3>1. outQ[1] \in Items /\ Tail(outQ) \in Seq(Items)
      BY <2>3, HeadOf DEF ClientTypeOK
    <3>2. /\ outQ' = Tail(outQ) /\ block' = outQ[1]
          /\ recorded' = [recorded EXCEPT ![outQ[1][1]] = Append(@, outQ[1][2])]
      BY <1>4, <2>3 DEF Take
    <3>3. outQ[1][1] \in Channels /\ outQ[1][2] \in Nat
      BY <3>1 DEF Items
    <3>4. Append(recorded[outQ[1][1]], outQ[1][2]) \in Seq(Nat)
      BY <3>3, AppendProperties DEF ClientTypeOK
    <3>5. recorded' \in [Channels -> Seq(Nat)]
      BY <3>2, <3>4 DEF ClientTypeOK
    <3>6. outQ' \in Seq(Items) /\ block' \in Items
      BY <3>1, <3>2
    <3>7. UNCHANGED <<captured, turnVars, sendVars, replyVars, linkVars, back, stop, exit, cutOff>>
      BY <1>4 DEF Take
    <3> QED BY <2>1, <3>5, <3>6, <3>7
             DEF ClientTypeOK, turnVars, sendVars, replyVars, linkVars
  <2> QED BY <2>2, <2>3
<1>5. CASE Feed
  <2>1. block[1] \in Channels /\ block[2] \in Nat /\ open[block[1]] \in Optional
    BY DEF ClientTypeOK, Items
  <2>2. PICK d \in Detections(block[1], block[2]) :
          /\ open' = [open EXCEPT ![block[1]] = d.open]
          /\ ready' = d.turns
          /\ closed' = closed \cup BlocksOf(d.turns)
    BY <1>5 DEF Feed
  <2>3. d.open \in Optional /\ d.turns \in Optional
    BY <2>1, DetectionsType
  <2>4. ready' \in Seq(TurnSet) /\ closed' \subseteq Items
    BY <2>2, <2>3, OneOrNone, BlocksOfType DEF ClientTypeOK
  <2>5. open' \in [Channels -> Optional] /\ pc' \in Places
    BY <1>5, <2>2, <2>3 DEF ClientTypeOK, Feed, Places, Working
  <2> QED BY SMTT(30), <1>5, <2>4, <2>5 DEF Feed, ClientTypeOK, audioVars, replyVars, linkVars
<1>6. CASE Submit
  <2>1. PICK t \in TurnSet : ready = <<t>>
    BY <1>6 DEF Submit, Phases
  <2>2. block[1] \in Channels /\ ready \in Optional /\ held[block[1]] \in Optional
    BY <2>1 DEF ClientTypeOK, Optional, Items
  <2>3. /\ Submitted(block[1], ready).held \in Optional
        /\ Submitted(block[1], ready).ready \in Optional
    BY <2>2, SubmittedType
  <2>4. ready' \in Seq(TurnSet)
    BY <1>6, <2>3, OneOrNone DEF Submit
  <2>5. held' \in [Channels -> Optional] /\ pc' \in Places /\ back' = "mic"
    BY <1>6, <2>3 DEF ClientTypeOK, Submit, Places, Working
  <2> QED BY <1>6, <2>4, <2>5 DEF Submit, ClientTypeOK, audioVars, replyVars, linkVars
<1>7. CASE Send
  <2>1. PICK t \in TurnSet : ready = <<t>>
    BY <1>7 DEF Send, Phases
  <2>2. ready[1] \in TurnSet /\ Tail(ready) \in Seq(TurnSet)
    BY <2>1, HeadOf DEF ClientTypeOK
  <2>6. sequence + 1 \in Nat /\ server \in Seq(Nat) /\ ready \in Seq(TurnSet)
    BY DEF ClientTypeOK
  <2>7. Append(server, sequence + 1) \in Seq(Nat)
    BY <2>6, AppendProperties
  <2>3. sequence' \in Nat /\ server' \in Seq(Nat) /\ ready' \in Seq(TurnSet) /\ pc' \in Places
    <3>1. sequence' = sequence + 1 /\ server' \in {server, Append(server, sequence + 1)}
      BY <1>7 DEF Send, Deliver
    <3>2. ready' \in {ready, Tail(ready)} /\ pc' \in {back, "send", "stopping"}
      BY <1>7 DEF Send
    <3>3. pc' \in Places
      BY <3>2 DEF ClientTypeOK, Places, Working
    <3> QED BY <3>1, <3>2, <3>3, <2>2, <2>6, <2>7
  <2>4. sent' \in Seq(SentSet)
    <3>1. [turn |-> ready[1], seq |-> sequence + 1] \in SentSet
      BY <2>2 DEF ClientTypeOK, SentSet
    <3>2. sent' = sent \/ sent' = Append(sent, [turn |-> ready[1], seq |-> sequence + 1])
      BY <1>7 DEF Send
    <3>3. sent \in Seq(SentSet)
      BY DEF ClientTypeOK
    <3>4. PICK e \in SentSet : e = [turn |-> ready[1], seq |-> sequence + 1]
      BY <3>1
    <3>5. Append(sent, e) \in Seq(SentSet)
      BY <3>3, AppendProperties
    <3> QED BY <3>2, <3>3, <3>4, <3>5
  <2>5. sendError' \in BOOLEAN /\ stop' \in BOOLEAN
    BY <1>7 DEF Send, ClientTypeOK
  <2> QED BY <1>7, <2>3, <2>4, <2>5 DEF Send, ClientTypeOK, audioVars, turnVars, replyVars
<1>8. CASE Interrupt
  BY <1>8 DEF Interrupt, ClientTypeOK, audioVars, turnVars, replyVars, linkVars, Places
<1>9. CASE StopCaptures
  <2>1. cutOff' \in Seq(TurnSet) /\ ready' \in Seq(TurnSet)
    BY <1>9, ConcatProperties DEF StopCaptures, ClientTypeOK
  <2> QED BY <1>9, <2>1 DEF StopCaptures, ClientTypeOK, audioVars, turnVars, replyVars, linkVars, Places
<1>10. CASE FlushAtShutdown
  <2>1. PICK mic \in DetectorTail(Mic), spk \in DetectorTail(Speaker) :
          /\ ready' = Released(Mic, mic) \o Released(Speaker, spk)
          /\ closed' = closed \cup BlocksOf(mic \o spk)
    BY <1>10 DEF FlushAtShutdown
  <2>2. ASSUME NEW c \in Channels, NEW tail \in DetectorTail(c)
        PROVE  tail \in Seq(TurnSet) /\ Released(c, tail) \in Seq(TurnSet)
    <3>1. tail \in Optional /\ held[c] \in Optional
      BY DEF DetectorTail, ClientTypeOK, Optional
    <3>2. /\ Submitted(c, tail).held \in Seq(TurnSet)
          /\ Submitted(c, tail).ready \in Seq(TurnSet)
      BY <3>1, SubmittedType, OneOrNone
    <3> QED BY <3>1, <3>2, OneOrNone, ConcatProperties DEF Released
  <2>3. Mic \in Channels /\ Speaker \in Channels
    BY DEF Channels
  <2>4. ready' \in Seq(TurnSet) /\ mic \o spk \in Seq(TurnSet)
    BY <2>1, <2>2, <2>3, ConcatProperties
  <2>5. closed' \subseteq Items
    BY <2>1, <2>4, BlocksOfType DEF ClientTypeOK
  <2>6. /\ open' \in [Channels -> Optional] /\ held' \in [Channels -> Optional]
        /\ pc' \in Places
    BY <1>10 DEF FlushAtShutdown, Optional, Places
  <2>7. recorded' \in [Channels -> Seq(Nat)]
    <3>1. \A c \in Channels : Append(recorded[c], 0) \in Seq(Nat)
      BY DEF ClientTypeOK
    <3> QED BY <1>10, <3>1 DEF FlushAtShutdown
  <2> QED BY <1>10, <2>4, <2>5, <2>6, <2>7 DEF FlushAtShutdown, ClientTypeOK, replyVars, linkVars
<1>11. CASE SendLast
  <2>1. ready[1] \in TurnSet /\ Tail(ready) \in Seq(TurnSet)
    BY <1>11, HeadOf DEF SendLast, ClientTypeOK
  <2>2. sequence' \in Nat /\ server' \in Seq(Nat) /\ ready' \in Seq(TurnSet)
    <3>1. sequence + 1 \in Nat /\ server \in Seq(Nat)
      BY DEF ClientTypeOK
    <3>2. Append(server, sequence + 1) \in Seq(Nat)
      BY <3>1, AppendProperties
    <3>3. /\ sequence' = sequence + 1 /\ server' \in {server, Append(server, sequence + 1)}
          /\ ready' = Tail(ready)
      BY <1>11 DEF SendLast, Deliver
    <3> QED BY <2>1, <3>1, <3>2, <3>3
  <2>3. sent' \in Seq(SentSet)
    <3>1. [turn |-> ready[1], seq |-> sequence + 1] \in SentSet
      BY <2>1 DEF ClientTypeOK, SentSet
    <3>2. sent' = sent \/ sent' = Append(sent, [turn |-> ready[1], seq |-> sequence + 1])
      BY <1>11 DEF SendLast
    <3>3. sent \in Seq(SentSet)
      BY DEF ClientTypeOK
    <3>4. PICK e \in SentSet : e = [turn |-> ready[1], seq |-> sequence + 1]
      BY <3>1
    <3>5. Append(sent, e) \in Seq(SentSet)
      BY <3>3, AppendProperties
    <3> QED BY <3>2, <3>3, <3>4, <3>5
  <2> QED BY <1>11, <2>2, <2>3 DEF SendLast, ClientTypeOK, audioVars, turnVars, replyVars
<1>12. CASE SendFlush
  <2>1. server' \in Seq(Nat) /\ pc' \in Places
    BY <1>12 DEF SendFlush, ClientTypeOK, Places
  <2> QED BY <1>12, <2>1 DEF SendFlush, ClientTypeOK, audioVars, turnVars, sendVars, replyVars
<1>13. CASE Drain
  BY <1>13 DEF Drain, ClientTypeOK, audioVars, turnVars, sendVars, replyVars, Places
<1>14. CASE Write
  BY <1>14 DEF Write, FinalResults, ClientTypeOK, audioVars, turnVars, sendVars, replyVars, linkVars, Places
<1>15. CASE InterruptAgain
  BY <1>15 DEF InterruptAgain, ClientTypeOK, audioVars, turnVars, sendVars, replyVars, linkVars, Places
<1>16. CASE Receiver
  <2>1. UNCHANGED <<audioVars, turnVars, sendVars, socket, server, pc, back, block, stop, exit, cutOff>>
    BY <1>16 DEF Receiver
  <2>2. /\ reader' \in {"unborn", "check", "receive", "handle", "gone"}
        /\ closedByServer' \in BOOLEAN
    BY <1>16 DEF Receiver, CheckStop, Receive, OnMessage, ClientTypeOK
  <2>3. inHand' \in Seq(Nat) /\ inbox' \in Seq(Nat) /\ heard' \in Seq(Nat)
    <3>1. CASE CheckStop /\ UNCHANGED inbox
      BY <3>1 DEF CheckStop, ClientTypeOK
    <3>2. CASE Receive
      <4>1. CASE inbox # <<>>
        <5>1. inbox[1] \in Nat /\ Tail(inbox) \in Seq(Nat)
          BY <4>1, HeadOf DEF ClientTypeOK
        <5>2. <<inbox[1]>> \in Seq(Nat)
          BY <5>1
        <5>3. /\ inHand' \in {inHand, <<inbox[1]>>} /\ inbox' \in {inbox, Tail(inbox)}
              /\ heard' = heard
          BY <3>2 DEF Receive
        <5> QED BY <5>1, <5>2, <5>3 DEF ClientTypeOK
      <4>2. CASE inbox = <<>>
        BY <3>2, <4>2 DEF Receive, ClientTypeOK
      <4> QED BY <4>1, <4>2
    <3>3. CASE OnMessage /\ UNCHANGED inbox
      BY <3>3, ConcatProperties DEF OnMessage, ClientTypeOK
    <3> QED BY <1>16, <3>1, <3>2, <3>3 DEF Receiver
  <2> QED BY <2>1, <2>2, <2>3 DEF ClientTypeOK, audioVars, turnVars, sendVars
<1>17. CASE Answer
  <2>1. server[1] \in Nat /\ Tail(server) \in Seq(Nat)
    BY <1>17, HeadOf DEF Answer, ClientTypeOK
  <2>2. server' \in Seq(Nat) /\ inbox' \in Seq(Nat)
    BY <1>17, <2>1 DEF Answer, ClientTypeOK
  <2> QED BY <1>17, <2>2 DEF Answer, ClientTypeOK, audioVars, turnVars, sendVars, replyVars
<1>18. CASE LinkBreaks
  BY <1>18 DEF LinkBreaks, ClientTypeOK, audioVars, turnVars, sendVars, replyVars
<1>19. CASE UNCHANGED clientVars
  BY <1>19 DEF clientVars, ClientTypeOK, audioVars, turnVars, sendVars, replyVars, linkVars
<1> QED
  BY <1>1, <1>2, <1>3, <1>4, <1>5, <1>6, <1>7, <1>8, <1>9, <1>10, <1>11, <1>12, <1>13,
     <1>14, <1>15, <1>16, <1>17, <1>18, <1>19 DEF ClientNext, ShutDown, Channels

-----------------------------------------------------------------------------
(* Lists of turns *)

LEMMA AmongType ==
  ASSUME NEW ts \in Seq(TurnSet), NEW t, Among(t, ts)
  PROVE  t \in TurnSet
BY ElementOfSeq DEF Among

LEMMA AmongFew ==
  /\ \A t : ~Among(t, <<>>)
  /\ \A t, u : Among(t, <<u>>) <=> t = u
BY DEF Among

LEMMA AmongTail ==
  ASSUME NEW ts \in Seq(TurnSet), ts # <<>>
  PROVE  /\ Tail(ts) \in Seq(TurnSet) /\ Len(Tail(ts)) = Len(ts) - 1 /\ Len(ts) \in Nat
         /\ ts[1] \in TurnSet /\ Among(ts[1], ts)
         /\ \A k \in 1..Len(Tail(ts)) : Tail(ts)[k] = ts[k + 1] /\ k + 1 \in 1..Len(ts)
         /\ \A t : Among(t, ts) <=> t = ts[1] \/ Among(t, Tail(ts))
<1>1. /\ Tail(ts) \in Seq(TurnSet) /\ Len(Tail(ts)) = Len(ts) - 1 /\ Len(ts) \in Nat
      /\ ts[1] \in TurnSet /\ 1 \in 1..Len(ts)
      /\ \A k \in 1..Len(Tail(ts)) : Tail(ts)[k] = ts[k + 1] /\ k + 1 \in 1..Len(ts)
  BY HeadOf, HeadTailProperties, LenProperties
<1>2. ASSUME NEW t PROVE Among(t, ts) <=> t = ts[1] \/ Among(t, Tail(ts))
  <2>1. ASSUME Among(t, ts) PROVE t = ts[1] \/ Among(t, Tail(ts))
    <3>1. PICK k \in 1..Len(ts) : t = ts[k]
      BY <2>1 DEF Among
    <3>2. CASE k = 1
      BY <3>1, <3>2
    <3>3. CASE k # 1
      <4>1. k - 1 \in 1..Len(Tail(ts)) /\ (k - 1) + 1 = k
        BY <1>1, <3>3
      <4>2. Tail(ts)[k - 1] = ts[k]
        BY <1>1, <4>1
      <4> QED BY <3>1, <4>1, <4>2 DEF Among
    <3> QED BY <3>2, <3>3
  <2>2. ASSUME t = ts[1] \/ Among(t, Tail(ts)) PROVE Among(t, ts)
    BY <1>1, <2>2 DEF Among
  <2> QED BY <2>1, <2>2
<1>3. Among(ts[1], ts)
  BY <1>1 DEF Among
<1> QED BY <1>1, <1>2, <1>3

LEMMA AmongBoth ==
  ASSUME NEW a \in Seq(TurnSet), NEW b \in Seq(TurnSet)
  PROVE  /\ a \o b \in Seq(TurnSet)
         /\ \A t : Among(t, a \o b) <=> Among(t, a) \/ Among(t, b)
<1>1. /\ a \o b \in Seq(TurnSet) /\ Len(a \o b) = Len(a) + Len(b)
      /\ \A i \in 1..Len(a \o b) : (a \o b)[i] = IF i <= Len(a) THEN a[i] ELSE b[i - Len(a)]
  BY ConcatProperties
<1>2. PICK m \in Nat, n \in Nat : m = Len(a) /\ n = Len(b)
  BY LenProperties
<1>3. ASSUME NEW t, Among(t, a \o b) PROVE Among(t, a) \/ Among(t, b)
  <2>1. PICK i \in 1..(m + n) : t = (a \o b)[i]
    BY <1>1, <1>2, <1>3 DEF Among
  <2>2. CASE i <= m
    BY <1>1, <1>2, <2>1, <2>2 DEF Among
  <2>3. CASE ~(i <= m)
    <3>1. i - m \in 1..n
      BY <2>3
    <3> QED BY <1>1, <1>2, <2>1, <2>3, <3>1 DEF Among
  <2> QED BY <2>2, <2>3
<1>4. ASSUME NEW t, Among(t, a) PROVE Among(t, a \o b)
  <2>1. PICK i \in 1..m : t = a[i]
    BY <1>2, <1>4 DEF Among
  <2>2. i \in 1..(m + n) /\ i <= m
    OBVIOUS
  <2> QED BY <1>1, <1>2, <2>1, <2>2 DEF Among
<1>5. ASSUME NEW t, Among(t, b) PROVE Among(t, a \o b)
  <2>1. PICK i \in 1..n : t = b[i]
    BY <1>2, <1>5 DEF Among
  <2>2. m + i \in 1..(m + n) /\ ~(m + i <= m) /\ (m + i) - m = i
    OBVIOUS
  <2>3. (a \o b)[m + i] = b[i]
    BY <1>1, <1>2, <2>2
  <2> QED BY <1>1, <1>2, <2>1, <2>2, <2>3 DEF Among
<1> QED BY <1>1, <1>3, <1>4, <1>5

\* Two lists in order, the first before the second.
LEMMA OrderOfBoth ==
  ASSUME NEW a \in Seq(TurnSet), NEW b \in Seq(TurnSet), InOrder(a), InOrder(b),
         \A t, u : Among(t, a) /\ Among(u, b) => Before(t, u)
  PROVE  InOrder(a \o b)
<1>1. /\ a \o b \in Seq(TurnSet) /\ Len(a \o b) = Len(a) + Len(b)
      /\ \A i \in 1..Len(a \o b) : (a \o b)[i] = IF i <= Len(a) THEN a[i] ELSE b[i - Len(a)]
  BY ConcatProperties
<1>2. PICK m \in Nat, n \in Nat : m = Len(a) /\ n = Len(b)
  BY LenProperties
<1>3. ASSUME NEW i \in 1..(m + n), NEW k \in 1..(m + n), i < k
      PROVE  Before((a \o b)[i], (a \o b)[k])
  <2>1. CASE k <= m
    <3>1. i \in 1..m /\ k \in 1..m /\ i <= m
      BY <1>3, <2>1
    <3>2. (a \o b)[i] = a[i] /\ (a \o b)[k] = a[k]
      BY <1>1, <1>2, <2>1, <3>1
    <3>3. Before(a[i], a[k])
      BY <1>2, <1>3, <3>1 DEF InOrder
    <3> QED BY <3>2, <3>3
  <2>2. CASE i <= m /\ ~(k <= m)
    <3>1. i \in 1..m /\ k - m \in 1..n
      BY <1>3, <2>2
    <3>2. (a \o b)[i] = a[i] /\ (a \o b)[k] = b[k - m]
      BY <1>1, <1>2, <2>2
    <3>3. Among(a[i], a) /\ Among(b[k - m], b)
      BY <1>2, <3>1 DEF Among
    <3> QED BY <3>2, <3>3
  <2>3. CASE ~(i <= m)
    <3>1. i - m \in 1..n /\ k - m \in 1..n /\ i - m < k - m /\ ~(k <= m)
      BY <1>3, <2>3
    <3>2. (a \o b)[i] = b[i - m] /\ (a \o b)[k] = b[k - m]
      BY <1>1, <1>2, <2>3, <3>1
    <3>3. Before(b[i - m], b[k - m])
      BY <1>2, <3>1 DEF InOrder
    <3> QED BY <3>2, <3>3
  <2> QED BY <2>1, <2>2, <2>3
<1> QED BY <1>1, <1>2, <1>3 DEF InOrder

-----------------------------------------------------------------------------
(* The audio *)

\* A step that brings no block and takes none.
Silent == UNCHANGED <<captured, outQ>> /\ (pc' = "feed" => pc = "feed" /\ UNCHANGED block)

LEMMA SilentSteps ==
  ASSUME ClientTypeOK, [ClientNext]_clientVars, ~\E c \in Channels : Callback(c), ~(Take /\ outQ # <<>>)
  PROVE  Silent
<1>1. CASE Take
  BY <1>1 DEF Take, Silent
<1>2. CASE Connect \/ Poll(Mic, "mic", "speaker") \/ Poll(Speaker, "speaker", "take")
  BY <1>2 DEF Connect, Poll, Silent, audioVars
<1>3. CASE Feed \/ Submit \/ Interrupt \/ StopCaptures \/ FlushAtShutdown
  BY <1>3 DEF Feed, Submit, Interrupt, StopCaptures, FlushAtShutdown, Silent, audioVars
<1>4. CASE Send
  <2>1. pc' # "feed" \/ pc' = back
    BY <1>4 DEF Send
  <2>2. UNCHANGED <<captured, outQ>> /\ pc = "send"
    BY <1>4 DEF Send, audioVars
  <2> QED BY <2>1, <2>2, <1>4 DEF Silent, Send, ClientTypeOK
<1>5. CASE SendLast \/ SendFlush \/ Drain \/ Write \/ InterruptAgain
  BY <1>5 DEF SendLast, SendFlush, Drain, Write, InterruptAgain, Silent, audioVars
<1>6. CASE Receiver \/ Answer \/ LinkBreaks \/ UNCHANGED clientVars
  BY <1>6 DEF Receiver, Answer, LinkBreaks, clientVars, Silent, audioVars
<1> QED BY <1>1, <1>2, <1>3, <1>4, <1>5, <1>6 DEF ClientNext, ShutDown

\* What a captured block is, and what happens to the queue when one is taken.
LEMMA CaptureFacts ==
  ASSUME ClientTypeOK, NEW c \in Channels, Callback(c)
  PROVE  /\ captured[c] \in Nat /\ Len(outQ) \in Nat
         /\ captured'[c] = captured[c] + 1 /\ \A d \in Channels : captured[d] <= captured'[d]
         /\ Len(outQ') = Len(outQ) + 1
         /\ outQ'[Len(outQ) + 1][1] = c /\ outQ'[Len(outQ) + 1][2] = captured[c] + 1
         /\ \A i \in 1..Len(outQ) : outQ'[i] = outQ[i]
         /\ UNCHANGED <<pc, block>>
<1>1. /\ outQ' = Append(outQ, <<c, captured[c] + 1>>)
      /\ captured' = [captured EXCEPT ![c] = @ + 1]
      /\ UNCHANGED <<pc, block>>
  BY DEF Callback
<1>2. captured[c] \in Nat /\ <<c, captured[c] + 1>> \in Items /\ outQ \in Seq(Items)
  BY DEF ClientTypeOK, Items
<1>3. PICK e \in Items : e = <<c, captured[c] + 1>>
  BY <1>2
<1>4. /\ Len(outQ') = Len(outQ) + 1 /\ outQ'[Len(outQ) + 1] = e
      /\ \A i \in 1..Len(outQ) : outQ'[i] = outQ[i]
  BY <1>1, <1>2, <1>3, AppendProperties
<1>5. captured'[c] = captured[c] + 1 /\ \A d \in Channels : captured[d] <= captured'[d]
  BY <1>1 DEF ClientTypeOK
<1> QED BY <1>1, <1>2, <1>3, <1>4, <1>5, LenProperties

LEMMA ItemFacts ==
  ASSUME ClientTypeOK, NEW i \in 1..Len(outQ)
  PROVE  /\ outQ[i][1] \in Channels /\ outQ[i][2] \in Nat /\ captured[outQ[i][1]] \in Nat
         /\ block[1] \in Channels /\ block[2] \in Nat /\ captured[block[1]] \in Nat
<1>1. outQ[i] \in Items
  BY ElementOfSeq DEF ClientTypeOK
<1> QED BY <1>1 DEF ClientTypeOK, Items

LEMMA TakeFacts ==
  ASSUME ClientTypeOK, Take, outQ # <<>>
  PROVE  /\ Len(outQ) \in Nat /\ 1 \in 1..Len(outQ) /\ Len(outQ') = Len(outQ) - 1
         /\ \A i \in 1..Len(outQ') : i + 1 \in 1..Len(outQ) /\ outQ'[i] = outQ[i + 1]
         /\ block' = outQ[1] /\ UNCHANGED captured
<1>1. outQ' = Tail(outQ) /\ block' = outQ[1] /\ UNCHANGED captured /\ outQ \in Seq(Items)
  BY DEF Take, ClientTypeOK
<1> QED BY <1>1, HeadOf, HeadTailProperties, LenProperties

LEMMA AudioStep ==
  ASSUME ClientInv, [ClientNext]_clientVars
  PROVE  AudioInOrder'
<1> USE DEF ClientInv
<1>1. ASSUME NEW c \in Channels, Callback(c) PROVE AudioInOrder'
  <2>1. PICK n \in Nat : n = Len(outQ) /\ Len(outQ') = n + 1
    BY <1>1, CaptureFacts
  <2>2. \A i \in 1..Len(outQ) : /\ outQ[i][1] \in Channels /\ outQ[i][2] \in Nat
                                /\ captured[outQ[i][1]] \in Nat
    BY ItemFacts
  <2>3. ASSUME NEW i \in 1..(n + 1) PROVE outQ'[i][2] <= captured'[outQ'[i][1]]
    <3>1. CASE i = n + 1
      BY <1>1, <2>1, <3>1, CaptureFacts
    <3>2. CASE i # n + 1
      <4>1. i \in 1..Len(outQ)
        BY <2>1, <3>2
      <4>2. outQ[i][2] <= captured[outQ[i][1]] /\ outQ'[i] = outQ[i]
        BY <1>1, <4>1, CaptureFacts DEF AudioInOrder
      <4>3. PICK d \in Channels : d = outQ[i][1]
        BY <2>2, <4>1
      <4>4. captured[d] <= captured'[d] /\ captured[d] \in Nat /\ captured'[d] \in Nat
        BY <1>1, CaptureFacts, TypeStep DEF ClientTypeOK
      <4>5. outQ[i][2] \in Nat
        BY <2>2, <4>1
      <4> QED BY <4>2, <4>3, <4>4, <4>5
    <3> QED BY <3>1, <3>2
  <2>4. ASSUME NEW i \in 1..(n + 1), NEW k \in 1..(n + 1), i < k, outQ'[i][1] = outQ'[k][1]
        PROVE  outQ'[i][2] < outQ'[k][2]
    <3>1. i \in 1..Len(outQ) /\ outQ'[i] = outQ[i]
      BY <1>1, <2>1, <2>4, CaptureFacts
    <3>2. CASE k = n + 1
      <4>1. outQ'[k][1] = c /\ outQ'[k][2] = captured[c] + 1 /\ captured[c] \in Nat
        BY <1>1, <2>1, <3>2, CaptureFacts
      <4>2. outQ[i][2] <= captured[c] /\ outQ[i][2] \in Nat
        BY <2>2, <2>4, <3>1, <4>1 DEF AudioInOrder
      <4> QED BY <3>1, <4>1, <4>2
    <3>3. CASE k # n + 1
      <4>1. k \in 1..Len(outQ)
        BY <2>1, <3>3
      <4>2. outQ'[k] = outQ[k]
        BY <1>1, <4>1, CaptureFacts
      <4> QED BY <2>4, <3>1, <4>1, <4>2 DEF AudioInOrder
    <3> QED BY <3>2, <3>3
  <2>5. ASSUME pc' = "feed"
        PROVE  /\ block'[2] <= captured'[block'[1]]
               /\ \A i \in 1..(n + 1) : outQ'[i][1] = block'[1] => block'[2] < outQ'[i][2]
    <3>1. pc = "feed" /\ block' = block
      BY <1>1, <2>5, CaptureFacts
    <3>2. block[2] <= captured[block[1]] /\ block[1] \in Channels /\ block[2] \in Nat
      BY <3>1 DEF AudioInOrder, ClientTypeOK, Items
    <3>3. PICK d \in Channels : d = block[1]
      BY <3>2
    <3>4. captured[d] <= captured'[d] /\ captured[d] \in Nat /\ captured'[d] \in Nat
      BY <1>1, CaptureFacts, TypeStep DEF ClientTypeOK
    <3>5. block'[2] <= captured'[block'[1]]
      BY <3>1, <3>2, <3>3, <3>4
    <3>6. ASSUME NEW i \in 1..(n + 1), outQ'[i][1] = block'[1] PROVE block'[2] < outQ'[i][2]
      <4>1. CASE i = n + 1
        <5>1. outQ'[i][1] = c /\ outQ'[i][2] = captured[c] + 1 /\ captured[c] \in Nat
          BY <1>1, <2>1, <4>1, CaptureFacts
        <5> QED BY <3>1, <3>2, <3>6, <5>1
      <4>2. CASE i # n + 1
        <5>1. i \in 1..Len(outQ)
          BY <2>1, <4>2
        <5>2. outQ'[i] = outQ[i]
          BY <1>1, <5>1, CaptureFacts
        <5> QED BY <3>1, <3>6, <5>1, <5>2 DEF AudioInOrder
      <4> QED BY <4>1, <4>2
    <3> QED BY <3>5, <3>6
  <2> QED BY <2>1, <2>3, <2>4, <2>5 DEF AudioInOrder
<1>2. CASE Take /\ outQ # <<>>
  <2>1. \A i \in 1..Len(outQ') : i + 1 \in 1..Len(outQ) /\ outQ'[i] = outQ[i + 1]
    BY <1>2, TakeFacts
  <2>2. 1 \in 1..Len(outQ) /\ block' = outQ[1] /\ captured' = captured
    BY <1>2, TakeFacts
  <2>3. \A i \in 1..Len(outQ') : outQ'[i][2] <= captured'[outQ'[i][1]]
    BY <2>1, <2>2 DEF AudioInOrder
  <2>4. ASSUME NEW i \in 1..Len(outQ'), NEW k \in 1..Len(outQ'), i < k, outQ'[i][1] = outQ'[k][1]
        PROVE  outQ'[i][2] < outQ'[k][2]
    <3>1. i + 1 < k + 1
      BY <2>4
    <3> QED BY <2>1, <2>4, <3>1 DEF AudioInOrder
  <2>5. block'[2] <= captured'[block'[1]]
    BY <2>2 DEF AudioInOrder
  <2>6. ASSUME NEW i \in 1..Len(outQ'), outQ'[i][1] = block'[1] PROVE block'[2] < outQ'[i][2]
    <3>1. 1 < i + 1
      BY <2>6
    <3> QED BY <2>1, <2>2, <2>6, <3>1 DEF AudioInOrder
  <2> QED BY <2>3, <2>4, <2>5, <2>6 DEF AudioInOrder
<1>3. CASE Silent
  <2>1. outQ' = outQ /\ captured' = captured /\ (pc' = "feed" => pc = "feed" /\ block' = block)
    BY <1>3 DEF Silent
  <2> QED BY <2>1 DEF AudioInOrder
<1> QED BY <1>1, <1>2, <1>3, SilentSteps

\* What lies behind stays behind.
LEMMA PastStep ==
  ASSUME ClientInv, [ClientNext]_clientVars, NEW t \in TurnSet, Past(t)
  PROVE  Past(t)'
<1> USE DEF ClientInv
<1>0. t.channel \in Channels /\ t.from \in Nat /\ t.to \in Nat
  BY TurnFieldTypes
<1>1. ASSUME NEW c \in Channels, Callback(c) PROVE Past(t)'
  <2>1. PICK n \in Nat : n = Len(outQ) /\ Len(outQ') = n + 1
    BY <1>1, CaptureFacts
  <2>2. PICK d \in Channels, to \in Nat : d = t.channel /\ to = t.to
    BY <1>0
  <2>3. captured[d] <= captured'[d] /\ captured[d] \in Nat /\ captured'[d] \in Nat
    BY <1>1, CaptureFacts, TypeStep DEF ClientTypeOK
  <2>4. to <= captured[d]
    BY <2>2 DEF Past
  <2>5. ASSUME NEW i \in 1..(n + 1), outQ'[i][1] = d PROVE to < outQ'[i][2]
    <3>1. CASE i = n + 1
      <4>1. outQ'[i][1] = c /\ outQ'[i][2] = captured[c] + 1 /\ captured[c] \in Nat
        BY <1>1, <2>1, <3>1, CaptureFacts
      <4> QED BY <2>4, <2>5, <4>1
    <3>2. CASE i # n + 1
      <4>1. i \in 1..Len(outQ)
        BY <2>1, <3>2
      <4>2. outQ'[i] = outQ[i]
        BY <1>1, <4>1, CaptureFacts
      <4> QED BY <2>2, <2>5, <4>1, <4>2 DEF Past
    <3> QED BY <3>1, <3>2
  <2>6. UNCHANGED <<pc, block>>
    BY <1>1, CaptureFacts
  <2>7. to <= captured'[d]
    BY <2>3, <2>4
  <2> QED BY <2>1, <2>2, <2>5, <2>6, <2>7 DEF Past
<1>2. CASE Take /\ outQ # <<>>
  <2>1. \A i \in 1..Len(outQ') : i + 1 \in 1..Len(outQ) /\ outQ'[i] = outQ[i + 1]
    BY <1>2, TakeFacts
  <2>2. 1 \in 1..Len(outQ) /\ block' = outQ[1] /\ captured' = captured
    BY <1>2, TakeFacts
  <2> QED BY <2>1, <2>2 DEF Past
<1>3. CASE Silent
  BY <1>3 DEF Silent, Past
<1> QED BY <1>1, <1>2, <1>3, SilentSteps

-----------------------------------------------------------------------------
(* The order of the turns *)

\* A turn that goes from the start of one to the end of another, perhaps the same.
Spans(u, a, z) ==
  /\ u.channel = a.channel /\ u.channel = z.channel
  /\ u.from = a.from /\ u.to = z.to /\ u.from <= u.to

LEMMA FewInOrder == ASSUME NEW x \in Optional PROVE InOrder(x)
<1>1. CASE x = <<>>
  BY <1>1 DEF InOrder
<1>2. ASSUME NEW t \in TurnSet, x = <<t>> PROVE InOrder(x)
  <2>1. Len(x) = 1
    BY <1>2
  <2> QED BY <2>1 DEF InOrder
<1> QED BY <1>1, <1>2 DEF Optional

\* Nothing is sent, and what is in hand was in hand, or is made of what was.
LEMMA CarriedOver ==
  ASSUME ClientInv, [ClientNext]_clientVars, UNCHANGED <<sent, sequence>>,
         \A u \in TurnSet : InHand(u)' =>
           \E a, z \in TurnSet : InHand(a) /\ InHand(z) /\ Spans(u, a, z)
  PROVE  TurnsArePast' /\ SentInOrder' /\ SentIsFirst'
<1>1. \A t \in TurnSet : InSent(t)' <=> InSent(t)
  BY DEF InSent
<1>2. ASSUME NEW t \in TurnSet, InSent(t)' \/ InHand(t)' PROVE Past(t)'
  <2>1. CASE InSent(t)
    <3>1. Past(t)
      BY <2>1 DEF ClientInv, TurnsInOrder, TurnsArePast
    <3> QED BY <3>1, PastStep
  <2>2. CASE InHand(t)'
    <3>1. PICK a \in TurnSet, z \in TurnSet : InHand(a) /\ InHand(z) /\ Spans(t, a, z)
      BY <2>2
    <3>2. Past(z)
      BY <3>1 DEF ClientInv, TurnsInOrder, TurnsArePast
    <3>3. Past(z)'
      BY <3>2, PastStep
    <3>4. t.channel = z.channel /\ t.to = z.to /\ t.from <= t.to
      BY <3>1 DEF Spans
    <3> QED BY <3>3, <3>4 DEF Past
  <2> QED BY <1>1, <1>2, <2>1, <2>2
<1>3. ASSUME NEW t \in TurnSet, NEW u \in TurnSet, InSent(t)', InHand(u)' PROVE Before(t, u)
  <2>1. PICK a \in TurnSet, z \in TurnSet : InHand(a) /\ Spans(u, a, z)
    BY <1>3
  <2>2. Before(t, a)
    BY <1>1, <1>3, <2>1 DEF ClientInv, TurnsInOrder, SentIsFirst
  <2> QED BY <2>1, <2>2 DEF Spans, Before
<1>4. SentInOrder'
  <2>1. SentInOrder
    BY DEF ClientInv, TurnsInOrder
  <2> QED BY <2>1 DEF SentInOrder, Before
<1>5. TurnsArePast'
  BY <1>2 DEF TurnsArePast
<1>6. SentIsFirst'
  BY <1>3 DEF SentIsFirst, Before
<1> QED BY <1>4, <1>5, <1>6

\* The open turns stay as they are, and no turn is made of them.
LEMMA OpenStays ==
  ASSUME ClientInv, UNCHANGED open,
         \A u \in TurnSet : InReady(u)' \/ InHeld(u)' =>
           \E a, z \in TurnSet : (InReady(z) \/ InHeld(z)) /\ Spans(u, a, z)
  PROVE  OpenIsLast'
<1> SUFFICES ASSUME NEW c \in Channels, NEW o \in TurnSet, open[c] = <<o>>
             PROVE  /\ o.channel = c
                    /\ \A t \in TurnSet : InReady(t)' \/ InHeld(t)' => Before(t, o)
  BY DEF OpenIsLast, Before
<1>1. o.channel = c /\ \A t \in TurnSet : InReady(t) \/ InHeld(t) => Before(t, o)
  BY DEF ClientInv, TurnsInOrder, OpenIsLast
<1>2. ASSUME NEW t \in TurnSet, InReady(t)' \/ InHeld(t)' PROVE Before(t, o)
  <2>1. PICK a \in TurnSet, z \in TurnSet : (InReady(z) \/ InHeld(z)) /\ Spans(t, a, z)
    BY <1>2
  <2> QED BY <1>1, <2>1 DEF Spans, Before
<1> QED BY <1>1, <1>2

\* A turn in hand spans itself.
LEMMA SpansItself ==
  ASSUME ClientInv, NEW t \in TurnSet, InHand(t)
  PROVE  Spans(t, t, t)
<1>1. t.from <= t.to
  BY DEF ClientInv, TurnsInOrder, TurnsArePast, Past
<1> QED BY <1>1 DEF Spans

\* Steps that leave the turns where they are.
LEMMA NothingMoves ==
  ASSUME ClientInv, [ClientNext]_clientVars, UNCHANGED <<sent, sequence, ready, held, open>>,
         pc = "submit" <=> pc' = "submit"
  PROVE  TurnsInOrder'
<1>1. \A u \in TurnSet : /\ InReady(u)' <=> InReady(u)
                         /\ InHeld(u)' <=> InHeld(u)
                         /\ InOpen(u)' <=> InOpen(u)
  BY DEF InReady, InHeld, InOpen
<1>2. TurnsArePast' /\ SentInOrder' /\ SentIsFirst'
  BY <1>1, SpansItself, CarriedOver DEF InHand
<1>3. OpenIsLast'
  BY <1>1, SpansItself, OpenStays DEF InHand
<1>4. InOrder(ready)'
  BY DEF ClientInv, TurnsInOrder, InOrder, Before
<1>5. HeldInPlace'
  BY <1>1 DEF ClientInv, TurnsInOrder, HeldInPlace, Before
<1> QED BY <1>2, <1>3, <1>4, <1>5 DEF TurnsInOrder

\* The turns that were ready are given up.
LEMMA ReadyIsDropped ==
  ASSUME ClientInv, [ClientNext]_clientVars, UNCHANGED <<sent, sequence, held, open>>,
         ready' = <<>>
  PROVE  TurnsInOrder'
<1>1. \A u \in TurnSet : ~InReady(u)' /\ (InHeld(u)' <=> InHeld(u)) /\ (InOpen(u)' <=> InOpen(u))
  BY AmongFew DEF InReady, InHeld, InOpen
<1>2. TurnsArePast' /\ SentInOrder' /\ SentIsFirst'
  BY <1>1, SpansItself, CarriedOver DEF InHand
<1>3. OpenIsLast'
  BY <1>1, SpansItself, OpenStays DEF InHand
<1>4. InOrder(ready)'
  BY FewInOrder DEF Optional, InOrder, Before
<1>5. HeldInPlace'
  BY <1>1 DEF ClientInv, TurnsInOrder, HeldInPlace, Before
<1> QED BY <1>2, <1>3, <1>4, <1>5 DEF TurnsInOrder

LEMMA PollInOrder ==
  ASSUME ClientInv, NEW c \in Channels, NEW here \in Working \ {"submit"},
         NEW next \in Working \ {"submit"},
         Poll(c, here, next), [ClientNext]_clientVars, ready = <<>>
  PROVE  TurnsInOrder'
<1>1. /\ ready' = <<>> \/ ready' = held[c]
      /\ held' = IF ready' = <<>> THEN held ELSE [held EXCEPT ![c] = <<>>]
      /\ UNCHANGED <<sent, sequence, open>> /\ pc' # "submit"
  BY DEF Poll, Polled
<1>2. CASE ready' = <<>>
  BY <1>1, <1>2, ReadyIsDropped
<1>3. CASE ready' # <<>>
  <2>1. held[c] \in Optional /\ held \in [Channels -> Optional]
    BY DEF ClientInv, ClientTypeOK
  <2>2. PICK h \in TurnSet : held[c] = <<h>>
    BY <1>1, <1>3, <2>1 DEF Optional
  <2>3. /\ ready' = <<h>> /\ held' = [held EXCEPT ![c] = <<>>] /\ h.channel = c /\ InHeld(h)
    BY <1>1, <1>3, <2>2 DEF InHeld, ClientInv, TurnsInOrder, HeldInPlace
  <2>4. \A u \in TurnSet : /\ InReady(u)' <=> u = h
                           /\ InHeld(u)' => InHeld(u)
                           /\ InOpen(u)' <=> InOpen(u)
    <3>1. \A u : InReady(u)' <=> u = h
      BY <2>3, AmongFew DEF InReady
    <3>2. \A u : InHeld(u)' => InHeld(u)
      BY <2>1, <2>3 DEF InHeld
    <3> QED BY <1>1, <3>1, <3>2 DEF InOpen
  <2>5. TurnsArePast' /\ SentInOrder' /\ SentIsFirst'
    BY <1>1, <2>3, <2>4, SpansItself, CarriedOver DEF InHand
  <2>6. OpenIsLast'
    BY <1>1, <2>3, <2>4, SpansItself, OpenStays DEF InHand
  <2>7. InOrder(ready)'
    BY <2>3, FewInOrder DEF Optional, InOrder, Before
  <2>8. HeldInPlace'
    <3> SUFFICES ASSUME NEW d \in Channels, NEW k \in TurnSet, held'[d] = <<k>>
                 PROVE  k.channel = d /\ \A t \in TurnSet : InReady(t)' => Before(t, k)
      BY <1>1 DEF HeldInPlace, Before
    <3>1. d # c /\ held[d] = <<k>>
      BY <2>1, <2>3
    <3>2. k.channel = d
      BY <3>1 DEF ClientInv, TurnsInOrder, HeldInPlace
    <3> QED BY <2>3, <2>4, <3>1, <3>2 DEF Before
  <2> QED BY <2>5, <2>6, <2>7, <2>8 DEF TurnsInOrder
<1> QED BY <1>2, <1>3

\* What the detector makes of a block: nothing, or one turn that ends with it,
\* comes after all that channel has said and has its audio in one piece.
LEMMA DetectionsFacts ==
  ASSUME ClientInv, pc = "feed", NEW d \in Detections(block[1], block[2])
  PROVE  \/ d.turns = <<>> /\ d.open = <<>>
         \/ \E n \in TurnSet :
              /\ n.channel = block[1] /\ n.from <= n.to /\ n.to = block[2]
              /\ \/ d.open = <<n>> /\ d.turns = <<>>
                 \/ d.open = <<>> /\ d.turns = <<n>>
              /\ \A t \in TurnSet : InSent(t) \/ InHeld(t) => Before(t, n)
<1>1. block[1] \in Channels /\ block[2] \in Nat /\ open[block[1]] \in Optional
  BY DEF ClientInv, ClientTypeOK, Items
<1>2. PICK c \in Channels, b \in Nat : c = block[1] /\ b = block[2]
  BY <1>1
<1>3. CASE open[c] = <<>>
  <2>1. /\ Turn(c, b, b) \in TurnSet /\ Turn(c, b, b).channel = c
        /\ Turn(c, b, b).from = b /\ Turn(c, b, b).to = b
    BY TurnType
  <2>2. \/ d.turns = <<>> /\ d.open = <<>>
        \/ d.open = <<Turn(c, b, b)>> /\ d.turns = <<>>
    BY <1>2, <1>3 DEF Detections
  <2>3. ASSUME NEW t \in TurnSet, InSent(t) \/ InHeld(t) PROVE Before(t, Turn(c, b, b))
    <3>1. t.channel = c => t.to < b
      BY <1>2, <2>3 DEF ClientInv, TurnsInOrder, TurnsArePast, InHand, Past
    <3> QED BY <2>1, <3>1 DEF Before
  <2>4. PICK n \in TurnSet : n = Turn(c, b, b)
    BY <2>1
  <2>5. n.channel = c /\ n.from = b /\ n.to = b /\ n.from <= n.to
    BY <2>1, <2>4
  <2> QED BY <1>2, <2>2, <2>3, <2>4, <2>5
<1>4. CASE open[c] # <<>>
  <2>1. PICK o \in TurnSet : open[c] = <<o>> /\ open[c][1] = o
    BY <1>1, <1>2, <1>4, OneOrNone
  <2>2. InOpen(o) /\ o.from \in Nat /\ o.to \in Nat
    BY <2>1, TurnFieldTypes DEF InOpen
  <2>3. Past(o) /\ o.channel = c
    BY <2>1, <2>2 DEF ClientInv, TurnsInOrder, TurnsArePast, InHand, OpenIsLast
  <2>4. o.from <= o.to /\ o.to < b
    BY <1>2, <2>3 DEF Past
  <2>5. PICK n \in TurnSet : n = Turn(c, o.from, b)
    BY <2>2, TurnType
  <2>6. n.channel = c /\ n.from = o.from /\ n.to = b
    BY <2>2, <2>5, TurnType
  <2>7. n.from <= n.to
    <3>1. PICK x \in Nat, y \in Nat : x = o.from /\ y = o.to
      BY <2>2
    <3> QED BY <2>4, <2>6, <3>1
  <2>8. \/ d.turns = <<>> /\ d.open = <<>>
        \/ d.open = <<n>> /\ d.turns = <<>>
        \/ d.open = <<>> /\ d.turns = <<n>>
    BY <1>2, <1>4, <2>1, <2>5 DEF Detections
  <2>9. ASSUME NEW t \in TurnSet, InSent(t) \/ InHeld(t) PROVE Before(t, n)
    <3>1. Before(t, o)
      BY <2>1, <2>2, <2>9 DEF ClientInv, TurnsInOrder, SentIsFirst, InHand, OpenIsLast
    <3> QED BY <2>3, <2>6, <3>1 DEF Before
  <2> QED BY <1>2, <2>6, <2>7, <2>8, <2>9
<1> QED BY <1>2, <1>3, <1>4

LEMMA FeedInOrder ==
  ASSUME ClientInv, Feed, [ClientNext]_clientVars
  PROVE  TurnsInOrder'
<1>1. PICK d \in Detections(block[1], block[2]) :
        open' = [open EXCEPT ![block[1]] = d.open] /\ ready' = d.turns
  BY DEF Feed
<1>2. /\ UNCHANGED <<sent, sequence, held, captured, outQ>> /\ pc = "feed"
      /\ pc' = IF ready' = <<>> THEN "mic" ELSE "submit"
  BY DEF Feed, audioVars
<1>3. /\ block[1] \in Channels /\ block[2] \in Nat /\ open \in [Channels -> Optional]
      /\ ready = <<>>
  BY <1>2 DEF ClientInv, ClientTypeOK, Items, Phases
<1>4. \A u : ~InReady(u) /\ (InSent(u)' <=> InSent(u)) /\ (InHeld(u)' <=> InHeld(u))
  BY <1>2, <1>3, AmongFew DEF InReady, InHeld, InSent
<1>5. CASE d.turns = <<>> /\ d.open = <<>>
  <2>1. \A u : ~InReady(u)' /\ (InOpen(u)' => InOpen(u))
    BY <1>1, <1>3, <1>5, AmongFew DEF InReady, InOpen
  <2>2. TurnsArePast' /\ SentInOrder' /\ SentIsFirst'
    BY <1>2, <1>4, <2>1, SpansItself, CarriedOver DEF InHand
  <2>3. InOrder(ready)'
    BY <1>1, <1>5, FewInOrder DEF Optional, InOrder, Before
  <2>4. HeldInPlace'
    BY <1>2, <2>1 DEF ClientInv, TurnsInOrder, HeldInPlace, Before
  <2>5. OpenIsLast'
    <3> SUFFICES ASSUME NEW e \in Channels, NEW o \in TurnSet, open'[e] = <<o>>
                 PROVE  o.channel = e /\ \A t \in TurnSet : InHeld(t) => Before(t, o)
      BY <1>4, <2>1 DEF OpenIsLast, Before
    <3>1. open[e] = <<o>>
      BY <1>1, <1>3, <1>5
    <3> QED BY <3>1 DEF ClientInv, TurnsInOrder, OpenIsLast
  <2> QED BY <2>2, <2>3, <2>4, <2>5 DEF TurnsInOrder
<1>6. ASSUME NEW n \in TurnSet,
             n.channel = block[1] /\ n.from <= n.to /\ n.to = block[2],
             \/ d.open = <<n>> /\ d.turns = <<>>
             \/ d.open = <<>> /\ d.turns = <<n>>,
             \A t \in TurnSet : InSent(t) \/ InHeld(t) => Before(t, n)
      PROVE  TurnsInOrder'
  <2>1. \A u : InReady(u)' => u = n
    <3>1. ready' = <<>> \/ ready' = <<n>>
      BY <1>1, <1>6
    <3> QED BY <3>1, AmongFew DEF InReady
  <2>2. \A u : InOpen(u)' => InOpen(u) \/ u = n
    BY <1>1, <1>3, <1>6 DEF InOpen
  <2>3. TurnsArePast'
    <3>1. Past(n)'
      BY <1>2, <1>3, <1>6 DEF ClientInv, AudioInOrder, Past
    <3>2. ASSUME NEW t \in TurnSet, InSent(t) \/ InHand(t) PROVE Past(t)'
      BY <3>2, PastStep DEF ClientInv, TurnsInOrder, TurnsArePast
    <3> QED BY <1>4, <2>1, <2>2, <3>1, <3>2 DEF TurnsArePast, InHand
  <2>4. SentInOrder'
    <3>1. SentInOrder
      BY DEF ClientInv, TurnsInOrder
    <3> QED BY <1>2, <3>1 DEF SentInOrder, Before
  <2>5. SentIsFirst'
    <3> SUFFICES ASSUME NEW t \in TurnSet, NEW u \in TurnSet, InSent(t), InHand(u)'
                 PROVE  Before(t, u)
      BY <1>4 DEF SentIsFirst, Before
    <3>1. InHand(u) \/ u = n
      BY <1>4, <2>1, <2>2 DEF InHand
    <3> QED BY <1>6, <3>1 DEF ClientInv, TurnsInOrder, SentIsFirst
  <2>6. InOrder(ready)'
    <3>1. ready' \in Optional
      BY <1>1, <1>6 DEF Optional
    <3> QED BY <3>1, FewInOrder DEF InOrder, Before
  <2>7. HeldInPlace'
    <3> SUFFICES ASSUME NEW e \in Channels, NEW h \in TurnSet, held[e] = <<h>>
                 PROVE  /\ h.channel = e
                        /\ \A t \in TurnSet : InReady(t)' => pc' = "submit" /\ Before(h, t)
      BY <1>2 DEF HeldInPlace, Before
    <3>1. h.channel = e /\ InHeld(h)
      BY DEF ClientInv, TurnsInOrder, HeldInPlace, InHeld
    <3>2. \A t : InReady(t)' => t = n /\ pc' = "submit"
      BY <1>2, <2>1, AmongFew DEF InReady
    <3> QED BY <1>6, <3>1, <3>2
  <2>8. OpenIsLast'
    <3> SUFFICES ASSUME NEW e \in Channels, NEW o \in TurnSet, open'[e] = <<o>>
                 PROVE  /\ o.channel = e
                        /\ \A t \in TurnSet : InReady(t)' \/ InHeld(t) => Before(t, o)
      BY <1>4 DEF OpenIsLast, Before
    <3>1. CASE e # block[1]
      <4>1. open[e] = <<o>>
        BY <1>1, <1>3, <3>1
      <4>2. o.channel = e /\ \A t \in TurnSet : InHeld(t) => Before(t, o)
        BY <4>1 DEF ClientInv, TurnsInOrder, OpenIsLast
      <4>3. Before(n, o)
        BY <1>6, <3>1, <4>2 DEF Before
      <4> QED BY <2>1, <4>2, <4>3
    <3>2. CASE e = block[1]
      <4>1. d.open = <<o>>
        BY <1>1, <1>3, <3>2
      <4>2. o = n /\ d.turns = <<>>
        BY <1>6, <4>1
      <4>3. \A t : ~InReady(t)'
        BY <1>1, <4>2, AmongFew DEF InReady
      <4> QED BY <1>6, <3>2, <4>2, <4>3
    <3> QED BY <3>1, <3>2
  <2> QED BY <2>3, <2>4, <2>5, <2>6, <2>7, <2>8 DEF TurnsInOrder
<1> QED BY <1>2, <1>5, <1>6, DetectionsFacts

\* Two turns of a channel, one after the other, as one.
LEMMA MergedTurn ==
  ASSUME NEW h \in TurnSet, NEW t \in TurnSet, NEW c \in Channels,
         h.channel = c, t.channel = c, Before(h, t), h.from <= h.to, t.from <= t.to
  PROVE  /\ Turn(c, h.from, t.to) \in TurnSet
         /\ Spans(Turn(c, h.from, t.to), h, t)
         /\ Blocks(h) \cup Blocks(t) \subseteq Blocks(Turn(c, h.from, t.to))
<1>1. PICK a \in Nat, b \in Nat, x \in Nat, y \in Nat :
        a = h.from /\ b = h.to /\ x = t.from /\ y = t.to
  BY TurnFieldTypes
<1>2. PICK u \in TurnSet : u = Turn(c, a, y)
  BY TurnType
<1>3. u.channel = c /\ u.from = a /\ u.to = y
  BY <1>2, TurnType
<1>4. a <= b /\ b < x /\ x <= y
  BY <1>1 DEF Before
<1>5. Spans(u, h, t)
  BY <1>1, <1>3, <1>4 DEF Spans
<1>6. a..b \subseteq a..y /\ x..y \subseteq a..y
  BY <1>4
<1>7. /\ Blocks(h) = {c} \X (a..b) /\ Blocks(t) = {c} \X (x..y)
      /\ Blocks(u) = {c} \X (a..y)
  BY <1>1, <1>3 DEF Blocks
<1>8. Blocks(h) \cup Blocks(t) \subseteq Blocks(u)
  BY <1>6, <1>7
<1> QED BY <1>1, <1>2, <1>5, <1>8

\* What comes of a turn handed to a coalescer: it and the one that was held wait as
\* one, or it waits and the one that was held goes.
SubmitOutcome(c, t) ==
  \/ held[c] = <<>> /\ Submitted(c, <<t>>) = [held |-> <<t>>, ready |-> <<>>]
  \/ \E h \in TurnSet : held[c] = <<h>> /\ h.channel = c /\
       \/ Submitted(c, <<t>>) = [held |-> <<t>>, ready |-> <<h>>]
       \/ \E u \in TurnSet :
            /\ Submitted(c, <<t>>) = [held |-> <<u>>, ready |-> <<>>]
            /\ Spans(u, h, t) /\ Blocks(h) \cup Blocks(t) \subseteq Blocks(u)

LEMMA SubmittedFacts ==
  ASSUME ClientInv, NEW c \in Channels, NEW t \in TurnSet, t.channel = c, t.from <= t.to,
         \A h \in TurnSet : held[c] = <<h>> => Before(h, t)
  PROVE  SubmitOutcome(c, t)
<1>1. held[c] \in Optional
  BY DEF ClientInv, ClientTypeOK
<1>2. CASE held[c] = <<>>
  BY <1>2 DEF Submitted, SubmitOutcome
<1>3. ASSUME NEW h \in TurnSet, held[c] = <<h>>
      PROVE  /\ h.channel = c
             /\ \/ Submitted(c, <<t>>) = [held |-> <<t>>, ready |-> <<h>>]
                \/ \E u \in TurnSet :
                     /\ Submitted(c, <<t>>) = [held |-> <<u>>, ready |-> <<>>]
                     /\ Spans(u, h, t) /\ Blocks(h) \cup Blocks(t) \subseteq Blocks(u)
  <2>1. InHeld(h) /\ h.channel = c
    BY <1>3 DEF InHeld, ClientInv, TurnsInOrder, HeldInPlace
  <2>2. h.from <= h.to
    BY <2>1 DEF ClientInv, TurnsInOrder, TurnsArePast, InHand, Past
  <2>3. /\ Turn(c, h.from, t.to) \in TurnSet
        /\ Spans(Turn(c, h.from, t.to), h, t)
        /\ Blocks(h) \cup Blocks(t) \subseteq Blocks(Turn(c, h.from, t.to))
    BY <1>3, <2>1, <2>2, MergedTurn
  <2>4. \/ Submitted(c, <<t>>) = [held |-> <<t>>, ready |-> <<h>>]
        \/ Submitted(c, <<t>>) = [held |-> <<Turn(c, h.from, t.to)>>, ready |-> <<>>]
    <3>1. <<t>> # <<>> /\ held[c] # <<>> /\ held[c][1] = h /\ <<t>>[1] = t
      BY <1>3
    <3> QED BY <1>3, <3>1 DEF Submitted
  <2> QED BY <2>1, <2>3, <2>4
<1> QED BY <1>1, <1>2, <1>3 DEF Optional, SubmitOutcome

LEMMA SubmitInOrder ==
  ASSUME ClientInv, Submit, [ClientNext]_clientVars
  PROVE  TurnsInOrder'
<1>1. PICK t \in TurnSet : ready = <<t>> /\ t.channel = block[1]
  BY DEF Submit, ClientInv, Phases
<1>2. PICK c \in Channels : c = block[1]
  BY DEF ClientInv, ClientTypeOK, Items
<1>3. /\ held' = [held EXCEPT ![c] = Submitted(c, <<t>>).held]
      /\ ready' = Submitted(c, <<t>>).ready
      /\ UNCHANGED <<sent, sequence, open>> /\ pc = "submit" /\ pc' # "submit"
      /\ held \in [Channels -> Optional]
  BY <1>1, <1>2 DEF Submit, ClientInv, ClientTypeOK
<1>4. \A u : InReady(u) <=> u = t
  BY <1>1, AmongFew DEF InReady
<1>5. t.from <= t.to
  BY <1>4 DEF ClientInv, TurnsInOrder, TurnsArePast, InHand, Past
<1>6. \A h \in TurnSet : held[c] = <<h>> => Before(h, t)
  BY <1>3, <1>4 DEF ClientInv, TurnsInOrder, HeldInPlace
<1>7. \A u : InOpen(u)' <=> InOpen(u)
  BY <1>3 DEF InOpen
\* What is enough for each of the three outcomes.
<1>8. ASSUME NEW w \in TurnSet, w.channel = c, held' = [held EXCEPT ![c] = <<w>>],
             ready' \in Optional,
             \A u \in TurnSet : InReady(u)' => InHeld(u) /\ u.channel = c /\ Before(u, w),
             \E a \in TurnSet : (InReady(a) \/ InHeld(a)) /\ Spans(w, a, t)
      PROVE  TurnsInOrder'
  <2>1. \A u \in TurnSet : InHeld(u)' => InHeld(u) \/ u = w
    BY <1>3, <1>8 DEF InHeld
  <2>2. \A u \in TurnSet : InReady(u)' \/ InHeld(u)' =>
          \E a, z \in TurnSet : /\ InReady(a) \/ InHeld(a)
                                /\ InReady(z) \/ InHeld(z)
                                /\ Spans(u, a, z)
    <3>1. ASSUME NEW u \in TurnSet, InHeld(u) PROVE Spans(u, u, u)
      BY <3>1, SpansItself DEF InHand
    <3> QED BY <1>4, <1>8, <2>1, <3>1
  <2>3. TurnsArePast' /\ SentInOrder' /\ SentIsFirst'
    <3>1. ASSUME NEW u \in TurnSet, InOpen(u) PROVE Spans(u, u, u)
      BY <3>1, SpansItself DEF InHand
    <3>2. \A u \in TurnSet : InHand(u)' =>
            \E a, z \in TurnSet : InHand(a) /\ InHand(z) /\ Spans(u, a, z)
      BY <1>7, <2>2, <3>1 DEF InHand
    <3> QED BY <1>3, <3>2, CarriedOver
  <2>4. OpenIsLast'
    BY <1>3, <2>2, OpenStays
  <2>5. InOrder(ready)'
    BY <1>8, FewInOrder DEF InOrder, Before
  <2>6. HeldInPlace'
    <3> SUFFICES ASSUME NEW e \in Channels, NEW h \in TurnSet, held'[e] = <<h>>
                 PROVE  h.channel = e /\ \A u \in TurnSet : InReady(u)' => Before(u, h)
      BY <1>3 DEF HeldInPlace, Before
    <3>1. CASE e = c
      <4>1. h = w
        BY <1>3, <1>8, <3>1
      <4> QED BY <1>8, <3>1, <4>1
    <3>2. CASE e # c
      <4>1. held[e] = <<h>>
        BY <1>3, <1>8, <3>2
      <4>2. h.channel = e
        BY <4>1 DEF ClientInv, TurnsInOrder, HeldInPlace
      <4> QED BY <1>8, <3>2, <4>2 DEF Before
    <3> QED BY <3>1, <3>2
  <2> QED BY <2>3, <2>4, <2>5, <2>6 DEF TurnsInOrder
<1>9. Spans(t, t, t) /\ InReady(t)
  BY <1>4, <1>5 DEF Spans
<1>20. ASSUME NEW w, NEW r, Submitted(c, <<t>>) = [held |-> w, ready |-> r]
       PROVE  held' = [held EXCEPT ![c] = w] /\ ready' = r
  <2>1. Submitted(c, <<t>>).held = w /\ Submitted(c, <<t>>).ready = r
    BY <1>20
  <2> QED BY <1>3, <2>1
<1>10. CASE Submitted(c, <<t>>) = [held |-> <<t>>, ready |-> <<>>]
  <2>1. held' = [held EXCEPT ![c] = <<t>>] /\ ready' = <<>>
    BY <1>10, <1>20
  <2>2. ready' \in Optional /\ \A u : ~InReady(u)'
    BY <2>1, AmongFew DEF Optional, InReady
  <2> QED BY <1>1, <1>2, <1>8, <1>9, <2>1, <2>2
<1>11. ASSUME NEW h \in TurnSet, held[c] = <<h>>, h.channel = c,
              Submitted(c, <<t>>) = [held |-> <<t>>, ready |-> <<h>>]
       PROVE  TurnsInOrder'
  <2>1. held' = [held EXCEPT ![c] = <<t>>] /\ ready' = <<h>>
    BY <1>11, <1>20
  <2>2. ready' \in Optional /\ \A u : InReady(u)' <=> u = h
    BY <2>1, AmongFew DEF Optional, InReady
  <2>3. InHeld(h) /\ Before(h, t)
    BY <1>6, <1>11 DEF InHeld
  <2>4. \A u \in TurnSet : InReady(u)' => InHeld(u) /\ u.channel = c /\ Before(u, t)
    BY <1>11, <2>2, <2>3
  <2>5. t.channel = c
    BY <1>1, <1>2
  <2> QED BY <1>8, <1>9, <2>1, <2>2, <2>4, <2>5
<1>12. ASSUME NEW h \in TurnSet, NEW u \in TurnSet, held[c] = <<h>>, h.channel = c,
              Submitted(c, <<t>>) = [held |-> <<u>>, ready |-> <<>>], Spans(u, h, t)
       PROVE  TurnsInOrder'
  <2>1. held' = [held EXCEPT ![c] = <<u>>] /\ ready' = <<>>
    BY <1>12, <1>20
  <2>2. ready' \in Optional /\ \A x : ~InReady(x)'
    BY <2>1, AmongFew DEF Optional, InReady
  <2>3. InHeld(h) /\ u.channel = c
    BY <1>12 DEF InHeld, Spans
  <2> QED BY <1>8, <1>12, <2>1, <2>2, <2>3
<1>13. SubmitOutcome(c, t)
  <2>1. t.channel = c
    BY <1>1, <1>2
  <2> QED BY <1>5, <1>6, <2>1, SubmittedFacts
<1> QED BY <1>10, <1>11, <1>12, <1>13 DEF SubmitOutcome

\* One of the ready turns is sent, lost or kept.
LEMMA OneIsSent ==
  ASSUME ClientInv, [ClientNext]_clientVars, ready # <<>>, pc # "submit", pc' # "submit",
         sequence' = sequence + 1, UNCHANGED <<held, open>>,
         \/ /\ sent' = Append(sent, [turn |-> ready[1], seq |-> sequence + 1])
            /\ ready' = Tail(ready)
         \/ sent' = sent /\ ready' \in {ready, Tail(ready)}
  PROVE  TurnsInOrder'
<1>1. /\ ready \in Seq(TurnSet) /\ sequence \in Nat /\ sent \in Seq(SentSet)
      /\ \A i \in 1..Len(sent) : sent[i].turn \in TurnSet /\ sent[i].seq \in Nat
  <2>1. ready \in Seq(TurnSet) /\ sequence \in Nat /\ sent \in Seq(SentSet)
    BY DEF ClientInv, ClientTypeOK
  <2>2. \A i \in 1..Len(sent) : sent[i] \in SentSet
    BY <2>1, ElementOfSeq
  <2> QED BY <2>1, <2>2 DEF SentSet
<1>2. /\ Tail(ready) \in Seq(TurnSet) /\ ready[1] \in TurnSet /\ InReady(ready[1])
      /\ \A k \in 1..Len(Tail(ready)) : Tail(ready)[k] = ready[k + 1] /\ k + 1 \in 1..Len(ready)
      /\ \A t : Among(t, Tail(ready)) => InReady(t)
      /\ Len(ready) \in Nat
  BY <1>1, AmongTail DEF InReady
<1>3. PICK r \in TurnSet : r = ready[1] /\ InReady(r)
  BY <1>2
<1>4. \A u : /\ InReady(u)' => InReady(u)
             /\ InHeld(u)' <=> InHeld(u)
             /\ InOpen(u)' <=> InOpen(u)
  <2>1. ready' = ready \/ ready' = Tail(ready)
    OBVIOUS
  <2> QED BY <1>2, <2>1 DEF InReady, InHeld, InOpen
\* The turn that follows r in hand comes after it.
<1>5. ASSUME NEW u \in TurnSet, Among(u, Tail(ready)) \/ InHeld(u) \/ InOpen(u)
      PROVE  Before(r, u)
  <2>1. CASE Among(u, Tail(ready))
    <3>1. PICK k \in 1..Len(Tail(ready)) : u = Tail(ready)[k]
      BY <2>1 DEF Among
    <3>2. u = ready[k + 1] /\ k + 1 \in 1..Len(ready) /\ 1 \in 1..Len(ready) /\ 1 < k + 1
      BY <1>2, <3>1
    <3> QED BY <1>3, <3>2 DEF ClientInv, TurnsInOrder, InOrder
  <2>2. CASE InHeld(u)
    BY <1>3, <2>2 DEF InHeld, ClientInv, TurnsInOrder, HeldInPlace
  <2>3. CASE InOpen(u)
    BY <1>3, <2>3 DEF InOpen, ClientInv, TurnsInOrder, OpenIsLast
  <2> QED BY <1>5, <2>1, <2>2, <2>3
<1>6. HeldInPlace'
  BY <1>4 DEF ClientInv, TurnsInOrder, HeldInPlace, Before
<1>7. OpenIsLast'
  BY <1>4 DEF ClientInv, TurnsInOrder, OpenIsLast, Before
<1>8. InOrder(ready)'
  <2>1. InOrder(ready)
    BY DEF ClientInv, TurnsInOrder
  <2>2. CASE ready' = ready
    BY <2>1, <2>2 DEF InOrder, Before
  <2>3. CASE ready' = Tail(ready)
    <3>1. ASSUME NEW i \in 1..Len(Tail(ready)), NEW k \in 1..Len(Tail(ready)), i < k
          PROVE  Before(Tail(ready)[i], Tail(ready)[k])
      <4>1. i + 1 < k + 1
        BY <3>1
      <4> QED BY <1>2, <2>1, <4>1 DEF InOrder
    <3> QED BY <2>3, <3>1 DEF InOrder, Before
  <2> QED BY <2>2, <2>3
<1>9. CASE sent' = sent
  <2>1. \A t : InSent(t)' <=> InSent(t)
    BY <1>9 DEF InSent
  <2>2. TurnsArePast'
    BY <1>4, <2>1, PastStep DEF ClientInv, TurnsInOrder, TurnsArePast, InHand
  <2>3. SentIsFirst'
    BY <1>4, <2>1 DEF ClientInv, TurnsInOrder, SentIsFirst, InHand, Before
  <2>4. SentInOrder'
    <3>1. SentInOrder
      BY DEF ClientInv, TurnsInOrder
    <3>2. \A i \in 1..Len(sent) : sent[i].seq <= sequence'
      <4>1. \A i \in 1..Len(sent) : sent[i].seq <= sequence
        BY <3>1 DEF SentInOrder
      <4> QED BY <1>1, <4>1
    <3> QED BY <1>9, <3>1, <3>2 DEF SentInOrder, Before
  <2> QED BY <1>6, <1>7, <1>8, <2>2, <2>3, <2>4 DEF TurnsInOrder
<1>10. CASE sent' = Append(sent, [turn |-> ready[1], seq |-> sequence + 1])
            /\ ready' = Tail(ready)
  <2>1. PICK e \in SentSet : e = [turn |-> r, seq |-> sequence + 1]
    <3>1. r \in TurnSet /\ sequence + 1 \in Nat
      BY <1>1, <1>3
    <3>2. [turn |-> r, seq |-> sequence + 1] \in SentSet
      BY <3>1 DEF SentSet
    <3> QED BY <3>2
  <2>2. PICK n \in Nat : n = Len(sent)
    BY <1>1, LenProperties
  <2>3. /\ Len(sent') = n + 1 /\ sent'[n + 1] = e
        /\ \A i \in 1..n : sent'[i] = sent[i]
    <3>1. sent' = Append(sent, e)
      BY <1>3, <1>10, <2>1
    <3> QED BY <1>1, <2>2, <3>1, AppendProperties
  <2>4. e.turn = r /\ e.seq = sequence + 1
    BY <2>1
  <2>5. ASSUME NEW t, InSent(t)' PROVE InSent(t) \/ t = r
    <3>1. PICK i \in 1..(n + 1) : t = sent'[i].turn
      BY <2>3, <2>5 DEF InSent
    <3>2. CASE i = n + 1
      BY <2>3, <2>4, <3>1, <3>2
    <3>3. CASE i # n + 1
      <4>1. i \in 1..n
        BY <3>3
      <4> QED BY <2>2, <2>3, <3>1, <4>1 DEF InSent
    <3> QED BY <3>2, <3>3
  <2>6. TurnsArePast'
    BY <1>3, <1>4, <2>5, PastStep DEF ClientInv, TurnsInOrder, TurnsArePast, InHand
  <2>7. SentIsFirst'
    <3> SUFFICES ASSUME NEW t \in TurnSet, NEW u \in TurnSet, InSent(t)', InHand(u)'
                 PROVE  Before(t, u)
      BY DEF SentIsFirst, Before
    <3>1. CASE InSent(t)
      BY <1>4, <3>1 DEF ClientInv, TurnsInOrder, SentIsFirst, InHand
    <3>2. CASE t = r
      <4>1. Among(u, Tail(ready)) \/ InHeld(u) \/ InOpen(u)
        <5>1. InReady(u)' <=> Among(u, Tail(ready))
          BY <1>10 DEF InReady, Among
        <5> QED BY <1>4, <5>1 DEF InHand
      <4> QED BY <1>5, <3>2, <4>1
    <3> QED BY <2>5, <3>1, <3>2
  <2>8. SentInOrder'
    <3>1. /\ \A i \in 1..n : sent[i].seq <= sequence /\ sent[i].seq \in Nat
          /\ \A i, k \in 1..n : i < k =>
               sent[i].seq < sent[k].seq /\ Before(sent[i].turn, sent[k].turn)
      BY <1>1, <2>2 DEF ClientInv, TurnsInOrder, SentInOrder
    <3>2. ASSUME NEW i \in 1..(n + 1) PROVE sent'[i].seq <= sequence'
      <4>1. CASE i = n + 1
        BY <1>1, <2>3, <2>4, <4>1
      <4>2. CASE i # n + 1
        <5>1. i \in 1..n
          BY <4>2
        <5>2. sent'[i] = sent[i] /\ sent[i].seq <= sequence /\ sent[i].seq \in Nat
          BY <2>3, <3>1, <5>1
        <5> QED BY <1>1, <5>2
      <4> QED BY <4>1, <4>2
    <3>3. ASSUME NEW i \in 1..(n + 1), NEW k \in 1..(n + 1), i < k
          PROVE  sent'[i].seq < sent'[k].seq /\ Before(sent'[i].turn, sent'[k].turn)
      <4>1. i \in 1..n
        BY <3>3
      <4>2. sent'[i] = sent[i] /\ sent[i].seq <= sequence /\ sent[i].seq \in Nat
        BY <2>3, <3>1, <4>1
      <4>3. CASE k = n + 1
        <5>1. InSent(sent[i].turn) /\ sent[i].turn \in TurnSet
          BY <1>1, <2>2, <4>1 DEF InSent
        <5>2. Before(sent[i].turn, r)
          BY <1>3, <5>1 DEF ClientInv, TurnsInOrder, SentIsFirst, InHand
        <5>3. sent[i].seq < sequence + 1
          BY <1>1, <4>2
        <5> QED BY <2>3, <2>4, <4>2, <4>3, <5>2, <5>3
      <4>4. CASE k # n + 1
        <5>1. k \in 1..n
          BY <4>4
        <5> QED BY <2>3, <3>1, <3>3, <4>1, <4>2, <5>1
      <4> QED BY <4>3, <4>4
    <3> QED BY <2>3, <3>2, <3>3 DEF SentInOrder, Before
  <2> QED BY <1>6, <1>7, <1>8, <2>6, <2>7, <2>8 DEF TurnsInOrder
<1> QED BY <1>9, <1>10

\* What the coalescer of a channel gives up at the shutdown: its turns in order, made
\* of what it held and of the tail, and with all their audio.
WellReleased(c, tail) ==
  /\ Released(c, tail) \in Seq(TurnSet) /\ InOrder(Released(c, tail))
  /\ \A u \in TurnSet : Among(u, Released(c, tail)) =>
       /\ u.channel = c
       /\ \E a, z \in TurnSet : InHand(a) /\ InHand(z) /\ Spans(u, a, z)
  /\ \A t \in TurnSet : \A b : (held[c] = <<t>> \/ tail = <<t>>) /\ b \in Blocks(t) =>
       \E u \in TurnSet : Among(u, Released(c, tail)) /\ b \in Blocks(u)

LEMMA ReleasedFacts ==
  ASSUME ClientInv, NEW c \in Channels, NEW tail \in DetectorTail(c)
  PROVE  WellReleased(c, tail)
<1>1. held[c] \in Optional /\ open[c] \in Optional /\ (tail = open[c] \/ tail = <<>>)
  BY DEF ClientInv, ClientTypeOK, DetectorTail
<1>2. ASSUME NEW h \in TurnSet, held[c] = <<h>>
      PROVE  h.channel = c /\ InHand(h) /\ Spans(h, h, h) /\ <<h>> \in Seq(TurnSet)
  <2>1. h.channel = c /\ InHand(h)
    BY <1>2 DEF InHand, InHeld, ClientInv, TurnsInOrder, HeldInPlace
  <2> QED BY <2>1, SpansItself
<1>3. CASE tail = <<>>
  <2>1. Submitted(c, tail).ready = <<>> /\ Submitted(c, tail).held = held[c]
    BY <1>3 DEF Submitted
  <2>2. <<>> \o held[c] = held[c]
    BY <1>1, OneOrNone, ConcatEmptySeq
  <2>3. Released(c, tail) = held[c]
    BY <2>1, <2>2 DEF Released
  <2>4. CASE held[c] = <<>>
    <3>1. \A u : ~Among(u, Released(c, tail))
      BY <2>3, <2>4, AmongFew
    <3>2. Released(c, tail) \in Seq(TurnSet) /\ InOrder(Released(c, tail))
      BY <2>3, <1>1, FewInOrder, OneOrNone
    <3>3. \A t : held[c] # <<t>> /\ tail # <<t>>
      BY <1>3, <2>4
    <3> QED BY <3>1, <3>2, <3>3 DEF WellReleased
  <2>5. ASSUME NEW h \in TurnSet, held[c] = <<h>> PROVE WellReleased(c, tail)
    <3>1. \A u : Among(u, Released(c, tail)) <=> u = h
      BY <2>3, <2>5, AmongFew
    <3>2. Released(c, tail) \in Seq(TurnSet) /\ InOrder(Released(c, tail))
      BY <2>3, <1>1, FewInOrder, OneOrNone
    <3>3. \A t : (held[c] = <<t>> => t = h) /\ tail # <<t>>
      BY <1>3, <2>5
    <3> QED BY <1>2, <2>5, <3>1, <3>2, <3>3 DEF WellReleased
  <2> QED BY <1>1, <2>4, <2>5 DEF Optional
<1>4. ASSUME NEW o \in TurnSet, tail = <<o>>, open[c] = <<o>> PROVE WellReleased(c, tail)
  <2>1. o.channel = c /\ InHand(o) /\ Spans(o, o, o) /\ <<o>> \in Seq(TurnSet)
    <3>1. o.channel = c /\ InHand(o)
      BY <1>4 DEF InHand, InOpen, ClientInv, TurnsInOrder, OpenIsLast
    <3> QED BY <3>1, SpansItself
  <2>2. \A h \in TurnSet : held[c] = <<h>> => Before(h, o)
    BY <1>4 DEF ClientInv, TurnsInOrder, OpenIsLast, InHeld
  <2>3. SubmitOutcome(c, o)
    <3>1. o.from <= o.to
      BY <2>1 DEF Spans
    <3> QED BY <2>1, <2>2, <3>1, SubmittedFacts
  <2>4. ASSUME NEW w, NEW r, Submitted(c, <<o>>) = [held |-> w, ready |-> r]
        PROVE  Released(c, tail) = r \o w
    <3>1. Submitted(c, tail).held = w /\ Submitted(c, tail).ready = r
      BY <1>4, <2>4
    <3> QED BY <3>1 DEF Released
  <2>5. \A t : tail = <<t>> => t = o
    BY <1>4
  <2>6. CASE held[c] = <<>> /\ Submitted(c, <<o>>) = [held |-> <<o>>, ready |-> <<>>]
    <3>1. Released(c, tail) = <<o>>
      BY <2>1, <2>4, <2>6, ConcatEmptySeq
    <3>2. \A u : Among(u, Released(c, tail)) <=> u = o
      BY <3>1, AmongFew
    <3>3. InOrder(Released(c, tail))
      BY <3>1, FewInOrder DEF Optional
    <3>4. \A t : held[c] # <<t>>
      BY <2>6
    <3> QED BY <2>1, <2>5, <3>1, <3>2, <3>3, <3>4 DEF WellReleased
  <2>7. ASSUME NEW h \in TurnSet, held[c] = <<h>>,
               Submitted(c, <<o>>) = [held |-> <<o>>, ready |-> <<h>>]
        PROVE  WellReleased(c, tail)
    <3>1. Released(c, tail) = <<h>> \o <<o>>
      BY <2>4, <2>7
    <3>2. h.channel = c /\ InHand(h) /\ Spans(h, h, h) /\ <<h>> \in Seq(TurnSet)
      BY <1>2, <2>7
    <3>3. /\ Released(c, tail) \in Seq(TurnSet)
          /\ \A u : Among(u, Released(c, tail)) <=> u = h \/ u = o
      <4>1. /\ <<h>> \o <<o>> \in Seq(TurnSet)
            /\ \A u : Among(u, <<h>> \o <<o>>) <=> Among(u, <<h>>) \/ Among(u, <<o>>)
        BY <2>1, <3>2, AmongBoth
      <4>2. \A u : (Among(u, <<h>>) <=> u = h) /\ (Among(u, <<o>>) <=> u = o)
        BY AmongFew
      <4> QED BY <3>1, <4>1, <4>2
    <3>4. InOrder(Released(c, tail))
      <4>1. InOrder(<<h>>) /\ InOrder(<<o>>)
        BY FewInOrder DEF Optional
      <4>2. \A t, u : Among(t, <<h>>) /\ Among(u, <<o>>) => Before(t, u)
        BY <2>2, <2>7, AmongFew
      <4> QED BY <2>1, <3>1, <3>2, <4>1, <4>2, OrderOfBoth
    <3>5. \A t : held[c] = <<t>> => t = h
      BY <2>7
    <3> QED BY <2>1, <2>5, <3>2, <3>3, <3>4, <3>5 DEF WellReleased
  <2>8. ASSUME NEW h \in TurnSet, held[c] = <<h>>, NEW u \in TurnSet,
               Submitted(c, <<o>>) = [held |-> <<u>>, ready |-> <<>>],
               Spans(u, h, o), Blocks(h) \cup Blocks(o) \subseteq Blocks(u)
        PROVE  WellReleased(c, tail)
    <3>1. <<u>> \in Seq(TurnSet)
      OBVIOUS
    <3>2. Released(c, tail) = <<u>>
      BY <2>4, <2>8, <3>1, ConcatEmptySeq
    <3>3. \A x : Among(x, Released(c, tail)) <=> x = u
      BY <3>2, AmongFew
    <3>4. InOrder(Released(c, tail))
      BY <3>2, FewInOrder DEF Optional
    <3>5. \A t : held[c] = <<t>> => t = h
      BY <2>8
    <3>6. u.channel = c /\ InHand(h)
      BY <2>1, <2>8, <1>2 DEF Spans
    <3>7. \A t, b : (held[c] = <<t>> \/ tail = <<t>>) /\ b \in Blocks(t) => b \in Blocks(u)
      BY <2>5, <2>8, <3>5
    <3> QED BY <2>1, <2>8, <3>1, <3>2, <3>3, <3>4, <3>6, <3>7 DEF WellReleased
  <2> QED BY <2>3, <2>6, <2>7, <2>8 DEF SubmitOutcome
<1> QED BY <1>1, <1>3, <1>4 DEF Optional

LEMMA FlushInOrder ==
  ASSUME ClientInv, FlushAtShutdown, [ClientNext]_clientVars
  PROVE  TurnsInOrder'
<1>1. PICK mic \in DetectorTail(Mic), spk \in DetectorTail(Speaker) :
        ready' = Released(Mic, mic) \o Released(Speaker, spk)
  BY DEF FlushAtShutdown
<1>2. /\ open' = [c \in Channels |-> <<>>] /\ held' = [c \in Channels |-> <<>>]
      /\ UNCHANGED <<sent, sequence>>
  BY DEF FlushAtShutdown
<1>3. Mic \in Channels /\ Speaker \in Channels /\ Mic # Speaker
  BY ClientAssumption DEF Channels
<1>4. WellReleased(Mic, mic) /\ WellReleased(Speaker, spk)
  BY <1>3, ReleasedFacts
<1>5. PICK a \in Seq(TurnSet), b \in Seq(TurnSet) :
        a = Released(Mic, mic) /\ b = Released(Speaker, spk)
  BY <1>4 DEF WellReleased
<1>6. ready' = a \o b /\ \A u : InReady(u)' <=> Among(u, a) \/ Among(u, b)
  <2>1. ready' = a \o b
    BY <1>1, <1>5
  <2>2. \A u : InReady(u)' <=> Among(u, ready')
    BY DEF InReady, Among
  <2> QED BY <2>1, <2>2, AmongBoth
<1>7. \A u : ~InHeld(u)' /\ ~InOpen(u)'
  BY <1>2 DEF InHeld, InOpen
<1>8. \A u \in TurnSet : InHand(u)' =>
        \E x, z \in TurnSet : InHand(x) /\ InHand(z) /\ Spans(u, x, z)
  <2>1. \A u \in TurnSet : InHand(u)' => Among(u, a) \/ Among(u, b)
    BY <1>6, <1>7 DEF InHand
  <2> QED BY <1>4, <1>5, <2>1 DEF WellReleased
<1>9. TurnsArePast' /\ SentInOrder' /\ SentIsFirst'
  BY <1>2, <1>8, CarriedOver
<1>10. HeldInPlace' /\ OpenIsLast'
  BY <1>2 DEF HeldInPlace, OpenIsLast
<1>11. InOrder(ready)'
  <2>1. InOrder(a) /\ InOrder(b)
    BY <1>4, <1>5 DEF WellReleased
  <2>2. ASSUME NEW t, NEW u, Among(t, a), Among(u, b) PROVE Before(t, u)
    <3>1. t \in TurnSet /\ u \in TurnSet
      BY <2>2, AmongType
    <3>2. t.channel = Mic /\ u.channel = Speaker
      BY <1>4, <1>5, <2>2, <3>1 DEF WellReleased
    <3> QED BY <1>3, <3>2 DEF Before
  <2>3. InOrder(a \o b)
    BY <2>1, <2>2, OrderOfBoth
  <2> QED BY <1>6, <2>3 DEF InOrder, Before
<1> QED BY <1>9, <1>10, <1>11 DEF TurnsInOrder

LEMMA TurnsStep ==
  ASSUME ClientInv, [ClientNext]_clientVars
  PROVE  TurnsInOrder'
<1> USE DEF sendVars, turnVars, audioVars
<1>1. CASE \/ \E c \in Channels : Callback(c)
           \/ Connect \/ Take \/ SendFlush \/ Drain \/ Write \/ InterruptAgain
           \/ Receiver \/ Answer \/ LinkBreaks \/ UNCHANGED clientVars
  <2>1. UNCHANGED <<sent, sequence, ready, held, open>>
    BY <1>1 DEF Callback, Connect, Take, SendFlush, Drain, Write, InterruptAgain, Receiver,
                Answer, LinkBreaks, clientVars
  <2>2. pc = "submit" <=> pc' = "submit"
    BY <1>1 DEF Callback, Connect, Take, SendFlush, Drain, Write, InterruptAgain, Receiver,
                Answer, LinkBreaks, clientVars
  <2> QED BY <2>1, <2>2, NothingMoves
<1>2. CASE Interrupt \/ StopCaptures
  <2>1. UNCHANGED <<sent, sequence, held, open>> /\ ready' = <<>>
    BY <1>2 DEF Interrupt, StopCaptures
  <2> QED BY <2>1, ReadyIsDropped
<1>3. ASSUME NEW c \in Channels, NEW here \in {"mic", "speaker"}, NEW next \in {"speaker", "take"},
             Poll(c, here, next)
      PROVE  TurnsInOrder'
  <2>1. ready = <<>>
    BY <1>3 DEF Poll, ClientInv, Phases
  <2>2. here \in Working \ {"submit"} /\ next \in Working \ {"submit"}
    BY DEF Working
  <2> QED BY <1>3, <2>1, <2>2, PollInOrder
<1>4. CASE Send
  <2>1. /\ pc = "send" /\ sequence' = sequence + 1 /\ UNCHANGED <<held, open>>
        /\ \/ /\ sent' = Append(sent, [turn |-> ready[1], seq |-> sequence + 1])
              /\ ready' = Tail(ready)
           \/ sent' = sent /\ ready' = ready
        /\ pc' \in {back, "send", "stopping"}
    BY <1>4 DEF Send
  <2>2. ready # <<>> /\ pc' # "submit"
    BY <2>1 DEF ClientInv, ClientTypeOK, Phases
  <2> QED BY <2>1, <2>2, OneIsSent
<1>5. CASE SendLast
  <2>1. /\ pc = "last" /\ pc' = pc /\ ready # <<>>
        /\ sequence' = sequence + 1 /\ UNCHANGED <<held, open>>
        /\ ready' = Tail(ready)
        /\ \/ sent' = Append(sent, [turn |-> ready[1], seq |-> sequence + 1])
           \/ sent' = sent
    BY <1>5 DEF SendLast
  <2> QED BY <2>1, OneIsSent
<1>6. Mic \in Channels /\ Speaker \in Channels
  BY DEF Channels
<1> QED BY <1>1, <1>2, <1>3, <1>4, <1>5, <1>6, FeedInOrder, SubmitInOrder, FlushInOrder
        DEF ClientNext, ShutDown

-----------------------------------------------------------------------------
(* Where the main thread is *)

LEMMA PhasesStep ==
  ASSUME ClientInv, [ClientNext]_clientVars
  PROVE  Phases'
<1>0. ClientTypeOK /\ Phases
  BY DEF ClientInv
<1> USE DEF sendVars, turnVars, audioVars, linkVars
<1>1. CASE \/ \E c \in Channels : Callback(c)
           \/ Receiver \/ Answer \/ LinkBreaks \/ UNCHANGED clientVars
  <2>1. /\ UNCHANGED <<pc, ready, block, open, held, cutOff, closed, exit, sendError>>
        /\ socket' = socket \/ socket' = "broken"
    BY <1>1 DEF Callback, Receiver, Answer, LinkBreaks, clientVars
  <2> QED BY <1>0, <2>1 DEF Phases, Idle
<1>2. CASE Connect
  BY <1>0, <1>2 DEF Connect, Phases, Idle, Working, Optional
<1>3. ASSUME NEW c \in Channels, NEW here \in {"mic", "speaker"}, NEW next \in {"speaker", "take"},
             Poll(c, here, next)
      PROVE  Phases'
  <2>1. ready' = <<>> \/ \E t \in TurnSet : ready' = <<t>>
    BY <1>0, <1>3 DEF Poll, Polled, ClientTypeOK, Optional
  <2>2. /\ pc = here /\ pc' \in {next, "send"} /\ (pc' = next => ready' = <<>>)
        /\ (pc' = "send" => ready' # <<>>)
        /\ UNCHANGED <<cutOff, socket, exit>>
    BY <1>3 DEF Poll
  <2> QED BY <1>0, <1>3, <2>1, <2>2 DEF Phases, Working
<1>4. CASE Take
  BY <1>0, <1>4 DEF Take, Phases, Working
<1>5. CASE Feed
  <2>1. PICK d \in Detections(block[1], block[2]) :
          open' = [open EXCEPT ![block[1]] = d.open] /\ ready' = d.turns
    BY <1>5 DEF Feed
  <2>2. /\ pc = "feed" /\ pc' = IF ready' = <<>> THEN "mic" ELSE "submit"
        /\ UNCHANGED <<cutOff, socket, exit, block>>
    BY <1>5 DEF Feed
  <2>3. block[1] \in Channels /\ open \in [Channels -> Optional]
    BY <1>0 DEF ClientTypeOK, Items
  <2>4. \/ ready' = <<>>
        \/ open'[block[1]] = <<>> /\ \E t \in TurnSet : ready' = <<t>> /\ t.channel = block[1]
    BY <2>1, <2>2, <2>3, DetectionsFacts
  <2> QED BY <1>0, <2>2, <2>4 DEF Phases, Working
<1>6. CASE Submit
  <2>1. PICK t \in TurnSet : ready = <<t>>
    BY <1>0, <1>6 DEF Submit, Phases
  <2>2. ready \in Optional /\ block[1] \in Channels /\ held[block[1]] \in Optional
    BY <1>0, <2>1 DEF ClientTypeOK, Optional, Items
  <2>3. ready' \in Optional
    BY <1>6, <2>2, SubmittedType DEF Submit
  <2>4. ready' = <<>> \/ \E u \in TurnSet : ready' = <<u>>
    BY <2>3 DEF Optional
  <2>5. /\ pc = "submit" /\ pc' = IF ready' = <<>> THEN "mic" ELSE "send"
        /\ UNCHANGED <<cutOff, socket, exit>>
    BY <1>6 DEF Submit
  <2> QED BY <1>0, <2>4, <2>5 DEF Phases, Working
<1>7. CASE Send
  <2>1. PICK t \in TurnSet : ready = <<t>>
    BY <1>0, <1>7 DEF Send, Phases
  <2>2. Len(ready) = 1 /\ Tail(ready) = <<>> /\ ready \in Optional
    BY <2>1 DEF Optional
  <2>3. /\ pc = "send" /\ UNCHANGED <<cutOff, socket, exit>>
        /\ \/ ready' = <<>> /\ pc' = back
           \/ ready' \in Optional /\ pc' = "stopping"
    BY <1>7, <2>2 DEF Send
  <2>4. back \in {"mic", "speaker", "take"}
    BY <1>0 DEF ClientTypeOK
  <2> QED BY <1>0, <2>3, <2>4 DEF Phases, Working
<1>8. CASE Interrupt
  <2>1. /\ pc \in Working /\ pc' = "stopping" /\ cutOff' = ready /\ ready' = <<>>
        /\ UNCHANGED <<socket, exit>>
    BY <1>8 DEF Interrupt
  <2>2. ready \in Optional
    BY <1>0, <2>1 DEF Phases, Working, Optional
  <2> QED BY <1>0, <2>1, <2>2 DEF Phases, Working
<1>9. CASE StopCaptures
  <2>1. /\ pc = "stopping" /\ pc' = "flush" /\ cutOff' = cutOff \o ready /\ ready' = <<>>
        /\ UNCHANGED <<socket, exit>>
    BY <1>9 DEF StopCaptures
  <2>2. ready \in Seq(TurnSet) /\ cutOff \in Seq(TurnSet)
    BY <1>0 DEF ClientTypeOK
  <2>3. cutOff' \in Optional
    <3>1. \/ cutOff = <<>> /\ ready \in Optional
          \/ ready = <<>> /\ cutOff \in Optional
      BY <1>0, <2>1 DEF Phases
    <3> QED BY <2>1, <2>2, <3>1, ConcatEmptySeq
  <2> QED BY <1>0, <2>1, <2>3 DEF Phases, Working
<1>10. CASE FlushAtShutdown
  <2>1. /\ pc = "flush" /\ pc' = "last" /\ Idle' /\ UNCHANGED <<socket, exit, cutOff>>
    BY <1>10 DEF FlushAtShutdown, Idle
  <2> QED BY <1>0, <2>1 DEF Phases, Working
<1>11. CASE SendLast
  <2>1. pc = "last" /\ UNCHANGED <<pc, held, open, socket, exit, cutOff>>
    BY <1>11 DEF SendLast
  <2> QED BY <1>0, <2>1 DEF Phases, Working, Idle
<1>12. CASE SendFlush \/ Drain
  <2>1. /\ pc \in {"last", "drain"} /\ pc' \in {"drain", "write"} /\ (pc = "last" => ready = <<>>)
        /\ UNCHANGED <<ready, held, open, exit, cutOff>>
        /\ socket' = socket \/ pc' = "write"
    BY <1>12 DEF SendFlush, Drain
  <2> QED BY <1>0, <2>1 DEF Phases, Working, Idle
<1>13. CASE Write
  <2>1. /\ pc = "write" /\ pc' = "end" /\ UNCHANGED <<ready, held, open, cutOff, socket, sendError>>
        /\ sendError => exit' = "failed"
    BY <1>13 DEF Write
  <2> QED BY <1>0, <2>1 DEF Phases, Working, Idle
<1>14. CASE InterruptAgain
  <2>1. /\ pc \in {"stopping", "flush", "last", "drain", "write"}
        /\ pc' = "end" /\ exit' = "interrupted" /\ UNCHANGED cutOff
    BY <1>14 DEF InterruptAgain
  <2>2. cutOff \in Optional
    BY <1>0, <2>1 DEF Phases, Optional
  <2> QED BY <2>1, <2>2 DEF Phases, Working
<1>15. Mic \in Channels /\ Speaker \in Channels
  BY DEF Channels
<1> QED BY <1>1, <1>2, <1>3, <1>4, <1>5, <1>6, <1>7, <1>8, <1>9, <1>10, <1>11, <1>12, <1>13,
           <1>14, <1>15 DEF ClientNext, ShutDown

-----------------------------------------------------------------------------
(* What has been said *)

\* What is said stays where it will be sent from, or goes on from there.
LEMMA KeptOn ==
  ASSUME ClientInv, closed' = closed, sendError => sendError',
         socket \in {"none", "broken"} => socket' = socket,
         \A t \in TurnSet : InWay(t) =>
           \E u \in TurnSet : InWay(u)' /\ Blocks(t) \subseteq Blocks(u)
  PROVE  SpeechIsKept'
<1>1. ASSUME NEW b, Kept(b) PROVE Kept(b)'
  <2>1. PICK t \in TurnSet : InWay(t) /\ b \in Blocks(t)
    BY <1>1 DEF Kept
  <2>2. PICK u \in TurnSet : InWay(u)' /\ Blocks(t) \subseteq Blocks(u)
    BY <2>1
  <2> QED BY <2>1, <2>2 DEF Kept, Blocks
<1>2. SpeechIsKept
  BY DEF ClientInv
<1> QED BY <1>1, <1>2 DEF SpeechIsKept

LEMMA SentGrows ==
  ASSUME ClientInv, ready # <<>>,
         sent' = Append(sent, [turn |-> ready[1], seq |-> sequence + 1])
  PROVE  \A t : t = ready[1] \/ InSent(t) => InSent(t)'
<1>1. ready[1] \in TurnSet /\ sequence + 1 \in Nat /\ sent \in Seq(SentSet)
  BY AmongTail DEF ClientInv, ClientTypeOK
<1>2. PICK r \in TurnSet : r = ready[1]
  BY <1>1
<1>3. [turn |-> r, seq |-> sequence + 1] \in SentSet
  BY <1>1 DEF SentSet
<1>4. PICK e \in SentSet : e = [turn |-> r, seq |-> sequence + 1]
  BY <1>3
<1>5. PICK n \in Nat : n = Len(sent)
  BY <1>1, LenProperties
<1>6. /\ Len(sent') = n + 1 /\ sent'[n + 1] = e
      /\ \A i \in 1..n : sent'[i] = sent[i]
  BY <1>1, <1>2, <1>4, <1>5, AppendProperties
<1>7. n + 1 \in 1..(n + 1) /\ 1..n \subseteq 1..(n + 1) /\ e.turn = r
  BY <1>4
<1>8. \E i \in 1..Len(sent') : r = sent'[i].turn
  BY <1>6, <1>7
<1>9. ASSUME NEW t, InSent(t) PROVE InSent(t)'
  <2>1. PICK i \in 1..n : t = sent[i].turn
    BY <1>5, <1>9 DEF InSent
  <2>2. i \in 1..Len(sent') /\ sent'[i] = sent[i]
    BY <1>6, <1>7
  <2> QED BY <2>1, <2>2 DEF InSent
<1>10. ASSUME NEW t, t = ready[1] PROVE InSent(t)'
  BY <1>2, <1>8, <1>10 DEF InSent
<1> QED BY <1>9, <1>10

LEMMA SpeechStep ==
  ASSUME ClientInv, [ClientNext]_clientVars
  PROVE  SpeechIsKept'
<1>0. ClientTypeOK /\ Phases /\ SpeechIsKept
  BY DEF ClientInv
<1> USE DEF sendVars, turnVars, linkVars
\* The turns stay, and the socket, unless it breaks or closes.
<1>1. CASE \/ \E c \in Channels : Callback(c)
           \/ Take \/ SendFlush \/ Drain \/ Write \/ InterruptAgain
           \/ Receiver \/ Answer \/ LinkBreaks \/ UNCHANGED clientVars
  <2>1. /\ UNCHANGED <<closed, sent, ready, held, cutOff, sendError>>
        /\ socket' = socket \/ socket = "up"
    BY <1>1 DEF Callback, Take, SendFlush, Drain, Write, InterruptAgain, Receiver,
                Answer, LinkBreaks, clientVars
  <2>2. \A t : InWay(t) => InWay(t)'
    BY <2>1 DEF InWay, InSent, InReady, InHeld, InCutOff
  <2> QED BY <2>1, <2>2, KeptOn
<1>2. CASE Connect
  <2>1. closed' = {}
    BY <1>0, <1>2 DEF Connect, Phases
  <2> QED BY <2>1 DEF SpeechIsKept
<1>3. ASSUME NEW c \in Channels, NEW here \in {"mic", "speaker"}, NEW next \in {"speaker", "take"},
             Poll(c, here, next)
      PROVE  SpeechIsKept'
  <2>1. /\ UNCHANGED <<closed, sent, cutOff, sendError, socket>>
        /\ ready' = <<>> \/ ready' = held[c]
        /\ held' = IF ready' = <<>> THEN held ELSE [held EXCEPT ![c] = <<>>]
        /\ ready = <<>> /\ held \in [Channels -> Optional]
    BY <1>0, <1>3 DEF Poll, Polled, Phases, ClientTypeOK
  <2>2. ASSUME NEW t \in TurnSet, InHeld(t) PROVE InReady(t)' \/ InHeld(t)'
    <3>1. PICK d \in Channels : held[d] = <<t>>
      BY <2>2 DEF InHeld
    <3>2. CASE ready' = <<>> \/ d # c
      BY <2>1, <3>1, <3>2 DEF InHeld
    <3>3. CASE ready' # <<>> /\ d = c
      BY ZenonT(60), <2>1, <3>1, <3>3, AmongFew DEF InReady
    <3> QED BY <3>2, <3>3
  <2>3. \A t \in TurnSet : InWay(t) => InWay(t)'
    <3>1. \A t : ~InReady(t) /\ (InSent(t) => InSent(t)') /\ (InCutOff(t) => InCutOff(t)')
      BY <2>1, AmongFew DEF InReady, InSent, InCutOff
    <3> QED BY <2>2, <3>1 DEF InWay
  <2> QED BY <2>1, <2>3, KeptOn
<1>4. CASE Feed
  <2>1. PICK d \in Detections(block[1], block[2]) :
          ready' = d.turns /\ closed' = closed \cup BlocksOf(d.turns)
    BY <1>4 DEF Feed
  <2>2. UNCHANGED <<sent, cutOff, sendError, socket, held>> /\ ready = <<>>
    BY <1>0, <1>4 DEF Feed, Phases
  <2>3. block[1] \in Channels /\ block[2] \in Nat /\ open[block[1]] \in Optional
    BY <1>0 DEF ClientTypeOK, Items
  <2>4. d.turns \in Seq(TurnSet)
    BY <2>3, DetectionsType, OneOrNone
  <2>5. ASSUME NEW b \in BlocksOf(d.turns) PROVE Kept(b)'
    <3>1. PICK i \in 1..Len(d.turns) : b \in Blocks(d.turns[i])
      BY <2>4, <2>5, BlocksOfType
    <3>2. d.turns[i] \in TurnSet
      BY <2>4, <3>1, ElementOfSeq
    <3>3. InReady(d.turns[i])'
      BY <2>1, <3>1 DEF InReady, Among
    <3> QED BY <3>1, <3>2, <3>3 DEF Kept, InWay, Blocks
  <2>6. ASSUME NEW b, Kept(b) PROVE Kept(b)'
    <3>1. \A t : InWay(t) => InWay(t)'
      BY <2>2, AmongFew DEF InWay, InReady, InSent, InHeld, InCutOff
    <3> QED BY <2>6, <3>1 DEF Kept, Blocks
  <2> QED BY <1>0, <2>1, <2>2, <2>5, <2>6 DEF SpeechIsKept
<1>5. CASE Submit
  <2>1. PICK t \in TurnSet : ready = <<t>> /\ t.channel = block[1]
    BY <1>0, <1>5 DEF Submit, Phases
  <2>2. PICK c \in Channels : c = block[1]
    BY <1>0 DEF ClientTypeOK, Items
  <2>3. /\ held' = [held EXCEPT ![c] = Submitted(c, <<t>>).held]
        /\ ready' = Submitted(c, <<t>>).ready
        /\ UNCHANGED <<closed, sent, cutOff, sendError, socket>> /\ pc = "submit"
        /\ held \in [Channels -> Optional]
    BY <1>0, <1>5, <2>1, <2>2 DEF Submit, ClientTypeOK
  <2>4. \A u : InReady(u) <=> u = t
    BY <2>1, AmongFew DEF InReady
  <2>5. SubmitOutcome(c, t)
    <3>1. t.from <= t.to
      BY <2>4 DEF ClientInv, TurnsInOrder, TurnsArePast, InHand, Past
    <3>2. \A h \in TurnSet : held[c] = <<h>> => Before(h, t)
      BY <2>3, <2>4 DEF ClientInv, TurnsInOrder, HeldInPlace
    <3>3. t.channel = c
      BY <2>1, <2>2
    <3> QED BY <3>1, <3>2, <3>3, SubmittedFacts
  <2>6. ASSUME NEW w, NEW r, Submitted(c, <<t>>) = [held |-> w, ready |-> r]
        PROVE  held' = [held EXCEPT ![c] = w] /\ ready' = r /\ held'[c] = w
    <3>1. Submitted(c, <<t>>).held = w /\ Submitted(c, <<t>>).ready = r
      BY <2>6
    <3> QED BY <2>3, <3>1
  \* The turns of this channel are in one that goes on.
  <2>7. ASSUME NEW x \in TurnSet, x = t \/ held[c] = <<x>>
        PROVE  \E u \in TurnSet : (InReady(u)' \/ InHeld(u)') /\ Blocks(x) \subseteq Blocks(u)
    <3>1. CASE held[c] = <<>> /\ Submitted(c, <<t>>) = [held |-> <<t>>, ready |-> <<>>]
      <4>1. held'[c] = <<t>> /\ x = t
        BY <2>6, <2>7, <3>1
      <4> QED BY <4>1 DEF InHeld
    <3>2. ASSUME NEW h \in TurnSet, held[c] = <<h>>,
                 Submitted(c, <<t>>) = [held |-> <<t>>, ready |-> <<h>>]
          PROVE  InReady(x)' \/ InHeld(x)'
      <4>1. held'[c] = <<t>> /\ ready' = <<h>>
        BY <2>6, <3>2
      <4>2. InHeld(t)' /\ InReady(h)'
        BY <4>1, AmongFew DEF InHeld, InReady
      <4>3. x = t \/ x = h
        BY <2>7, <3>2
      <4> QED BY <4>2, <4>3
    <3>3. ASSUME NEW h \in TurnSet, held[c] = <<h>>, NEW u \in TurnSet,
                 Submitted(c, <<t>>) = [held |-> <<u>>, ready |-> <<>>],
                 Blocks(h) \cup Blocks(t) \subseteq Blocks(u)
          PROVE  InHeld(u)' /\ Blocks(x) \subseteq Blocks(u)
      <4>1. held'[c] = <<u>>
        BY <2>6, <3>3
      <4>2. x = t \/ x = h
        BY <2>7, <3>3
      <4> QED BY <3>3, <4>1, <4>2 DEF InHeld
    <3> QED BY <2>5, <3>1, <3>2, <3>3 DEF SubmitOutcome
  <2>8. ASSUME NEW x \in TurnSet, InWay(x)
        PROVE  \E u \in TurnSet : InWay(u)' /\ Blocks(x) \subseteq Blocks(u)
    <3>1. CASE InSent(x) \/ InCutOff(x)
      BY <2>3, <3>1 DEF InWay, InSent, InCutOff
    <3>2. CASE InReady(x) \/ held[c] = <<x>>
      BY <2>4, <2>7, <3>2 DEF InWay
    <3>3. ASSUME NEW d \in Channels, d # c, held[d] = <<x>> PROVE InHeld(x)'
      <4>1. held'[d] = <<x>>
        BY <2>3, <3>3
      <4> QED BY <4>1 DEF InHeld
    <3> QED BY <2>8, <3>1, <3>2, <3>3 DEF InWay, InHeld
  <2> QED BY <2>3, <2>8, KeptOn
<1>6. CASE Send \/ SendLast
  <2>1. ready # <<>> /\ pc \notin {"write", "end"}
    BY <1>0, <1>6 DEF Send, SendLast, Phases
  <2>2. UNCHANGED <<closed, held, cutOff, socket>> /\ (sendError => sendError')
    BY <1>6 DEF Send, SendLast
  <2>3. CASE /\ sent' = Append(sent, [turn |-> ready[1], seq |-> sequence + 1])
             /\ ready' = Tail(ready)
    <3>1. \A t : t = ready[1] \/ InSent(t) => InSent(t)'
      BY <2>1, <2>3, SentGrows
    <3>2. ready \in Seq(TurnSet)
      BY <1>0 DEF ClientTypeOK
    <3>3. \A t : InReady(t) => t = ready[1] \/ Among(t, Tail(ready))
      BY <2>1, <3>2, AmongTail DEF InReady
    <3>4. \A t : Among(t, Tail(ready)) => InReady(t)'
      BY <2>3 DEF InReady, Among
    <3>5. \A t : InWay(t) => InWay(t)'
      <4>2. \A t : (InHeld(t) => InHeld(t)') /\ (InCutOff(t) => InCutOff(t)')
        BY <2>2 DEF InHeld, InCutOff
      <4> QED BY <3>1, <3>3, <3>4, <4>2 DEF InWay
    <3> QED BY <2>2, <3>5, KeptOn
  <2>4. CASE sendError' \/ Refused
    <3>1. CASE sendError'
      BY <3>1 DEF SpeechIsKept
    <3>2. CASE Refused
      <4>1. socket # "closed" /\ socket # "up"
        BY <1>0, <2>1, <3>2 DEF Phases, Refused
      <4>2. socket' \in {"none", "broken"}
        BY <1>0, <2>2, <4>1 DEF ClientTypeOK
      <4> QED BY <4>2 DEF SpeechIsKept
    <3> QED BY <2>4, <3>1, <3>2
  <2> QED BY <1>6, <2>3, <2>4 DEF Send, SendLast
<1>7. CASE Interrupt \/ StopCaptures
  <2>1. /\ UNCHANGED <<closed, sent, held, sendError, socket>>
        /\ \/ cutOff = <<>> /\ cutOff' = ready
           \/ cutOff' = cutOff \o ready
    BY <1>0, <1>7 DEF Interrupt, StopCaptures, Phases
  <2>2. \A t : InReady(t) \/ InCutOff(t) => InCutOff(t)'
    <3>1. cutOff \in Seq(TurnSet) /\ ready \in Seq(TurnSet)
      BY <1>0 DEF ClientTypeOK
    <3>2. \A t : InCutOff(t)' <=> Among(t, cutOff')
      BY DEF InCutOff, Among
    <3>3. CASE cutOff = <<>> /\ cutOff' = ready
      BY <3>2, <3>3, AmongFew DEF InReady, InCutOff
    <3>4. CASE cutOff' = cutOff \o ready
      BY <3>1, <3>2, <3>4, AmongBoth DEF InReady, InCutOff
    <3> QED BY <2>1, <3>3, <3>4
  <2>3. \A t : InWay(t) => InWay(t)'
    BY <2>1, <2>2 DEF InWay, InSent, InHeld
  <2> QED BY <2>1, <2>3, KeptOn
<1>8. CASE FlushAtShutdown
  <2>1. PICK mic \in DetectorTail(Mic), spk \in DetectorTail(Speaker) :
          /\ ready' = Released(Mic, mic) \o Released(Speaker, spk)
          /\ closed' = closed \cup BlocksOf(mic \o spk)
    BY <1>8 DEF FlushAtShutdown
  <2>2. UNCHANGED <<sent, cutOff, sendError, socket>> /\ ready = <<>>
    BY <1>0, <1>8 DEF FlushAtShutdown, Phases
  <2>3. Mic \in Channels /\ Speaker \in Channels
    BY DEF Channels
  <2>4. WellReleased(Mic, mic) /\ WellReleased(Speaker, spk)
    BY <2>3, ReleasedFacts
  <2>5. \A u : InReady(u)' <=> Among(u, Released(Mic, mic)) \/ Among(u, Released(Speaker, spk))
    <3>1. PICK a \in Seq(TurnSet), b \in Seq(TurnSet) :
            a = Released(Mic, mic) /\ b = Released(Speaker, spk)
      BY <2>4 DEF WellReleased
    <3>2. \A u : InReady(u)' <=> Among(u, ready')
      BY DEF InReady, Among
    <3>3. ready' = a \o b
      BY <2>1, <3>1
    <3> QED BY <3>1, <3>2, <3>3, AmongBoth
  <2>6. ASSUME NEW t \in TurnSet, NEW b \in Blocks(t), InHeld(t) \/ mic = <<t>> \/ spk = <<t>>
        PROVE  Kept(b)'
    <3>1. held[Mic] = <<t>> \/ mic = <<t>> \/ held[Speaker] = <<t>> \/ spk = <<t>>
      BY <2>6 DEF InHeld, Channels
    <3>2. PICK u \in TurnSet : /\ Among(u, Released(Mic, mic)) \/ Among(u, Released(Speaker, spk))
                               /\ b \in Blocks(u)
      BY <2>4, <3>1 DEF WellReleased
    <3>3. InReady(u)'
      BY <2>5, <3>2
    <3> QED BY <3>2, <3>3 DEF Kept, InWay, Blocks
  <2>7. ASSUME NEW b, Kept(b) PROVE Kept(b)'
    <3>1. PICK t \in TurnSet : InWay(t) /\ b \in Blocks(t)
      BY <2>7 DEF Kept
    <3>2. ~InReady(t)
      BY <2>2, AmongFew DEF InReady
    <3>3. CASE InHeld(t)
      BY <2>6, <3>1, <3>3
    <3>4. CASE InSent(t) \/ InCutOff(t)
      <4>1. InSent(t)' \/ InCutOff(t)'
        BY <2>2, <3>4 DEF InSent, InCutOff
      <4> QED BY <3>1, <4>1 DEF Kept, InWay, Blocks
    <3> QED BY <3>1, <3>2, <3>3, <3>4 DEF InWay
  <2>8. ASSUME NEW b \in BlocksOf(mic \o spk) PROVE Kept(b)'
    <3>1. mic \in Optional /\ spk \in Optional
      BY <1>0, <2>3 DEF DetectorTail, ClientTypeOK, Optional
    <3>2. mic \in Seq(TurnSet) /\ spk \in Seq(TurnSet)
      BY <3>1, OneOrNone
    <3>3. mic \o spk \in Seq(TurnSet)
      BY <3>2, AmongBoth
    <3>4. PICK i \in 1..Len(mic \o spk) : b \in Blocks((mic \o spk)[i])
      BY <2>8, <3>3, BlocksOfType
    <3>5. PICK t \in TurnSet : t = (mic \o spk)[i]
      BY <3>3, <3>4, ElementOfSeq
    <3>6. Among(t, mic \o spk)
      BY <3>4, <3>5 DEF Among
    <3>7. Among(t, mic) \/ Among(t, spk)
      BY <3>2, <3>6, AmongBoth
    <3>8. mic = <<t>> \/ spk = <<t>>
      BY <3>1, <3>7, AmongFew DEF Optional
    <3> QED BY <2>6, <3>4, <3>5, <3>8
  <2> QED BY <1>0, <2>1, <2>2, <2>7, <2>8 DEF SpeechIsKept
<1>9. Mic \in Channels /\ Speaker \in Channels
  BY DEF Channels
<1> QED BY <1>1, <1>2, <1>3, <1>4, <1>5, <1>6, <1>7, <1>8, <1>9 DEF ClientNext, ShutDown

-----------------------------------------------------------------------------
(* Theorems *)

LEMMA ClientStart == ClientInit => ClientInv
<1> SUFFICES ASSUME ClientInit PROVE ClientInv
  OBVIOUS
<1>0. Mic \in Channels /\ <<Mic, 0>> \in Items
  BY DEF Channels, Items
<1>1. ClientTypeOK
  <2>1. \A S : <<>> \in Seq(S)
    OBVIOUS
  <2>2. /\ captured \in [Channels -> Nat] /\ recorded \in [Channels -> Seq(Nat)]
        /\ open \in [Channels -> Optional] /\ held \in [Channels -> Optional]
    BY <2>1 DEF ClientInit, Optional
  <2>3. /\ outQ \in Seq(Items) /\ ready \in Seq(TurnSet) /\ sent \in Seq(SentSet)
        /\ server \in Seq(Nat) /\ inbox \in Seq(Nat) /\ inHand \in Seq(Nat)
        /\ heard \in Seq(Nat) /\ cutOff \in Seq(TurnSet) /\ closed \subseteq Items
    BY <2>1 DEF ClientInit
  <2> QED BY <1>0, <2>2, <2>3 DEF ClientInit, ClientTypeOK, Places, Working
<1>2. /\ \A t : ~InSent(t) /\ ~InReady(t) /\ ~InHeld(t) /\ ~InOpen(t)
      /\ Len(sent) = 0 /\ Len(outQ) = 0 /\ Len(ready) = 0 /\ pc = "connect"
      /\ \A c \in Channels : \A t : held[c] # <<t>> /\ open[c] # <<t>>
  <2>1. \A c \in Channels : \A t : held[c] # <<t>> /\ open[c] # <<t>>
    BY DEF ClientInit
  <2>2. Len(sent) = 0 /\ Len(outQ) = 0 /\ Len(ready) = 0 /\ pc = "connect"
    BY DEF ClientInit
  <2> QED BY <2>1, <2>2 DEF InSent, InReady, Among, InHeld, InOpen
<1>3. AudioInOrder
  BY <1>2 DEF AudioInOrder
<1>4. TurnsInOrder
  BY <1>2 DEF TurnsInOrder, TurnsArePast, InHand, SentInOrder, SentIsFirst, InOrder,
              HeldInPlace, OpenIsLast
<1>5. Phases /\ SpeechIsKept
  BY <1>2 DEF ClientInit, Phases, SpeechIsKept, Working
<1> QED BY <1>1, <1>3, <1>4, <1>5 DEF ClientInv

LEMMA ClientInvHolds == ClientSpec => []ClientInv
<1>1. ClientInv /\ [ClientNext]_clientVars => ClientInv'
  <2> SUFFICES ASSUME ClientInv, [ClientNext]_clientVars PROVE ClientInv'
    OBVIOUS
  <2> QED BY TypeStep, AudioStep, TurnsStep, PhasesStep, SpeechStep DEF ClientInv
<1> QED BY <1>1, ClientStart, PTL DEF ClientSpec

\* Each variable of the client has its type: a channel has at most one turn open and
\* one held, and what it holds in its hands and sends are turns.
THEOREM ClientTypeCorrect == ClientSpec => []ClientTypeOK
<1>1. ClientInv => ClientTypeOK
  BY DEF ClientInv
<1> QED BY <1>1, ClientInvHolds, PTL

\* run_live sends its turns under growing sequence numbers and each channel's in the
\* order they were spoken, no audio twice, whatever is merged, polled, interrupted,
\* refused by the socket or sent by flush_at_shutdown.
THEOREM TurnsGoOutInOrderAlways == ClientSpec => []TurnsGoOutInOrder
<1>1. ClientInv => TurnsGoOutInOrder
  BY DEF ClientInv, TurnsInOrder, SentInOrder, TurnsGoOutInOrder, Before
<1> QED BY <1>1, ClientInvHolds, PTL

\* A run that ends well on a link that held has sent all that its detectors closed,
\* but for at most one turn that was in the main thread's hands at Ctrl+C.
THEOREM NoSpeechIsLost == ClientSpec => []SpeechIsSent
<1>1. ASSUME ClientInv PROVE SpeechIsSent
  <2> SUFFICES ASSUME exit \in {"live", "re-diarized"}, socket = "closed"
               PROVE  /\ closed \subseteq BlocksOf(cutOff)
                                       \cup UNION {Blocks(sent[i].turn) : i \in 1..Len(sent)}
                      /\ Len(cutOff) <= 1
    BY DEF SpeechIsSent
  <2>1. pc = "end" /\ ~sendError /\ ready = <<>> /\ Idle /\ cutOff \in Optional
    BY <1>1 DEF ClientInv, Phases
  <2>2. Len(cutOff) <= 1
    BY <2>1, OneOrNone
  <2>3. \A t : ~InReady(t) /\ ~InHeld(t)
    BY <2>1, AmongFew DEF InReady, InHeld, Idle
  <2>4. ASSUME NEW b \in closed
        PROVE  b \in BlocksOf(cutOff) \cup UNION {Blocks(sent[i].turn) : i \in 1..Len(sent)}
    <3>1. Kept(b)
      BY <1>1, <2>1 DEF ClientInv, SpeechIsKept
    <3>2. PICK t \in TurnSet : (InSent(t) \/ InCutOff(t)) /\ b \in Blocks(t)
      BY <2>3, <3>1 DEF Kept, InWay
    <3> QED BY <3>2 DEF InSent, InCutOff, Among, BlocksOf
  <2> QED BY <2>2, <2>4
<1> QED BY <1>1, ClientInvHolds, PTL

=============================================================================

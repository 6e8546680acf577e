---------------------------- MODULE TimelineProofs ----------------------------
(***************************************************************************)
(* Theorems of Timeline, for any channels, tolerance, leads and bounds.    *)
(***************************************************************************)
EXTENDS Timeline, SequenceTheorems, TLAPS

\* The types, without the bounds of the model.
TypeInv ==
  /\ elapsed \in Nat /\ highWater \in Nat /\ covered \in Nat
  /\ lastEnd \in [Channels -> Int]
  /\ drifted \subseteq Channels
  /\ notified \in Seq([channel : Channels, reason : Reasons])
  /\ emitted \in Seq([channel : Channels, declared : Nat, start : Int, end : Int])
  /\ honest \in BOOLEAN

\* What the guard remembers of a channel it trusts: the end of its last turn.
GuardRemembers ==
  \A c \in Channels \ drifted :
    /\ lastEnd[c] = Unseen => \A i \in 1..Len(emitted) : emitted[i].channel # c
    /\ \A i \in 1..Len(emitted) : emitted[i].channel = c =>
         /\ emitted[i].start = emitted[i].declared
         /\ (\A k \in i + 1 .. Len(emitted) : emitted[k].channel # c)
              => lastEnd[c] = emitted[i].end

\* An honest client has declared nothing that is still to be recorded.
HonestyShows ==
  honest => drifted = {} /\ \A c \in Channels : lastEnd[c] <= elapsed

LEMMA LeadIsNat == ASSUME TypeInv PROVE Lead \in Nat
BY TimelineAssumption DEF Lead, Max2, TypeInv

LEMMA TypeInit == TimelineInit => TypeInv
BY DEF TimelineInit, TypeInv, Unseen

LEMMA NoticeType ==
  ASSUME NEW c \in Channels, NEW start \in Nat, TypeInv
  PROVE  Notice(c, Faults(c, start)) \in Seq([channel : Channels, reason : Reasons])
<1> DEFINE why == IF "regression" \in Faults(c, start) THEN "regression" ELSE "ahead"
<1>1. [channel |-> c, reason |-> why] \in [channel : Channels, reason : Reasons]
  BY DEF Reasons
<1>2. CASE Notice(c, Faults(c, start)) = <<>>
  BY <1>2
<1>3. CASE Notice(c, Faults(c, start)) = <<[channel |-> c, reason |-> why]>>
  <2> HIDE DEF why
  <2> QED BY <1>1, <1>3
<1> QED BY <1>2, <1>3 DEF Notice

LEMMA TypeStep == TypeInv /\ [TimelineNext]_timelineVars => TypeInv'
<1> SUFFICES ASSUME TypeInv, [TimelineNext]_timelineVars PROVE TypeInv'
  OBVIOUS
<1> USE TimelineAssumption
<1>1. CASE Tick
  BY <1>1 DEF Tick, TypeInv
<1>2. ASSUME NEW c \in Channels, NEW start \in 0..MaxTime, NEW n \in 1..MaxLength,
             TurnFrame(c, start, n)
      PROVE  TypeInv'
  <2>1. start \in Nat /\ n \in Nat /\ Clamped(c, start) \in Int
    BY DEF Clamped, TypeInv
  <2>2. /\ elapsed' \in Nat /\ highWater' \in Nat /\ covered' \in Nat
        /\ lastEnd' \in [Channels -> Int]
    <3>1. /\ elapsed' = elapsed
          /\ highWater' = Max2(Max2(highWater, start + n), Clamped(c, start) + n)
          /\ covered' = Max2(covered, Clamped(c, start) + n)
          /\ lastEnd' = [lastEnd EXCEPT ![c] = Max2(start + n, Clamped(c, start))]
      BY <1>2 DEF TurnFrame
    <3>2. elapsed \in Nat /\ highWater \in Nat /\ covered \in Nat /\ lastEnd \in [Channels -> Int]
      BY DEF TypeInv
    <3>3. start + n \in Nat /\ Clamped(c, start) + n \in Int
      BY <2>1
    <3>4. highWater' \in Nat
      BY <3>1, <3>2, <3>3 DEF Max2
    <3>5. covered' \in Nat
      BY <3>1, <3>2, <3>3 DEF Max2
    <3>6. Max2(start + n, Clamped(c, start)) \in Int
      BY <2>1, <3>3 DEF Max2
    <3>7. lastEnd' \in [Channels -> Int]
      BY <3>1, <3>2, <3>6
    <3> QED BY <3>1, <3>2, <3>4, <3>5, <3>7
  <2>3. drifted' \subseteq Channels /\ honest' \in BOOLEAN
    BY <1>2 DEF TurnFrame, Honest, TypeInv
  <2>4. notified' \in Seq([channel : Channels, reason : Reasons])
    <3>1. Notice(c, Faults(c, start)) \in Seq([channel : Channels, reason : Reasons])
      BY <2>1, NoticeType
    <3>2. notified' = notified \o Notice(c, Faults(c, start))
      BY <1>2 DEF TurnFrame
    <3> QED BY <3>1, <3>2 DEF TypeInv
  <2>5. emitted' \in Seq([channel : Channels, declared : Nat, start : Int, end : Int])
    BY SMTT(30), <1>2, <2>1 DEF TurnFrame, TypeInv
  <2> QED BY <2>2, <2>3, <2>4, <2>5 DEF TypeInv
<1>3. ASSUME NEW end \in 1..MaxTime, RawTurn(end) PROVE TypeInv'
  BY <1>3 DEF RawTurn, Max2, TypeInv
<1>4. CASE UNCHANGED timelineVars
  BY <1>4 DEF timelineVars, TypeInv
<1> QED BY <1>1, <1>2, <1>3, <1>4 DEF TimelineNext

-----------------------------------------------------------------------------
LEMMA HonestyStep ==
  TypeInv /\ HonestyShows /\ [TimelineNext]_timelineVars => HonestyShows'
<1> SUFFICES ASSUME TypeInv, HonestyShows, [TimelineNext]_timelineVars, honest'
             PROVE  drifted' = {} /\ \A c \in Channels : lastEnd'[c] <= elapsed'
  BY DEF HonestyShows
<1> USE TimelineAssumption
<1>1. CASE Tick
  BY <1>1 DEF Tick, TypeInv, HonestyShows
<1>2. ASSUME NEW c \in Channels, NEW start \in 0..MaxTime, NEW n \in 1..MaxLength,
             TurnFrame(c, start, n)
      PROVE  drifted' = {} /\ \A d \in Channels : lastEnd'[d] <= elapsed'
  <2>1. honest /\ Honest(c, start, n) /\ start \in Nat /\ n \in Nat \ {0}
    <3>1. honest' = (honest /\ Honest(c, start, n))
      BY <1>2 DEF TurnFrame
    <3>2. honest /\ Honest(c, start, n)
      BY <3>1, Zenon
    <3>3. start \in Nat /\ n \in Nat \ {0}
      OBVIOUS
    <3> QED BY <3>2, <3>3
  <2>2. Clamped(c, start) = start /\ ~Regressed(c, start)
    BY <2>1 DEF Clamped, Regressed, Honest, TypeInv
  <2>3. ~Ahead(start)
    BY <2>1, LeadIsNat DEF Ahead, Max2, Honest, TypeInv
  <2>4. Faults(c, start) = {}
    BY <2>2, <2>3 DEF Faults
  <2>5. drifted' = {}
    BY <1>2, <2>1, <2>4 DEF TurnFrame, HonestyShows
  <2>6. \A d \in Channels : lastEnd'[d] <= elapsed'
    BY <1>2, <2>1, <2>2 DEF TurnFrame, Honest, Max2, HonestyShows, TypeInv
  <2> QED BY <2>5, <2>6
<1>3. ASSUME NEW end \in 1..MaxTime, RawTurn(end)
      PROVE  drifted' = {} /\ \A d \in Channels : lastEnd'[d] <= elapsed'
  BY <1>3 DEF RawTurn, HonestyShows
<1>4. CASE UNCHANGED timelineVars
  BY <1>4 DEF timelineVars, HonestyShows
<1> QED BY <1>1, <1>2, <1>3, <1>4 DEF TimelineNext

-----------------------------------------------------------------------------
GuardInv == TypeInv /\ GuardRemembers /\ UnflaggedTurnsAreOrdered

LEMMA GuardStep == GuardInv /\ [TimelineNext]_timelineVars => GuardInv'
<1> SUFFICES ASSUME GuardInv, [TimelineNext]_timelineVars
             PROVE  GuardRemembers' /\ UnflaggedTurnsAreOrdered'
  BY TypeStep DEF GuardInv
<1> USE TimelineAssumption
<1>1. ASSUME UNCHANGED <<lastEnd, drifted, emitted>>
      PROVE  GuardRemembers' /\ UnflaggedTurnsAreOrdered'
  BY <1>1 DEF GuardInv, GuardRemembers, UnflaggedTurnsAreOrdered, Consecutive
<1>2. ASSUME NEW c \in Channels, NEW start \in 0..MaxTime, NEW n \in 1..MaxLength,
             TurnFrame(c, start, n)
      PROVE  GuardRemembers' /\ UnflaggedTurnsAreOrdered'
  <2> DEFINE turn == [channel |-> c, declared |-> start, start |-> Clamped(c, start),
                      end |-> Clamped(c, start) + n]
  <2>1. /\ start \in Nat /\ n \in Nat \ {0} /\ Clamped(c, start) \in Int
    BY DEF Clamped, GuardInv, TypeInv
  <2>11. Len(emitted) \in Nat
    BY DEF GuardInv, TypeInv
  <2>2. /\ Len(emitted') = Len(emitted) + 1 /\ emitted'[Len(emitted) + 1] = turn
        /\ \A i \in 1..Len(emitted) : emitted'[i] = emitted[i]
    BY <1>2 DEF TurnFrame, GuardInv, TypeInv
  <2>12. \A i \in 1..Len(emitted') : i = Len(emitted) + 1 \/ i \in 1..Len(emitted)
    BY <2>11, <2>2
  <2>13. Len(emitted) + 1 \in 1..Len(emitted')
    BY <2>11, <2>2
  <2>3. /\ drifted \subseteq drifted'
        /\ c \notin drifted' => c \notin drifted /\ Faults(c, start) = {}
    BY <1>2 DEF TurnFrame
  <2>4. c \notin drifted' => ~Regressed(c, start) /\ Clamped(c, start) = start
    BY <2>3 DEF Faults, Clamped
  <2>5. lastEnd' = [lastEnd EXCEPT ![c] = Max2(start + n, Clamped(c, start))]
    BY <1>2 DEF TurnFrame
  <2>6. lastEnd \in [Channels -> Int]
    BY DEF GuardInv, TypeInv
  <2> HIDE DEF turn
  <2>7. ASSUME NEW d \in Channels, d \notin drifted'
        PROVE  /\ lastEnd'[d] = Unseen => \A i \in 1..Len(emitted') : emitted'[i].channel # d
               /\ \A i \in 1..Len(emitted') : emitted'[i].channel = d =>
                    /\ emitted'[i].start = emitted'[i].declared
                    /\ (\A k \in i + 1 .. Len(emitted') : emitted'[k].channel # d)
                         => lastEnd'[d] = emitted'[i].end
    <3>1. d \notin drifted
      BY <2>3, <2>7
    <3>2. CASE d = c
      <4>1. turn.channel = c /\ turn.start = start /\ turn.declared = start /\ turn.end = start + n
        BY <2>4, <2>7, <3>2 DEF turn
      <4>2. lastEnd'[c] = start + n /\ start + n # Unseen
        BY <2>1, <2>4, <2>5, <2>6, <2>7, <3>2 DEF Max2, Unseen
      <4>3. ASSUME NEW i \in 1..Len(emitted'), emitted'[i].channel = c
            PROVE  /\ emitted'[i].start = emitted'[i].declared
                   /\ (\A k \in i + 1 .. Len(emitted') : emitted'[k].channel # c)
                        => lastEnd'[c] = emitted'[i].end
        <5>1. CASE i = Len(emitted) + 1
          BY <5>1, <2>2, <4>1, <4>2
        <5>2. CASE i # Len(emitted) + 1
          <6>1. i \in 1..Len(emitted) /\ Len(emitted) + 1 \in i + 1 .. Len(emitted')
            BY <2>11, <2>2, <2>12, <5>2
          <6>2. emitted'[i].start = emitted'[i].declared
            BY <2>2, <3>1, <3>2, <4>3, <6>1 DEF GuardInv, GuardRemembers
          <6> QED BY <2>2, <4>1, <6>1, <6>2
        <5> QED BY <5>1, <5>2
      <4> QED BY <3>2, <4>2, <4>3
    <3>3. CASE d # c
      <4>1. lastEnd'[d] = lastEnd[d] /\ turn.channel # d
        BY <2>5, <2>6, <3>3 DEF turn
      <4>2. ASSUME NEW i \in 1..Len(emitted'), emitted'[i].channel = d
            PROVE  i \in 1..Len(emitted) /\ emitted'[i] = emitted[i]
        BY <2>2, <2>12, <4>1, <4>2
      <4>3. lastEnd'[d] = Unseen => \A i \in 1..Len(emitted') : emitted'[i].channel # d
        BY <3>1, <4>1, <4>2 DEF GuardInv, GuardRemembers
      <4>4. ASSUME NEW i \in 1..Len(emitted'), emitted'[i].channel = d
            PROVE  /\ emitted'[i].start = emitted'[i].declared
                   /\ (\A k \in i + 1 .. Len(emitted') : emitted'[k].channel # d)
                        => lastEnd'[d] = emitted'[i].end
        <5>1. i \in 1..Len(emitted) /\ emitted'[i] = emitted[i]
          BY <4>2, <4>4
        <5>2. (\A k \in i + 1 .. Len(emitted') : emitted'[k].channel # d)
                => (\A k \in i + 1 .. Len(emitted) : emitted[k].channel # d)
          <6>1. \A k \in i + 1 .. Len(emitted) :
                   k \in i + 1 .. Len(emitted') /\ emitted'[k] = emitted[k]
            BY <2>11, <2>2, <5>1
          <6> QED BY <6>1
        <5> QED BY SMTT(30), <3>1, <4>1, <4>4, <5>1, <5>2 DEF GuardInv, GuardRemembers
      <4> QED BY <4>3, <4>4
    <3> QED BY <3>2, <3>3
  <2>8. GuardRemembers'
    BY <2>7 DEF GuardRemembers
  <2>9. ASSUME NEW i \in 1..Len(emitted'), NEW k \in 1..Len(emitted'),
               Consecutive(i, k)', emitted'[i].channel \notin drifted'
        PROVE  /\ emitted'[k].start >= emitted'[i].end - Tolerance
               /\ emitted'[i].start = emitted'[i].declared
               /\ emitted'[k].start = emitted'[k].declared
    <3>1. /\ i < k /\ emitted'[i].channel = emitted'[k].channel
          /\ \A m \in i + 1 .. k - 1 : emitted'[m].channel # emitted'[i].channel
      BY <2>9 DEF Consecutive
    <3>5. i \in 1..Len(emitted) /\ emitted'[i] = emitted[i]
      BY <2>11, <2>2, <3>1
    <3>6. emitted[i].channel \in Channels \ drifted
      <4>1. emitted[i] \in [channel : Channels, declared : Nat, start : Int, end : Int]
        <5>1. emitted \in Seq([channel : Channels, declared : Nat, start : Int, end : Int])
          BY DEF GuardInv, TypeInv
        <5>2. i \in 1..Len(emitted)
          BY <3>5
        <5> QED BY <5>1, <5>2, ElementOfSeq
      <4>2. emitted[i].channel \in Channels
        BY <4>1
      <4> QED BY <2>3, <2>9, <3>5, <4>2
    <3>2. CASE k = Len(emitted) + 1
      <4>1. emitted[i].channel = c /\ emitted'[k] = turn
        BY <2>2, <3>1, <3>2, <3>5 DEF turn
      <4>2. \A m \in i + 1 .. Len(emitted) : emitted[m].channel # c
        <5>1. \A m \in i + 1 .. Len(emitted) :
                 m \in i + 1 .. k - 1 /\ emitted'[m] = emitted[m]
          BY <2>11, <2>2, <3>2, <3>5
        <5> QED BY <3>1, <3>5, <4>1, <5>1
      <4>3. lastEnd[c] = emitted[i].end /\ emitted[i].start = emitted[i].declared
            /\ lastEnd[c] # Unseen
        BY <3>5, <3>6, <4>1, <4>2 DEF GuardInv, GuardRemembers
      <4>4. ~Regressed(c, start) /\ Clamped(c, start) = start
        BY <2>4, <2>9, <3>5, <4>1
      <4>5. start >= lastEnd[c] - Tolerance
        BY <2>1, <2>6, <4>3, <4>4 DEF Regressed
      <4> QED BY <3>5, <4>1, <4>3, <4>4, <4>5 DEF turn
    <3>3. CASE k # Len(emitted) + 1
      <4>1. k \in 1..Len(emitted) /\ emitted'[k] = emitted[k]
        BY <2>2, <2>12, <3>3
      <4>2. \A m \in i + 1 .. k - 1 : emitted[m].channel # emitted[i].channel
        <5>1. \A m \in i + 1 .. k - 1 : emitted'[m] = emitted[m]
          <6>1. \A m \in i + 1 .. k - 1 : m \in 1..Len(emitted)
            BY <2>11, <3>5, <4>1
          <6> QED BY <2>2, <6>1
        <5> QED BY <3>1, <3>5, <5>1
      <4>3. Consecutive(i, k)
        BY <3>1, <3>5, <4>1, <4>2 DEF Consecutive
      <4> QED BY <3>5, <3>6, <4>1, <4>3 DEF GuardInv, UnflaggedTurnsAreOrdered
    <3> QED BY <3>2, <3>3
  <2>10. UnflaggedTurnsAreOrdered'
    BY <2>9 DEF UnflaggedTurnsAreOrdered
  <2> QED BY <2>8, <2>10
<1> QED BY <1>1, <1>2 DEF TimelineNext, Tick, RawTurn, timelineVars

-----------------------------------------------------------------------------
\* TimelineGuard never flags a client that declares what it has recorded.
THEOREM HonestClientsAreTrusted == TimelineSpec => []HonestClientIsTrusted
<1>1. TimelineInit => TypeInv /\ HonestyShows
  BY TypeInit DEF TimelineInit, HonestyShows, Unseen
<1>2. TypeInv /\ HonestyShows /\ [TimelineNext]_timelineVars => (TypeInv /\ HonestyShows)'
  BY TypeStep, HonestyStep
<1>3. HonestyShows => HonestClientIsTrusted
  BY DEF HonestyShows, HonestClientIsTrusted
<1> QED BY <1>1, <1>2, <1>3, PTL DEF TimelineSpec

\* On a channel that observe never flagged, turns are where they were declared
\* and follow each other up to the tolerance.
THEOREM TrustedChannelsAreOrdered == TimelineSpec => []UnflaggedTurnsAreOrdered
<1>1. TimelineInit => GuardInv
  BY TypeInit DEF TimelineInit, GuardInv, GuardRemembers, UnflaggedTurnsAreOrdered, Unseen
<1>2. GuardInv /\ [TimelineNext]_timelineVars => GuardInv'
  BY GuardStep
<1>3. GuardInv => UnflaggedTurnsAreOrdered
  BY DEF GuardInv
<1> QED BY <1>1, <1>2, <1>3, PTL DEF TimelineSpec
=============================================================================

---------------------------- MODULE MicTurnsProofs ----------------------------
(***************************************************************************)
(* Theorems of MicTurns, for any lengths of the detector, any gap and span *)
(* of the coalescer, any trim, and streams of any length.                  *)
(***************************************************************************)
EXTENDS MicTurns, SequenceTheorems, TLAPS

Closings == {"max_turn", "hangover", "flush"}
Samples == [at : Nat, level : Levels \cup {"silence"}]
Turn == [start : Nat, end : 0..MaxFrames, audio : Seq(Samples),
         reason : Closings \cup {"merged"}]

-----------------------------------------------------------------------------
(* The operators of the two modules *)

LEMMA Constants ==
  /\ PreRoll \in Nat \ {0} /\ Confirm \in Nat \ {0} /\ Hangover \in Nat \ {0}
  /\ PostRoll \in Nat /\ MinVoiced \in Nat /\ MaxTurn \in Nat /\ MaxFrames \in Nat
  /\ Confirm <= PreRoll /\ PreRoll < MaxTurn
BY DetectorAssumption

LEMMA TurnFields ==
  ASSUME NEW t \in Turn
  PROVE  /\ t.start \in Nat /\ t.end \in Nat /\ t.end <= MaxFrames
         /\ t.audio \in Seq(Samples) /\ Len(t.audio) \in Nat
         /\ t.reason \in Closings \cup {"merged"}
<1>1. t.end \in 0..MaxFrames /\ t.audio \in Seq(Samples) /\ t.start \in Nat
      /\ t.reason \in Closings \cup {"merged"}
  BY DEF Turn
<1> QED BY <1>1, Constants, LenProperties

LEMMA LastOfProperties ==
  ASSUME NEW S, NEW s \in Seq(S), NEW n \in Nat
  PROVE  /\ LastOf(s, n) \in Seq(S)
         /\ Len(LastOf(s, n)) = IF Len(s) > n THEN n ELSE Len(s)
         /\ \A i \in 1..Len(LastOf(s, n)) :
              LastOf(s, n)[i] = s[Len(s) - Len(LastOf(s, n)) + i]
<1> DEFINE m == Len(s)
<1>1. m \in Nat /\ \A i \in 1..m : s[i] \in S
  BY LenProperties, ElementOfSeq
<1>2. CASE m > n
  <2>1. \A i \in m - n + 1 .. m : s[i] \in S
    BY <1>1, <1>2
  <2>2. LastOf(s, n) = SubSeq(s, m - n + 1, m)
    BY <1>2 DEF LastOf
  <2>3. m - n + 1 \in Int /\ m \in Int
    BY <1>1
  <2> HIDE DEF m
  <2>4. /\ SubSeq(s, m - n + 1, m) \in Seq(S)
        /\ Len(SubSeq(s, m - n + 1, m))
             = IF m - n + 1 <= m THEN m - (m - n + 1) + 1 ELSE 0
        /\ \A i \in 1 .. m - (m - n + 1) + 1 :
             SubSeq(s, m - n + 1, m)[i] = s[m - n + 1 + i - 1]
    BY <2>1, <2>3, SubSeqProperties
  <2>5. Len(LastOf(s, n)) = n
    BY <1>1, <2>2, <2>4
  <2>6. \A i \in 1..n : LastOf(s, n)[i] = s[m - n + i]
    <3> TAKE i \in 1..n
    <3>1. i \in 1 .. m - (m - n + 1) + 1 /\ m - n + 1 + i - 1 = m - n + i
      BY <1>1
    <3> QED BY <2>2, <2>4, <3>1
  <2> QED BY <1>2, <2>2, <2>4, <2>5, <2>6 DEF m
<1>3. CASE ~(m > n)
  BY <1>1, <1>3 DEF LastOf
<1> QED BY <1>2, <1>3

LEMMA MinOfTwo ==
  ASSUME NEW a \in Int, NEW b \in Int
  PROVE  Min({a, b}) = IF a <= b THEN a ELSE b
BY DEF Min

\* The share of a turn both trims may take, and no more than the turn.
LEMMA TrimCapType ==
  ASSUME NEW n \in Nat
  PROVE  /\ TrimCap(n) \in Nat
         /\ 100 * TrimCap(n) <= TrimPercent * n
<1> USE TrimAssumption
<1> DEFINE p == n * TrimPercent
<1>1. p \in Nat /\ TrimPercent * n = p
  OBVIOUS
<1> HIDE DEF p
<1>2. p \div 100 \in Nat /\ 100 * (p \div 100) <= p
  BY <1>1
<1>3. TrimCap(n) \in {MaxTrim, p \div 100} /\ TrimCap(n) <= p \div 100
  BY <1>2, MinOfTwo DEF TrimCap, p
<1> QED BY <1>1, <1>2, <1>3

\* What a trim makes of a turn that is in place, for any two voiced frames: it
\* stays in place, keeps both frames, and loses no more than its share.
LEMMA TrimKeepsPlace ==
  ASSUME NEW t \in Turn, InPlace(t),
         NEW f \in 1..Len(t.audio), NEW l \in 1..Len(t.audio), f <= l
  PROVE  LET s == TrimTurnEdges(t, {f, l}) IN
         /\ InPlace(s)
         /\ s.start <= t.start + f - 1 /\ t.start + l <= s.end
         /\ 100 * (Len(t.audio) - Len(s.audio)) <= TrimPercent * Len(t.audio)
<1> DEFINE total == Len(t.audio)
           cap == TrimCap(total)
           lead == Min({Min({f, l}) - 1, cap})
           trail == Min({total - Max({f, l}), cap - lead})
           s == TrimTurnEdges(t, {f, l})
<1>1. /\ t.start \in Nat /\ t.end = t.start + total /\ total \in Nat
      /\ t.audio \in Seq(Samples) /\ f \in 1..total /\ l \in 1..total
  BY LenProperties DEF Turn, InPlace
<1>2. cap \in Nat /\ 100 * cap <= TrimPercent * total
  BY <1>1, TrimCapType
<1>3. Min({f, l}) = f /\ Max({f, l}) = l
  BY <1>1 DEF Min, Max
<1> HIDE DEF total, cap
<1>4. lead \in Nat /\ lead <= cap /\ lead <= f - 1
  <2>1. f - 1 \in Nat /\ Min({f, l}) - 1 = f - 1
    BY <1>1, <1>3
  <2>2. lead = IF f - 1 <= cap THEN f - 1 ELSE cap
    BY <1>2, <2>1, MinOfTwo
  <2> QED BY <1>2, <2>1, <2>2
<1> HIDE DEF lead
<1>5. trail \in Nat /\ trail <= cap - lead /\ trail <= total - l
  <2>1. /\ total - l \in Nat /\ total - Max({f, l}) = total - l
        /\ cap - lead \in Nat
    BY <1>1, <1>2, <1>3, <1>4
  <2>2. Min({total - l, cap - lead}) = IF total - l <= cap - lead THEN total - l ELSE cap - lead
    BY <1>1, <1>2, <1>4, MinOfTwo
  <2>3. trail = IF total - l <= cap - lead THEN total - l ELSE cap - lead
    BY <2>1, <2>2
  <2> QED BY <2>1, <2>3
<1> HIDE DEF trail
<1>6. CASE total < 2
  <2>1. s = t
    BY <1>6 DEF TrimTurnEdges, total
  <2>2. s.start <= t.start + f - 1 /\ t.start + l <= s.end
    BY <1>1, <2>1
  <2>3. 100 * (Len(t.audio) - Len(s.audio)) <= TrimPercent * total
    <3> DEFINE loss == Len(t.audio) - Len(s.audio)
               share == TrimPercent * total
    <3>1. loss = 0
      BY <1>1, <2>1 DEF total
    <3>2. share \in Nat
      BY <1>1, TrimAssumption
    <3> HIDE DEF loss, share
    <3>3. 100 * loss <= share
      BY <3>1, <3>2
    <3> QED BY <3>3 DEF loss, share
  <2> QED BY <2>1, <2>2, <2>3 DEF total
<1>7. CASE ~(total < 2)
  <2> DEFINE rest == SubSeq(t.audio, lead + 1, total - trail)
  <2>1. s = [t EXCEPT !.start = t.start + lead, !.end = t.start + total - trail,
                      !.audio = rest]
    BY <1>7 DEF TrimTurnEdges, total, cap, lead, trail
  <2>2. s.start = t.start + lead /\ s.end = t.start + total - trail /\ s.audio = rest
    <3>1. t = [start |-> t.start, end |-> t.end, audio |-> t.audio, reason |-> t.reason]
      BY DEF Turn
    <3> HIDE DEF rest, s
    <3> QED BY <2>1, <3>1
  <2>3. lead + 1 \in Int /\ total - trail \in Int
        /\ lead + 1 <= total - trail
    BY <1>1, <1>4, <1>5
  <2>4. \A i \in lead + 1 .. total - trail : t.audio[i] \in Samples
    BY <1>1, <1>4, <1>5, ElementOfSeq DEF total
  <2>5. /\ Len(rest) = (total - trail) - (lead + 1) + 1
        /\ \A i \in 1 .. (total - trail) - (lead + 1) + 1 : rest[i] = t.audio[lead + 1 + i - 1]
    BY <2>3, <2>4, SubSeqProperties
  <2> HIDE DEF rest, s
  <2>6. Len(rest) = total - trail - lead
    BY <1>1, <1>4, <1>5, <2>5
  <2>7. s.end = s.start + Len(s.audio)
    BY <1>1, <1>4, <1>5, <2>2, <2>6
  <2>8. ASSUME NEW i \in 1..Len(s.audio), s.audio[i].level # "silence"
        PROVE  s.audio[i].at = s.start + i - 1
    <3>1. i \in 1 .. total - trail - lead
      BY <2>2, <2>6, <2>8
    <3>2. lead + i \in 1..total /\ lead + 1 + i - 1 = lead + i
      BY <1>1, <1>4, <1>5, <3>1
    <3>3. i \in 1 .. (total - trail) - (lead + 1) + 1
      BY <1>1, <1>4, <1>5, <3>1
    <3>4. s.audio[i] = t.audio[lead + i]
      BY <2>2, <2>5, <3>2, <3>3
    <3>5. t.audio[lead + i].at = t.start + (lead + i) - 1
      BY <2>8, <3>2, <3>4 DEF InPlace, total
    <3>6. s.start = t.start + lead
      BY <2>2
    <3>7. t.start + (lead + i) - 1 = t.start + lead + i - 1
      BY <1>1, <1>4, <3>1
    <3> QED BY <3>4, <3>5, <3>6, <3>7
  <2>9. InPlace(s)
    BY <2>7, <2>8 DEF InPlace
  <2>10. s.start <= t.start + f - 1 /\ t.start + l <= s.end
    BY <1>1, <1>4, <1>5, <2>2
  <2>11. total - Len(s.audio) = lead + trail /\ lead + trail <= cap
    BY <1>1, <1>2, <1>4, <1>5, <2>2, <2>6
  <2>12. 100 * (lead + trail) <= TrimPercent * total
    <3> DEFINE p == TrimPercent * total
    <3>1. p \in Nat /\ 100 * cap <= p
      BY <1>1, <1>2, TrimAssumption
    <3> HIDE DEF p
    <3>2. 100 * (lead + trail) <= p
      BY <1>2, <1>4, <1>5, <2>11, <3>1
    <3> QED BY <3>2 DEF p
  <2> QED BY <2>9, <2>10, <2>11, <2>12 DEF s, total
<1> QED BY <1>6, <1>7

-----------------------------------------------------------------------------
(* Turns in a row *)

\* What was spoken in a turn, and in any of several.
Carries(t, x) == \E i \in 1..Len(t.audio) : t.audio[i] = x /\ x.level # "silence"
AnyCarries(ts, x) == \E k \in 1..Len(ts) : Carries(ts[k], x)

\* A turn that is in place and not empty.
Proper(t) == InPlace(t) /\ t.start < t.end

\* Turns in place, one after the other, and all of them before `limit`.
InARow(ts, limit) ==
  /\ \A k \in 1..Len(ts) : Proper(ts[k]) /\ ts[k].end <= limit
  /\ \A i, k \in 1..Len(ts) : i < k => ts[i].end <= ts[k].start

LEMMA AppendFacts ==
  ASSUME NEW S, NEW s \in Seq(S), NEW e \in S
  PROVE  /\ Append(s, e) \in Seq(S) /\ Len(s) \in Nat
         /\ Len(Append(s, e)) = Len(s) + 1
         /\ Append(s, e)[Len(s) + 1] = e
         /\ \A i \in 1..Len(s) : Append(s, e)[i] = s[i]
         /\ \A i \in 1..Len(Append(s, e)) : i \in 1..Len(s) \/ i = Len(s) + 1
OBVIOUS

LEMMA AppendInARow ==
  ASSUME NEW ts \in Seq(Turn), NEW t \in Turn, NEW limit \in Nat, NEW limit2 \in Nat,
         InARow(ts, limit), Proper(t), limit <= t.start, t.end <= limit2, limit <= limit2
  PROVE  InARow(Append(ts, t), limit2)
<1> DEFINE us == Append(ts, t)
<1>1. /\ us \in Seq(Turn) /\ Len(ts) \in Nat /\ Len(us) = Len(ts) + 1 /\ us[Len(ts) + 1] = t
      /\ \A i \in 1..Len(ts) : us[i] = ts[i]
      /\ \A i \in 1..Len(us) : i \in 1..Len(ts) \/ i = Len(ts) + 1
  BY AppendFacts
<1> HIDE DEF us
<1>2. \A k \in 1..Len(ts) : ts[k].end \in Nat /\ ts[k].start \in Nat
  <2> TAKE k \in 1..Len(ts)
  <2>1. ts[k] \in Turn
    BY ElementOfSeq
  <2> QED BY <2>1, TurnFields
<1>3. t.end \in Nat /\ t.start \in Nat
  BY TurnFields
<1>4. ASSUME NEW k \in 1..Len(us) PROVE Proper(us[k]) /\ us[k].end <= limit2
  BY <1>1, <1>2, <1>4 DEF InARow
<1>5. ASSUME NEW i \in 1..Len(us), NEW k \in 1..Len(us), i < k
      PROVE  us[i].end <= us[k].start
  <2>1. i \in 1..Len(ts)
    BY <1>1, <1>5
  <2>2. CASE k \in 1..Len(ts)
    BY <1>1, <1>5, <2>1, <2>2 DEF InARow
  <2>3. CASE k = Len(ts) + 1
    BY <1>1, <1>2, <1>3, <2>1, <2>3 DEF InARow
  <2> QED BY <1>1, <2>2, <2>3
<1> QED BY <1>4, <1>5 DEF InARow, us

LEMMA AppendCarries ==
  ASSUME NEW ts \in Seq(Turn), NEW t \in Turn, NEW x
  PROVE  AnyCarries(Append(ts, t), x) <=> AnyCarries(ts, x) \/ Carries(t, x)
<1> DEFINE us == Append(ts, t)
<1>1. /\ us \in Seq(Turn) /\ Len(ts) \in Nat /\ Len(us) = Len(ts) + 1 /\ us[Len(ts) + 1] = t
      /\ \A i \in 1..Len(ts) : us[i] = ts[i]
      /\ \A i \in 1..Len(us) : i \in 1..Len(ts) \/ i = Len(ts) + 1
  BY AppendFacts
<1> HIDE DEF us
<1>2. \A i \in 1..Len(ts) : i \in 1..Len(us)
  BY <1>1
<1>3. Len(ts) + 1 \in 1..Len(us)
  BY <1>1
<1> QED BY <1>1, <1>2, <1>3 DEF AnyCarries, us

\* Two recordings with silence in between.
Padded(audio, p, gap, q) ==
  /\ audio \in Seq(Samples) /\ Len(audio) = Len(p) + gap + Len(q)
  /\ \A i \in 1..Len(p) : i \in 1..Len(audio) /\ audio[i] = p[i]
  /\ \A i \in Len(p) + 1 .. Len(p) + gap : audio[i].level = "silence"
  /\ \A k \in 1..Len(q) : /\ Len(p) + gap + k \in 1..Len(audio)
                          /\ audio[Len(p) + gap + k] = q[k]
  /\ \A i \in 1..Len(audio) : \/ i \in 1..Len(p)
                              \/ i \in Len(p) + 1 .. Len(p) + gap
                              \/ \E k \in 1..Len(q) : i = Len(p) + gap + k

LEMMA PaddedProperties ==
  ASSUME NEW p \in Seq(Samples), NEW q \in Seq(Samples), NEW gap \in Nat
  PROVE  Padded(p \o Silence(gap) \o q, p, gap, q)
<1> DEFINE audio == p \o Silence(gap) \o q
           a == Len(p)
           b == Len(q)
<1>1. a \in Nat /\ b \in Nat /\ Len(p) = a /\ Len(q) = b
  BY LenProperties
<1> HIDE DEF a, b
<1> DEFINE quiet == Silence(gap)
<1>2. quiet \in Seq(Samples) /\ Len(quiet) = gap /\ \A i \in 1..gap : quiet[i].level = "silence"
  <2>1. Frame(0, "silence") \in Samples /\ Frame(0, "silence").level = "silence"
    BY DEF Frame, Samples
  <2>2. quiet = [i \in 1..gap |-> Frame(0, "silence")]
    BY DEF Silence
  <2>3. quiet \in [1..gap -> Samples]
    BY <2>1, <2>2
  <2> HIDE DEF quiet
  <2>4. quiet \in Seq(Samples)
    BY <2>3, SeqDef
  <2>5. Len(quiet) = gap
    BY <2>3, <2>4, LenProperties
  <2> QED BY <2>1, <2>2, <2>4, <2>5
<1> DEFINE front == p \o quiet
<1>3. /\ front \in Seq(Samples) /\ Len(front) = a + gap
      /\ \A i \in 1 .. a + gap : front[i] = IF i <= a THEN p[i] ELSE quiet[i - a]
  <2> HIDE DEF quiet
  <2>1. quiet \in Seq(Samples) /\ Len(quiet) = gap
    BY <1>2
  <2>2. /\ p \o quiet \in Seq(Samples) /\ Len(p \o quiet) = Len(p) + Len(quiet)
        /\ \A i \in 1 .. Len(p) + Len(quiet) :
             (p \o quiet)[i] = IF i <= Len(p) THEN p[i] ELSE quiet[i - Len(p)]
    BY <2>1, ConcatProperties
  <2> QED BY <1>1, <2>1, <2>2
<1>4. /\ audio \in Seq(Samples) /\ Len(audio) = a + gap + b
      /\ \A i \in 1 .. a + gap + b :
           audio[i] = IF i <= a + gap THEN front[i] ELSE q[i - (a + gap)]
  <2>1. audio = front \o q /\ a + gap \in Nat
    BY <1>1
  <2> HIDE DEF front, audio
  <2>2. front \in Seq(Samples) /\ Len(front) = a + gap
    BY <1>3
  <2>3. /\ front \o q \in Seq(Samples) /\ Len(front \o q) = Len(front) + Len(q)
        /\ \A i \in 1 .. Len(front) + Len(q) :
             (front \o q)[i] = IF i <= Len(front) THEN front[i] ELSE q[i - Len(front)]
    BY <2>2, ConcatProperties
  <2> QED BY <1>1, <2>1, <2>2, <2>3
<1> HIDE DEF quiet, front, audio
<1>5. \A i \in 1..a : i \in 1..Len(audio) /\ audio[i] = p[i]
  BY <1>1, <1>3, <1>4
<1>6. \A i \in a + 1 .. a + gap : audio[i].level = "silence"
  <2> TAKE i \in a + 1 .. a + gap
  <2>1. i \in 1 .. a + gap /\ i \in 1 .. a + gap + b /\ i <= a + gap /\ ~(i <= a)
        /\ i - a \in 1..gap
    BY <1>1
  <2> QED BY <1>2, <1>3, <1>4, <2>1
<1>7. \A k \in 1..b : a + gap + k \in 1..Len(audio) /\ audio[a + gap + k] = q[k]
  <2> TAKE k \in 1..b
  <2>1. /\ a + gap + k \in 1 .. a + gap + b /\ ~(a + gap + k <= a + gap)
        /\ a + gap + k - (a + gap) = k
    BY <1>1
  <2>2. a + gap + k \in 1..Len(audio)
    BY <1>4, <2>1
  <2> DEFINE i == a + gap + k
  <2>3. i \in 1 .. a + gap + b /\ ~(i <= a + gap) /\ i - (a + gap) = k
    BY <1>1
  <2> HIDE DEF i
  <2>4. audio[i] = q[i - (a + gap)]
    BY <1>4, <2>3
  <2> QED BY <2>2, <2>3, <2>4 DEF i
<1>8. \A i \in 1..Len(audio) : \/ i \in 1..a
                               \/ i \in a + 1 .. a + gap
                               \/ \E k \in 1..b : i = a + gap + k
  <2> TAKE i \in 1..Len(audio)
  <2>1. i \in 1..a \/ i \in a + 1 .. a + gap \/ i - (a + gap) \in 1..b
    BY <1>1, <1>4
  <2>2. i = a + gap + (i - (a + gap))
    BY <1>1, <1>4
  <2> QED BY <2>1, <2>2
<1> QED BY <1>4, <1>5, <1>6, <1>7, <1>8 DEF Padded, a, b, audio

\* The merge of a turn with a later one spans both, with what was spoken in
\* either where it was spoken, and nothing else.
LEMMA MergeKeepsPlace ==
  ASSUME NEW h \in Turn, NEW t \in Turn, Proper(h), Proper(t), h.end <= t.start
  PROVE  /\ Merge(h, t) \in Turn
         /\ Merge(h, t).start = h.start /\ Merge(h, t).end = t.end
         /\ Proper(Merge(h, t))
         /\ \A x : Carries(Merge(h, t), x) <=> Carries(h, x) \/ Carries(t, x)
<1>1. PICK a \in Nat, b \in Nat, at \in Nat, gap \in Nat :
        /\ Len(h.audio) = a /\ Len(t.audio) = b /\ h.start = at
        /\ h.end = at + a /\ t.start = at + a + gap /\ t.end = at + a + gap + b
  <2>1. /\ h.start \in Nat /\ Len(h.audio) \in Nat /\ h.end = h.start + Len(h.audio)
        /\ t.start \in Nat /\ Len(t.audio) \in Nat /\ t.end = t.start + Len(t.audio)
        /\ h.end \in Nat
    BY TurnFields DEF Proper, InPlace
  <2>2. t.start - h.end \in Nat /\ t.start = h.end + (t.start - h.end)
    BY SMTT(30), <2>1
  <2> QED BY <2>1, <2>2
<1>2. h.audio \in Seq(Samples) /\ t.audio \in Seq(Samples) /\ t.end <= MaxFrames
  BY TurnFields
<1> DEFINE audio == h.audio \o Silence(gap) \o t.audio
           m == Merge(h, t)
<1>3. m = [start |-> at, end |-> at + Len(audio), audio |-> audio, reason |-> "merged"]
  <2>1. h.start + Len(h.audio) = h.end /\ t.start - h.end = gap
    BY <1>1
  <2>2. (IF t.start > h.end THEN t.start - h.end ELSE 0) = gap
    BY <1>1
  <2>3. m = [start |-> h.start,
             end |-> h.start + Len(h.audio \o Silence(IF t.start > h.start + Len(h.audio)
                                    THEN t.start - (h.start + Len(h.audio)) ELSE 0) \o t.audio),
             audio |-> h.audio \o Silence(IF t.start > h.start + Len(h.audio)
                                    THEN t.start - (h.start + Len(h.audio)) ELSE 0) \o t.audio,
             reason |-> "merged"]
    BY DEF Merge
  <2> HIDE DEF m
  <2> QED BY <1>1, <2>1, <2>2, <2>3
<1>4. /\ audio \in Seq(Samples) /\ Len(audio) = a + gap + b
      /\ \A i \in 1..a : i \in 1..Len(audio) /\ audio[i] = h.audio[i]
      /\ \A i \in a + 1 .. a + gap : audio[i].level = "silence"
      /\ \A k \in 1..b : a + gap + k \in 1..Len(audio) /\ audio[a + gap + k] = t.audio[k]
      /\ \A i \in 1..Len(audio) : \/ i \in 1..a
                                  \/ i \in a + 1 .. a + gap
                                  \/ \E k \in 1..b : i = a + gap + k
  <2>1. Padded(audio, h.audio, gap, t.audio)
    BY <1>2, PaddedProperties
  <2> HIDE DEF audio
  <2> QED BY <1>1, <2>1 DEF Padded
<1> HIDE DEF audio, m
<1>5. /\ m.start = at /\ m.audio = audio /\ m.reason = "merged"
      /\ m.end = at + Len(audio)
  BY <1>3
<1>6. m.end = t.end /\ m.start < m.end
  <2>1. at + (a + gap + b) = at + a + gap + b
    OBVIOUS
  <2>2. at + a + gap < at + a + gap + b
    BY <1>1 DEF Proper
  <2>3. at < at + (a + gap + b)
    BY <2>2
  <2> QED BY <1>1, <1>4, <1>5, <2>1, <2>3
<1>7. m \in Turn
  <2>1. at + Len(audio) \in 0..MaxFrames
    BY <1>1, <1>2, <1>4, Constants
  <2> QED BY <1>3, <1>4, <2>1 DEF Turn
<1>8. ASSUME NEW i \in 1..Len(audio), audio[i].level # "silence"
      PROVE  audio[i].at = at + i - 1
  <2>1. CASE i \in 1..a
    BY <1>1, <1>4, <1>8, <2>1 DEF Proper, InPlace
  <2>2. CASE i \in a + 1 .. a + gap
    BY <1>4, <1>8, <2>2
  <2>3. ASSUME NEW k \in 1..b, i = a + gap + k PROVE audio[i].at = at + i - 1
    <3>1. audio[i] = t.audio[k]
      BY <1>4, <2>3
    <3>2. t.audio[k].at = at + a + gap + k - 1
      BY <1>1, <1>8, <3>1 DEF Proper, InPlace
    <3>3. at + a + gap + k - 1 = at + i - 1
      BY <2>3
    <3> QED BY <3>1, <3>2, <3>3
  <2> QED BY <1>4, <2>1, <2>2, <2>3
<1>9. Proper(m)
  BY <1>5, <1>6, <1>8 DEF Proper, InPlace
<1>10. ASSUME NEW x PROVE Carries(m, x) <=> Carries(h, x) \/ Carries(t, x)
  <2>1. ASSUME Carries(m, x) PROVE Carries(h, x) \/ Carries(t, x)
    <3>1. PICK i \in 1..Len(audio) : audio[i] = x /\ x.level # "silence"
      BY <1>5, <2>1 DEF Carries
    <3>2. CASE i \in 1..a
      BY <1>1, <1>4, <3>1, <3>2 DEF Carries
    <3>3. CASE i \in a + 1 .. a + gap
      BY <1>4, <3>1, <3>3
    <3>4. CASE \E k \in 1..b : i = a + gap + k
      BY ZenonT(60), <1>1, <1>4, <3>1, <3>4 DEF Carries
    <3> QED BY <1>4, <3>2, <3>3, <3>4
  <2>2. ASSUME Carries(h, x) PROVE Carries(m, x)
    BY <1>1, <1>4, <1>5, <2>2 DEF Carries
  <2>3. ASSUME Carries(t, x) PROVE Carries(m, x)
    BY <1>1, <1>4, <1>5, <2>3 DEF Carries
  <2> QED BY <2>1, <2>2, <2>3
<1> QED BY <1>1, <1>5, <1>6, <1>7, <1>9, <1>10 DEF m

-----------------------------------------------------------------------------
(* The detector *)

\* Outside a turn the ring buffer holds the frames just heard, with the loud
\* ones at its end; in a turn its frames are all those since its start.
Listening ==
  ~inSpeech =>
    /\ startRun < Confirm /\ startRun <= Len(preRoll) /\ Len(preRoll) <= frameIdx
    /\ \A i \in 1..Len(preRoll) : preRoll[i].at = frameIdx - Len(preRoll) + i - 1
Speaking ==
  inSpeech =>
    /\ Len(turnFrames) > 0 /\ turnStart + Len(turnFrames) = frameIdx
    /\ \A i \in 1..Len(turnFrames) : turnFrames[i].at = turnStart + i - 1

DetectorInv == DetectorTypeOK /\ turns \in Seq(Turn) /\ Listening /\ Speaking

\* No turn to come begins before it.
Frontier == IF inSpeech THEN turnStart ELSE frameIdx - Len(preRoll)

\* What a step of the detector does to the turns.
Emits ==
  \/ turns' = turns
  \/ \E t \in Turn : /\ turns' = Append(turns, t) /\ Proper(t)
                     /\ Frontier <= t.start /\ t.end <= Frontier'
Advances == DetectorInv' /\ Frontier' \in Nat /\ Frontier <= Frontier' /\ Emits

\* A turn that closes is in place and lies between its start and now.
LEMMA ClosedTurn ==
  ASSUME turns \in Seq(Turn), turnStart \in Nat,
         NEW frames \in Seq(Frames), NEW n \in Nat \ {0}, Len(frames) = n,
         turnStart + n <= MaxFrames,
         \A i \in 1..n : frames[i].at = turnStart + i - 1,
         NEW v, NEW why \in Closings, CloseTurn(frames, v, why)
  PROVE  /\ inSpeech' = FALSE /\ startRun' = 0 /\ belowRun' = 0
         /\ preRoll' = <<>> /\ turnFrames' = <<>> /\ voiced' = 0
         /\ cut' \in [frames : Seq(Frames), reason : {"none", "max_turn", "hangover", "flush"}]
         /\ \/ turns' = turns
            \/ \E t \in Turn : /\ turns' = Append(turns, t) /\ Proper(t)
                               /\ t.start = turnStart /\ t.end <= turnStart + n
<1> DEFINE surplus == IF Hangover > PostRoll THEN Hangover - PostRoll ELSE 0
           keep == IF Len(frames) > surplus THEN Len(frames) - surplus ELSE 1
           kept == SubSeq(frames, 1, keep)
           lost == SubSeq(frames, keep + 1, Len(frames))
           turn == [start |-> turnStart, end |-> turnStart + keep,
                    audio |-> kept, reason |-> why]
<1>1. keep \in 1..n
  <2>1. surplus \in Nat
    BY Constants
  <2> HIDE DEF surplus
  <2> QED BY <2>1
<1>2. /\ inSpeech' = FALSE /\ startRun' = 0 /\ belowRun' = 0
      /\ preRoll' = <<>> /\ turnFrames' = <<>> /\ voiced' = 0
      /\ cut' = [frames |-> lost, reason |-> why]
      /\ turns' = turns \/ turns' = Append(turns, turn)
  BY DEF CloseTurn
<1> HIDE DEF keep
<1>3. \A i \in 1..n : frames[i] \in Frames /\ frames[i] \in Samples
  <2> TAKE i \in 1..n
  <2>1. frames[i] \in Frames
    BY ElementOfSeq
  <2> QED BY <2>1, Constants DEF Frames, Samples
<1>4. lost \in Seq(Frames)
  <2>1. \A i \in keep + 1 .. n : frames[i] \in Frames
    BY <1>1, <1>3
  <2>2. keep + 1 \in Int /\ n \in Int
    BY <1>1
  <2>3. SubSeq(frames, keep + 1, n) \in Seq(Frames)
    BY <2>1, <2>2, SubSeqProperties
  <2> QED BY <2>3
<1>5. kept \in Seq(Samples) /\ Len(kept) = keep /\ \A i \in 1..keep : kept[i] = frames[i]
  <2>1. \A i \in 1 .. keep : frames[i] \in Samples
    BY <1>1, <1>3
  <2>2. keep \in Int /\ 1 \in Int
    BY <1>1
  <2>3. /\ kept \in Seq(Samples) /\ Len(kept) = IF 1 <= keep THEN keep - 1 + 1 ELSE 0
        /\ \A i \in 1 .. keep - 1 + 1 : kept[i] = frames[1 + i - 1]
    BY <2>1, <2>2, SubSeqProperties
  <2> HIDE DEF kept
  <2> QED BY <1>1, <2>3
<1>6. turnStart + keep \in 0..MaxFrames /\ turnStart < turnStart + keep
      /\ turnStart + keep <= turnStart + n
  BY <1>1, Constants
<1> HIDE DEF kept, lost
<1>7. turn \in Turn /\ turn.start = turnStart /\ turn.end = turnStart + keep /\ turn.audio = kept
  BY <1>5, <1>6 DEF Turn
<1>8. Proper(turn)
  <2>1. \A i \in 1..keep : kept[i].at = turnStart + i - 1
    BY <1>1, <1>5
  <2> HIDE DEF turn
  <2> QED BY <1>5, <1>6, <1>7, <2>1 DEF Proper, InPlace
<1>9. cut' \in [frames : Seq(Frames), reason : {"none", "max_turn", "hangover", "flush"}]
  BY <1>2, <1>4 DEF Closings
<1>10. turn.start = turnStart /\ turn.end <= turnStart + n
  BY <1>6, <1>7
<1> HIDE DEF turn
<1> QED BY <1>2, <1>7, <1>8, <1>9, <1>10

LEMMA ListenStep ==
  ASSUME DetectorInv, frameIdx < MaxFrames, NEW level \in Levels, Listen(level)
  PROVE  Advances
<1> DEFINE all == Append(preRoll, Frame(frameIdx, level))
           recent == LastOf(all, PreRoll)
           run == IF level = "loud" THEN startRun + 1 ELSE 0
           confirmIdx == frameIdx + 1 - Confirm
           older == {k \in 1..Len(recent) : recent[k].at < confirmIdx}
<1>1. PICK n \in Nat, now \in Nat :
        /\ n = Len(preRoll) /\ now = frameIdx /\ n <= PreRoll /\ n <= now
        /\ startRun \in Nat /\ startRun < Confirm /\ startRun <= n /\ now < MaxFrames
        /\ preRoll \in Seq(Frames)
        /\ \A i \in 1..n : preRoll[i].at = now - n + i - 1
  BY LenProperties DEF DetectorInv, DetectorTypeOK, Listening, Listen
<1>2. Frame(now, level) \in Frames /\ Frame(now, level).at = now
  BY <1>1, Constants DEF Frame, Frames
<1>3. /\ all \in Seq(Frames) /\ Len(all) = n + 1
      /\ \A i \in 1 .. n + 1 : all[i].at = now - n + i - 1
  <2>1. /\ all \in Seq(Frames) /\ Len(all) = n + 1 /\ all[n + 1] = Frame(now, level)
        /\ \A i \in 1..n : all[i] = preRoll[i]
    BY <1>1, <1>2, AppendFacts
  <2> HIDE DEF all
  <2>2. \A i \in 1 .. n + 1 : i \in 1..n \/ i = n + 1
    BY <1>1
  <2>3. all[n + 1].at = now - n + (n + 1) - 1
    BY <1>1, <1>2, <2>1
  <2>4. \A i \in 1..n : all[i].at = now - n + i - 1
    BY <1>1, <2>1
  <2> QED BY <2>1, <2>2, <2>3, <2>4
<1> HIDE DEF all
<1>4. PICK m \in 1..PreRoll :
        /\ recent \in Seq(Frames) /\ Len(recent) = m
        /\ m = IF n + 1 > PreRoll THEN PreRoll ELSE n + 1
        /\ \A i \in 1..m : recent[i].at = now - m + i
  <2>1. /\ recent \in Seq(Frames)
        /\ Len(recent) = IF Len(all) > PreRoll THEN PreRoll ELSE Len(all)
        /\ \A i \in 1..Len(recent) : recent[i] = all[Len(all) - Len(recent) + i]
    BY <1>3, Constants, LastOfProperties
  <2> DEFINE m == Len(recent)
  <2> HIDE DEF recent
  <2>2. m \in 1..PreRoll /\ m = IF n + 1 > PreRoll THEN PreRoll ELSE n + 1
    BY <1>1, <1>3, <2>1, Constants
  <2>4. \A i \in 1..m : recent[i] = all[Len(all) - m + i]
    BY <2>1
  <2> HIDE DEF m
  <2>3. ASSUME NEW i \in 1..m PROVE recent[i].at = now - m + i
    <3>5. n + 1 - m + i \in 1 .. n + 1
      BY <1>1, <2>2, Constants
    <3>1. PICK j \in 1 .. n + 1 : j = n + 1 - m + i
      BY <3>5
    <3>2. recent[i] = all[j]
      <4>1. Len(all) - m + i = j
        BY <1>3, <2>2, <3>1
      <4> QED BY <2>4, <4>1
    <3>3. all[j].at = now - n + j - 1
      BY <1>3
    <3>4. now - n + j - 1 = now - m + i
      BY <1>1, <2>2, <3>1, Constants
    <3> QED BY <3>2, <3>3, <3>4
  <2> QED BY <2>1, <2>2, <2>3 DEF m
<1> HIDE DEF recent
<1>5. /\ frameIdx' = now + 1 /\ preRoll' = recent /\ startRun' = run /\ turns' = turns
      /\ UNCHANGED cut
      /\ run \in Nat /\ run <= m /\ run <= Confirm /\ m <= now + 1
  <2>1. frameIdx' = now + 1 /\ preRoll' = recent /\ startRun' = run /\ turns' = turns
        /\ UNCHANGED cut
    BY <1>1 DEF Listen, recent, all
  <2>2. run \in Nat /\ run <= m /\ run <= Confirm /\ m <= now + 1
    BY <1>1, <1>4, Constants
  <2> QED BY <2>1, <2>2
<1>6. Frontier = now - n /\ now - n \in Nat /\ now - n <= now + 1 - m /\ now + 1 - m \in Nat
  <2>1. ~inSpeech
    BY DEF Listen
  <2> QED BY <1>1, <1>4, <2>1, Constants DEF Frontier
<1>7. /\ frameIdx' \in 0..MaxFrames /\ startRun' \in 0..Confirm
      /\ preRoll' \in Seq(Frames) /\ Len(preRoll') = m /\ m <= PreRoll
      /\ cut' \in [frames : Seq(Frames), reason : {"none", "max_turn", "hangover", "flush"}]
      /\ turns' \in Seq(Turn)
  BY <1>1, <1>4, <1>5, Constants DEF DetectorInv, DetectorTypeOK
<1>8. CASE run < Confirm
  <2>1. UNCHANGED <<inSpeech, belowRun, turnStart, turnFrames, voiced>> /\ inSpeech = FALSE
    BY <1>8 DEF Listen, DetectorInv, DetectorTypeOK
  <2>2. DetectorTypeOK'
    BY <1>5, <1>7, <2>1 DEF DetectorInv, DetectorTypeOK
  <2>3. \A i \in 1..m : recent[i].at = (now + 1) - m + i - 1
    <3> TAKE i \in 1..m
    <3>1. recent[i].at = now - m + i
      BY <1>4
    <3>2. now - m + i = (now + 1) - m + i - 1
      BY <1>4, Constants
    <3> QED BY <3>1, <3>2
  <2>4. Listening'
    BY <1>4, <1>5, <1>8, <2>3 DEF Listening
  <2>5. Frontier' = now + 1 - m
    <3>1. ~inSpeech' /\ frameIdx' = now + 1 /\ Len(preRoll') = m
      BY <1>5, <1>7, <2>1
    <3> QED BY <3>1 DEF Frontier
  <2> QED BY <1>5, <1>6, <1>7, <2>1, <2>2, <2>4, <2>5 DEF Advances, Emits, DetectorInv, Speaking
<1>9. CASE ~(run < Confirm)
  <2>1. /\ inSpeech' = TRUE /\ belowRun' = 0
        /\ turnStart' = IF older = {} THEN confirmIdx ELSE recent[Min(older)].at
        /\ turnFrames' = recent
        /\ voiced' \in 1..Confirm
    BY <1>9 DEF Listen, recent, all
  <2>2. run = Confirm /\ Confirm <= m
    BY <1>5, <1>9, Constants
  <2>3. turnStart' = now + 1 - m
    <3>1. \A k \in 1..m : recent[k].at < confirmIdx <=> k < m + 1 - Confirm
      <4> TAKE k \in 1..m
      <4>1. recent[k].at = now - m + k
        BY <1>4
      <4>2. now - m + k < now + 1 - Confirm <=> k < m + 1 - Confirm
        BY <1>4, Constants
      <4> QED BY <1>1, <4>1, <4>2
    <3>2. CASE m = Confirm
      <4>1. older = {}
        <5>1. Len(recent) = m
          BY <1>4
        <5>2. \A k \in 1..m : ~(k < m + 1 - Confirm)
          BY <3>2
        <5>3. \A k \in 1..m : ~(recent[k].at < confirmIdx)
          BY <3>1, <5>2
        <5> QED BY <5>1, <5>3
      <4>2. confirmIdx = now + 1 - m
        BY <1>1, <3>2
      <4> HIDE DEF confirmIdx, older
      <4> QED BY <2>1, <4>1, <4>2
    <3>3. CASE m # Confirm
      <4>1. 1 \in older /\ \A k \in older : k \in Nat /\ 1 <= k
        BY <1>4, <2>2, <3>1, <3>3, Constants
      <4> HIDE DEF older
      <4>2. Min(older) = 1
        BY <4>1 DEF Min
      <4>3. 1 \in 1..m
        BY <1>4
      <4>4. recent[1].at = now - m + 1
        BY <1>4, <4>3
      <4>5. turnStart' = now - m + 1
        BY <2>1, <4>1, <4>2, <4>4
      <4> QED BY <1>4, <4>5, Constants
    <3> QED BY <3>2, <3>3
  <2>4. m \in Nat /\ m < MaxTurn /\ voiced' \in 0..m /\ 0 \in 0 .. Hangover - 1
    BY <1>4, <2>1, <2>2, Constants
  <2>5. now + 1 - m \in 0..MaxFrames
    BY <1>1, <1>6, Constants
  <2>6. DetectorTypeOK'
    BY <1>4, <1>7, <2>1, <2>3, <2>4, <2>5 DEF DetectorTypeOK
  <2>7. now + 1 - m + m = now + 1 /\ m > 0
    BY <1>4, Constants
  <2>8. \A i \in 1..m : recent[i].at = (now + 1 - m) + i - 1
    <3> TAKE i \in 1..m
    <3>1. recent[i].at = now - m + i
      BY <1>4
    <3>2. now - m + i = (now + 1 - m) + i - 1
      BY <1>4, Constants
    <3> QED BY <3>1, <3>2
  <2>9. Speaking'
    BY <1>4, <1>5, <2>1, <2>3, <2>7, <2>8 DEF Speaking
  <2>10. Frontier' = now + 1 - m
    BY <2>1, <2>3 DEF Frontier
  <2> QED BY <1>5, <1>6, <1>7, <2>1, <2>6, <2>9, <2>10 DEF Advances, Emits, DetectorInv, Listening
<1> QED BY <1>8, <1>9

\* A close from within a turn of n frames that end at `now`.
LEMMA CloseAdvances ==
  ASSUME DetectorInv, inSpeech, NEW now \in 0..MaxFrames, NEW n \in Nat \ {0},
         NEW frames \in Seq(Frames), Len(frames) = n, turnStart + n = now,
         \A i \in 1..n : frames[i].at = turnStart + i - 1,
         NEW v, NEW why \in Closings, CloseTurn(frames, v, why),
         frameIdx' = now, UNCHANGED turnStart
  PROVE  Advances
<1>1. turnStart \in 0..MaxFrames /\ turnStart \in Nat /\ turns \in Seq(Turn)
      /\ turnStart + n <= MaxFrames /\ turnStart <= now /\ now \in Nat
  BY Constants DEF DetectorInv, DetectorTypeOK
<1>2. /\ inSpeech' = FALSE /\ startRun' = 0 /\ belowRun' = 0
      /\ preRoll' = <<>> /\ turnFrames' = <<>> /\ voiced' = 0
      /\ cut' \in [frames : Seq(Frames), reason : {"none", "max_turn", "hangover", "flush"}]
      /\ \/ turns' = turns
         \/ \E t \in Turn : /\ turns' = Append(turns, t) /\ Proper(t)
                            /\ t.start = turnStart /\ t.end <= turnStart + n
  BY <1>1, ClosedTurn
<1>3. Frontier = turnStart
  BY DEF Frontier
<1>4. Frontier' = now
  <2>1. ~inSpeech' /\ frameIdx' = now /\ Len(preRoll') = 0
    BY <1>2
  <2> QED BY <1>1, <2>1 DEF Frontier
<1>5. turns' \in Seq(Turn) /\ Emits
  <2>1. CASE turns' = turns
    BY <1>1, <2>1 DEF Emits
  <2>2. CASE \E t \in Turn : /\ turns' = Append(turns, t) /\ Proper(t)
                             /\ t.start = turnStart /\ t.end <= turnStart + n
    <3>1. PICK t \in Turn : /\ turns' = Append(turns, t) /\ Proper(t)
                            /\ t.start = turnStart /\ t.end <= turnStart + n
      BY <2>2
    <3>2. turns' \in Seq(Turn)
      BY <1>1, <3>1, AppendFacts
    <3>3. Frontier <= t.start /\ t.end <= Frontier'
      <4>1. t.start \in Nat /\ t.end \in Nat
        BY TurnFields
      <4>2. t.end <= now
        BY <3>1
      <4> QED BY <1>1, <1>3, <1>4, <3>1, <4>1, <4>2
    <3> QED BY <3>1, <3>2, <3>3 DEF Emits
  <2> QED BY <1>2, <2>1, <2>2
<1>6. DetectorTypeOK'
  <2>1. /\ 0 \in 0..Confirm /\ 0 \in 0 .. Hangover - 1 /\ 0 <= PreRoll /\ 0 < MaxTurn /\ 0 \in 0..0
    BY Constants
  <2>2. preRoll' \in Seq(Frames) /\ turnFrames' \in Seq(Frames)
        /\ Len(preRoll') = 0 /\ Len(turnFrames') = 0
    BY <1>2
  <2> QED BY <1>1, <1>2, <2>1, <2>2 DEF DetectorTypeOK
<1>7. Listening' /\ Speaking'
  <2>1. Len(preRoll') = 0 /\ 0 < Confirm /\ 0 <= frameIdx' /\ 1..0 = {}
    BY <1>1, <1>2, Constants
  <2> QED BY <1>2, <2>1 DEF Listening, Speaking
<1> QED BY <1>1, <1>3, <1>4, <1>5, <1>6, <1>7 DEF Advances, DetectorInv

LEMMA FollowStep ==
  ASSUME DetectorInv, frameIdx < MaxFrames, NEW level \in Levels, Follow(level)
  PROVE  Advances
<1> DEFINE frames == Append(turnFrames, Frame(frameIdx, level))
           voicedFrames == IF level = "quiet" THEN voiced ELSE voiced + 1
           below == IF level = "quiet" THEN belowRun + 1 ELSE 0
<1>1. PICK n \in Nat \ {0}, now \in Nat :
        /\ n = Len(turnFrames) /\ now = frameIdx /\ now < MaxFrames
        /\ turnFrames \in Seq(Frames) /\ turnStart + n = now /\ turnStart \in Nat
        /\ \A i \in 1..n : turnFrames[i].at = turnStart + i - 1
  BY LenProperties DEF DetectorInv, DetectorTypeOK, Speaking, Follow
<1>2. Frame(now, level) \in Frames /\ Frame(now, level).at = now
  BY <1>1, Constants DEF Frame, Frames
<1>3. /\ frames \in Seq(Frames) /\ Len(frames) = n + 1
      /\ \A i \in 1 .. n + 1 : frames[i].at = turnStart + i - 1
  <2>1. /\ frames \in Seq(Frames) /\ Len(frames) = n + 1 /\ frames[n + 1] = Frame(now, level)
        /\ \A i \in 1..n : frames[i] = turnFrames[i]
    BY <1>1, <1>2, AppendFacts
  <2> HIDE DEF frames
  <2>2. \A i \in 1 .. n + 1 : i \in 1..n \/ i = n + 1
    BY <1>1
  <2>3. frames[n + 1].at = turnStart + (n + 1) - 1
    BY <1>1, <1>2, <2>1
  <2>4. \A i \in 1..n : frames[i].at = turnStart + i - 1
    BY <1>1, <2>1
  <2> QED BY <2>1, <2>2, <2>3, <2>4
<1> HIDE DEF frames
<1>4. /\ inSpeech /\ frameIdx' = now + 1 /\ UNCHANGED turnStart
      /\ now + 1 \in 0..MaxFrames /\ n + 1 \in Nat \ {0} /\ turnStart + (n + 1) = now + 1
  BY <1>1, Constants DEF Follow
<1>5. ASSUME NEW why \in Closings, CloseTurn(frames, voicedFrames, why) PROVE Advances
  BY <1>3, <1>4, <1>5, CloseAdvances
<1>6. CASE ~(Len(frames) >= MaxTurn) /\ ~(below >= Hangover)
  <2>1. /\ turnFrames' = frames /\ voiced' = voicedFrames /\ belowRun' = below
        /\ UNCHANGED <<inSpeech, startRun, preRoll, turns, cut>>
    BY <1>6 DEF Follow, frames
  <2>2. voicedFrames \in 0 .. n + 1 /\ below \in 0 .. Hangover - 1 /\ n + 1 < MaxTurn
    BY <1>1, <1>3, <1>6, Constants DEF DetectorInv, DetectorTypeOK
  <2> HIDE DEF voicedFrames, below
  <2>3. DetectorTypeOK'
    BY <1>3, <1>4, <2>1, <2>2 DEF DetectorInv, DetectorTypeOK
  <2>4. n + 1 > 0
    BY <1>1
  <2>5. Speaking' /\ Listening'
    BY <1>3, <1>4, <2>1, <2>4 DEF Speaking, Listening
  <2>6. Frontier' = turnStart /\ Frontier = turnStart
    BY <1>4, <2>1 DEF Frontier
  <2>7. turns' \in Seq(Turn) /\ turns' = turns
    BY <2>1 DEF DetectorInv
  <2> QED BY <1>1, <2>3, <2>5, <2>6, <2>7 DEF Advances, Emits, DetectorInv
<1>7. \/ \E why \in Closings : CloseTurn(frames, voicedFrames, why)
      \/ ~(Len(frames) >= MaxTurn) /\ ~(below >= Hangover)
  BY DEF Follow, Closings, frames
<1> QED BY <1>5, <1>6, <1>7

LEMMA FlushStep == ASSUME DetectorInv, Flush PROVE Advances
<1>1. PICK n \in Nat \ {0} :
        /\ n = Len(turnFrames) /\ turnFrames \in Seq(Frames) /\ turnStart + n = frameIdx
        /\ \A i \in 1..n : turnFrames[i].at = turnStart + i - 1
  BY LenProperties DEF DetectorInv, DetectorTypeOK, Speaking, Flush
<1>2. /\ inSpeech /\ frameIdx \in 0..MaxFrames /\ frameIdx' = frameIdx /\ UNCHANGED turnStart
      /\ CloseTurn(turnFrames, voiced, "flush") /\ "flush" \in Closings
  BY DEF Flush, Closings, DetectorInv, DetectorTypeOK
<1> QED BY <1>1, <1>2, CloseAdvances

LEMMA FrontierType == ASSUME DetectorInv PROVE Frontier \in Nat /\ Frontier <= MaxFrames
<1>1. frameIdx \in 0..MaxFrames /\ turnStart \in 0..MaxFrames /\ Len(preRoll) \in Nat
  BY LenProperties DEF DetectorInv, DetectorTypeOK
<1>2. ~inSpeech => Len(preRoll) <= frameIdx
  BY DEF DetectorInv, Listening
<1> QED BY <1>1, <1>2, Constants DEF Frontier

LEMMA RestStep == ASSUME DetectorInv, UNCHANGED detectorVars PROVE Advances
<1>1. DetectorInv' /\ Frontier' = Frontier
  BY DEF detectorVars, stateVars, DetectorInv, DetectorTypeOK, Listening, Speaking, Frontier
<1>2. Frontier <= Frontier
  BY FrontierType
<1> QED BY <1>1, <1>2, FrontierType DEF Advances, Emits, detectorVars

\* Every step of the stream is one of the detector.
LEMMA DetectorStep ==
  ASSUME DetectorInv, ProcessFrame \/ Flush \/ UNCHANGED detectorVars
  PROVE  Advances
BY ListenStep, FollowStep, FlushStep, RestStep DEF ProcessFrame

LEMMA DetectorStart == DetectorInit => DetectorInv /\ Frontier = 0 /\ turns = <<>>
<1> SUFFICES ASSUME DetectorInit PROVE DetectorInv /\ Frontier = 0 /\ turns = <<>>
  OBVIOUS
<1>1. /\ 0 \in 0..MaxFrames /\ 0 \in 0..Confirm /\ 0 \in 0 .. Hangover - 1
      /\ 0 < MaxTurn /\ 0 <= PreRoll /\ 0 \in 0..0 /\ 0 < Confirm /\ 0 <= 0
  BY Constants
<1>2. /\ frameIdx = 0 /\ inSpeech = FALSE /\ startRun = 0 /\ belowRun = 0
      /\ preRoll \in Seq(Frames) /\ Len(preRoll) = 0 /\ turnStart = 0
      /\ turnFrames \in Seq(Frames) /\ Len(turnFrames) = 0 /\ voiced = 0
      /\ turns = <<>> /\ turns \in Seq(Turn)
  BY DEF DetectorInit
<1>3. cut \in [frames : Seq(Frames), reason : {"none", "max_turn", "hangover", "flush"}]
  BY DEF DetectorInit
<1>4. DetectorTypeOK
  BY <1>1, <1>2, <1>3 DEF DetectorTypeOK
<1>5. Frontier = 0 /\ Listening /\ Speaking
  BY <1>1, <1>2 DEF Listening, Speaking, Frontier
<1> QED BY <1>2, <1>4, <1>5 DEF DetectorInv

-----------------------------------------------------------------------------
(* The coalescer *)

\* What was submitted or is held: the turns in a row, all of them before the
\* next one can begin, with exactly what was spoken in the turns emitted.
MicInv ==
  /\ DetectorInv
  /\ released \in Seq(Turn) /\ pending \in Seq(Turn) /\ Len(pending) \in 0..1
  /\ audioEnd = IF pending = <<>> THEN 0 ELSE pending[1].end
  /\ ended \in BOOLEAN
  /\ \A k \in 1..Len(turns) : Proper(turns[k])
  /\ InARow(Submitted, Frontier)
  /\ \A x : AnyCarries(Submitted, x) <=> AnyCarries(turns, x)

LEMMA InARowLonger ==
  ASSUME NEW ts \in Seq(Turn), NEW limit \in Nat, NEW limit2 \in Nat, limit <= limit2,
         InARow(ts, limit)
  PROVE  InARow(ts, limit2)
<1>1. ASSUME NEW k \in 1..Len(ts) PROVE ts[k].end <= limit2
  <2>1. ts[k] \in Turn
    BY ElementOfSeq
  <2>2. ts[k].end \in Nat /\ ts[k].end <= limit
    BY <2>1, TurnFields DEF InARow
  <2> QED BY <2>2
<1> QED BY <1>1 DEF InARow

LEMMA InARowFront ==
  ASSUME NEW ts \in Seq(Turn), NEW h \in Turn, NEW limit, InARow(Append(ts, h), limit)
  PROVE  InARow(ts, h.start) /\ Proper(h) /\ h.end <= limit
<1> DEFINE us == Append(ts, h)
<1>1. /\ Len(ts) \in Nat /\ Len(us) = Len(ts) + 1 /\ us[Len(ts) + 1] = h
      /\ \A i \in 1..Len(ts) : us[i] = ts[i]
  BY AppendFacts
<1> HIDE DEF us
<1>2. Len(ts) + 1 \in 1..Len(us) /\ \A i \in 1..Len(ts) : i \in 1..Len(us) /\ i < Len(ts) + 1
  BY <1>1
<1>3. InARow(us, limit)
  BY DEF us
<1> QED BY <1>1, <1>2, <1>3 DEF InARow

\* The list that results when a turn is offered, and what is held then.
OfferKeeps(t, limit) ==
  LET o == Offered(t)
      list == released \o o.ready \o o.held
  IN  /\ released \o o.ready \in Seq(Turn) /\ o.held \in Seq(Turn) /\ Len(o.held) = 1
      /\ o.held[1].end = t.end
      /\ list \in Seq(Turn) /\ InARow(list, limit)
      /\ \A x : AnyCarries(list, x) <=> AnyCarries(Append(turns, t), x)

LEMMA OfferStep ==
  ASSUME MicInv, NEW t \in Turn, Proper(t), Frontier <= t.start,
         NEW limit \in Nat, t.end <= limit, Frontier <= limit
  PROVE  OfferKeeps(t, limit)
<1> DEFINE o == Offered(t)
<1>1. /\ released \in Seq(Turn) /\ pending \in Seq(Turn) /\ turns \in Seq(Turn)
      /\ InARow(Submitted, Frontier) /\ Frontier \in Nat /\ Submitted \in Seq(Turn)
  BY FrontierType, ConcatProperties DEF MicInv, DetectorInv, Submitted
<1>2. CASE Mergeable(t)
  <2> DEFINE h == pending[1]
             m == Merge(h, t)
  <2>1. Len(pending) = 1 /\ h \in Turn /\ pending = <<h>>
    <3>1. pending # <<>>
      BY <1>2 DEF Mergeable
    <3>2. Len(pending) = 1
      BY <1>1, <3>1, EmptySeq DEF MicInv
    <3>3. h \in Turn
      <4>1. 1 \in 1..Len(pending)
        BY <3>2
      <4>2. pending[1] \in Turn
        BY <1>1, <4>1, ElementOfSeq
      <4> QED BY <4>2
    <3>4. pending = <<pending[1]>>
      BY <1>1, <3>2
    <3> QED BY <3>2, <3>3, <3>4
  <2>2. o.held = <<m>> /\ o.ready = <<>>
    BY <1>2 DEF Offered
  <2> HIDE DEF h
  <2>3. Submitted = Append(released, h)
    BY <1>1, <2>1 DEF Submitted
  <2>4. InARow(released, h.start) /\ Proper(h) /\ h.end <= Frontier
    BY <1>1, <2>1, <2>3, InARowFront
  <2>5. /\ h.start \in Nat /\ h.end \in Nat /\ t.start \in Nat /\ t.end \in Nat
    BY <2>1, TurnFields
  <2>6. h.end <= t.start
    BY <1>1, <2>4, <2>5
  <2>7. /\ m \in Turn /\ m.start = h.start /\ m.end = t.end /\ Proper(m)
        /\ \A x : Carries(m, x) <=> Carries(h, x) \/ Carries(t, x)
    BY <2>1, <2>4, <2>6, MergeKeepsPlace
  <2> HIDE DEF m
  <2>8. /\ released \o o.ready = released /\ o.held \in Seq(Turn) /\ Len(o.held) = 1
        /\ o.held[1] = m /\ released \o o.ready \o o.held = Append(released, m)
    BY <1>1, <2>2, <2>7
  <2>9. h.start <= limit
    <3>1. h.start < h.end
      BY <2>4 DEF Proper
    <3> QED BY <1>1, <2>4, <2>5, <3>1
  <2>10. InARow(Append(released, m), limit)
    <3>1. h.start <= m.start /\ m.end <= limit
      BY <2>5, <2>7
    <3> QED BY <1>1, <2>4, <2>5, <2>7, <2>9, <3>1, AppendInARow
  <2>11. ASSUME NEW x
         PROVE  AnyCarries(Append(released, m), x) <=> AnyCarries(Append(turns, t), x)
    <3>1. AnyCarries(Append(released, m), x) <=> AnyCarries(released, x) \/ Carries(m, x)
      BY <1>1, <2>7, AppendCarries
    <3>2. AnyCarries(Append(released, h), x) <=> AnyCarries(released, x) \/ Carries(h, x)
      BY <1>1, <2>1, AppendCarries
    <3>3. AnyCarries(Append(turns, t), x) <=> AnyCarries(turns, x) \/ Carries(t, x)
      BY <1>1, AppendCarries
    <3>4. AnyCarries(Submitted, x) <=> AnyCarries(turns, x)
      BY DEF MicInv
    <3> QED BY <2>3, <2>7, <3>1, <3>2, <3>3, <3>4
  <2>12. Append(released, m) \in Seq(Turn)
    BY <1>1, <2>7, AppendFacts
  <2> HIDE DEF o
  <2> QED BY <1>1, <2>7, <2>8, <2>10, <2>11, <2>12 DEF OfferKeeps, o
<1>3. CASE ~Mergeable(t)
  <2>1. o.held = <<t>> /\ o.ready = pending
    BY <1>3 DEF Offered
  <2>2. /\ released \o o.ready = Submitted /\ o.held \in Seq(Turn) /\ Len(o.held) = 1
        /\ o.held[1] = t /\ released \o o.ready \o o.held = Append(Submitted, t)
    <3>1. released \o pending = Submitted
      BY DEF Submitted
    <3>2. Submitted \o <<t>> = Append(Submitted, t)
      BY <1>1
    <3> HIDE DEF o
    <3> QED BY <2>1, <3>1, <3>2
  <2>3. InARow(Append(Submitted, t), limit) /\ Append(Submitted, t) \in Seq(Turn)
    BY <1>1, AppendInARow, AppendFacts
  <2>4. ASSUME NEW x
        PROVE  AnyCarries(Append(Submitted, t), x) <=> AnyCarries(Append(turns, t), x)
    <3>1. AnyCarries(Append(Submitted, t), x) <=> AnyCarries(Submitted, x) \/ Carries(t, x)
      BY <1>1, AppendCarries
    <3>2. AnyCarries(Append(turns, t), x) <=> AnyCarries(turns, x) \/ Carries(t, x)
      BY <1>1, AppendCarries
    <3>3. AnyCarries(Submitted, x) <=> AnyCarries(turns, x)
      BY DEF MicInv
    <3> QED BY <3>1, <3>2, <3>3
  <2> HIDE DEF o
  <2> QED BY <1>1, <2>2, <2>3, <2>4 DEF OfferKeeps, o
<1> QED BY <1>2, <1>3

\* The limits, types and places after a step, from what the step does to the
\* detector and to the turns held and submitted.
LEMMA QuietEffect ==
  ASSUME MicInv, Advances, turns' = turns, ended' \in BOOLEAN,
         \/ UNCHANGED <<pending, audioEnd, released>>
         \/ pending' = <<>> /\ audioEnd' = 0 /\ released' = released \o pending
  PROVE  MicInv'
<1>1. /\ released \in Seq(Turn) /\ pending \in Seq(Turn) /\ Submitted \in Seq(Turn)
      /\ Frontier \in Nat /\ Frontier' \in Nat /\ Frontier <= Frontier' /\ DetectorInv'
      /\ InARow(Submitted, Frontier)
  BY FrontierType, ConcatProperties DEF MicInv, Submitted, Advances
<1>2. /\ Submitted' = Submitted
      /\ released' \in Seq(Turn) /\ pending' \in Seq(Turn) /\ Len(pending') \in 0..1
      /\ audioEnd' = IF pending' = <<>> THEN 0 ELSE pending'[1].end
  <2>1. CASE UNCHANGED <<pending, audioEnd, released>>
    BY <1>1, <2>1 DEF MicInv, Submitted
  <2>2. CASE pending' = <<>> /\ audioEnd' = 0 /\ released' = released \o pending
    <3>1. released' = Submitted
      BY <2>2 DEF Submitted
    <3>2. Submitted' = Submitted
      BY <1>1, <2>2, <3>1, ConcatEmptySeq DEF Submitted
    <3> QED BY <1>1, <2>2, <3>1, <3>2
  <2> QED BY <2>1, <2>2
<1>3. InARow(Submitted', Frontier')
  BY <1>1, <1>2, InARowLonger
<1>4. \A x : AnyCarries(Submitted', x) <=> AnyCarries(turns', x)
  BY <1>2 DEF MicInv
<1>5. \A k \in 1..Len(turns') : Proper(turns'[k])
  BY DEF MicInv
<1> QED
  BY <1>1, <1>2, <1>3, <1>4, <1>5 DEF MicInv, InARow, AnyCarries, Carries, Proper, InPlace

LEMMA OfferEffect ==
  ASSUME MicInv, Advances, turns' # turns, ended' \in BOOLEAN,
         LET o == Offered(Newest) IN
         \/ /\ pending' = o.held /\ audioEnd' = Newest.end
            /\ released' = released \o o.ready
         \/ /\ pending' = <<>> /\ audioEnd' = 0
            /\ released' = released \o o.ready \o o.held
  PROVE  MicInv'
<1>1. /\ turns \in Seq(Turn) /\ released \in Seq(Turn)
      /\ Frontier \in Nat /\ Frontier' \in Nat /\ Frontier <= Frontier' /\ DetectorInv'
  BY FrontierType DEF MicInv, Advances, DetectorInv
<1>2. PICK t \in Turn : /\ turns' = Append(turns, t) /\ Proper(t)
                        /\ Frontier <= t.start /\ t.end <= Frontier'
  BY DEF Advances, Emits
<1>3. Newest = t
  <2>1. turns \in Seq(Turn) /\ turns' = Append(turns, t)
    BY <1>1, <1>2
  <2>2. Len(turns') = Len(turns) + 1 /\ Append(turns, t)[Len(turns) + 1] = t
    BY <2>1, AppendFacts
  <2>3. turns'[Len(turns')] = t
    BY <2>1, <2>2
  <2> QED BY <2>3 DEF Newest
<1>4. OfferKeeps(t, Frontier')
  BY <1>1, <1>2, OfferStep
<1> DEFINE o == Offered(t)
           list == released \o o.ready \o o.held
<1>5. /\ released \o o.ready \in Seq(Turn) /\ o.held \in Seq(Turn) /\ Len(o.held) = 1
      /\ o.held[1].end = t.end /\ list \in Seq(Turn) /\ InARow(list, Frontier')
      /\ \A x : AnyCarries(list, x) <=> AnyCarries(turns', x)
  BY <1>2, <1>4 DEF OfferKeeps
<1>6. \/ /\ pending' = o.held /\ audioEnd' = t.end /\ released' = released \o o.ready
      \/ pending' = <<>> /\ audioEnd' = 0 /\ released' = list
  BY <1>3
<1> HIDE DEF o
<1>7. /\ Submitted' = list
      /\ released' \in Seq(Turn) /\ pending' \in Seq(Turn) /\ Len(pending') \in 0..1
      /\ audioEnd' = IF pending' = <<>> THEN 0 ELSE pending'[1].end
  <2>1. CASE /\ pending' = o.held /\ audioEnd' = t.end /\ released' = released \o o.ready
    <3>1. pending' # <<>>
      BY <1>5, <2>1, EmptySeq
    <3> QED BY <1>5, <2>1, <3>1 DEF Submitted
  <2>2. CASE pending' = <<>> /\ audioEnd' = 0 /\ released' = list
    <3>1. list \o <<>> = list
      BY <1>5, ConcatEmptySeq
    <3> HIDE DEF list
    <3> QED BY <1>5, <2>2, <3>1 DEF Submitted
  <2> QED BY <1>6, <2>1, <2>2
<1> HIDE DEF list
<1>8. InARow(Submitted', Frontier') /\ \A x : AnyCarries(Submitted', x) <=> AnyCarries(turns', x)
  BY <1>5, <1>7
<1>9. \A k \in 1..Len(turns') : Proper(turns'[k])
  BY <1>1, <1>2, AppendFacts DEF MicInv
<1> QED BY <1>1, <1>7, <1>8, <1>9 DEF MicInv, InARow, AnyCarries, Carries, Proper, InPlace

LEMMA MicStep == ASSUME MicInv, [MicNext]_micVars PROVE MicInv'
<1>1. CASE HearFrame
  <2>1. Advances /\ ended' \in BOOLEAN
    BY <1>1, DetectorStep DEF HearFrame, MicInv
  <2>2. CASE turns' # turns
    <3>1. Submit(Newest)
      BY <1>1, <2>2 DEF HearFrame
    <3> QED BY <2>1, <2>2, <3>1, OfferEffect DEF Submit
  <2>3. CASE turns' = turns
    <3>1. Release \/ UNCHANGED <<pending, audioEnd, released>>
      BY <1>1, <2>3 DEF HearFrame
    <3> QED BY <2>1, <2>3, <3>1, QuietEffect DEF Release
  <2> QED BY <2>2, <2>3
<1>2. CASE EndStream
  <2>1. Advances /\ ended' \in BOOLEAN
    <3>1. Flush \/ UNCHANGED detectorVars
      BY <1>2 DEF EndStream
    <3> QED BY <1>2, <3>1, DetectorStep DEF EndStream, MicInv
  <2>2. CASE turns' # turns
    BY <1>2, <2>1, <2>2, OfferEffect DEF EndStream
  <2>3. CASE turns' = turns
    <3>1. pending' = <<>> /\ audioEnd' = 0 /\ released' = released \o pending
      BY <1>2, <2>3 DEF EndStream
    <3> QED BY <2>1, <2>3, <3>1, QuietEffect
  <2> QED BY <2>2, <2>3
<1>3. CASE UNCHANGED micVars
  <2>1. Advances
    BY <1>3, DetectorStep DEF micVars, MicInv
  <2> QED BY <1>3, <2>1, QuietEffect DEF micVars, detectorVars, MicInv
<1> QED BY <1>1, <1>2, <1>3 DEF MicNext

LEMMA MicStart == MicInit => MicInv
<1> SUFFICES ASSUME MicInit PROVE MicInv
  OBVIOUS
<1>1. DetectorInv /\ Frontier = 0 /\ turns = <<>>
  BY DetectorStart DEF MicInit
<1>2. /\ released = <<>> /\ released \in Seq(Turn) /\ pending = <<>> /\ pending \in Seq(Turn)
      /\ Len(pending) = 0 /\ audioEnd = 0 /\ ended = FALSE /\ Submitted = <<>>
  BY DEF MicInit, Submitted
<1>3. InARow(<<>>, 0) /\ \A x : ~AnyCarries(<<>>, x)
  BY DEF InARow, AnyCarries
<1>4. InARow(Submitted, Frontier) /\ \A x : AnyCarries(Submitted, x) <=> AnyCarries(turns, x)
  BY <1>1, <1>2, <1>3
<1>5. /\ Len(pending) \in 0..1
      /\ audioEnd = IF pending = <<>> THEN 0 ELSE pending[1].end
  BY <1>2
<1>6. ended \in BOOLEAN
  BY <1>2, Zenon
<1>7. \A k \in 1..Len(turns) : Proper(turns[k])
  BY <1>1
<1> QED BY <1>1, <1>2, <1>4, <1>5, <1>6, <1>7 DEF MicInv

LEMMA MicInvHolds == MicSpec => []MicInv
BY MicStart, MicStep, PTL DEF MicSpec

-----------------------------------------------------------------------------
\* Every turn of the raw stream is submitted where it was spoken, through the
\* merges of the coalescer, and so is what the edge trim leaves of it.
THEOREM AudioIsInPlace == MicSpec => []AudioStaysInPlace
<1>1. ASSUME MicInv PROVE AudioStaysInPlace
  <2> SUFFICES ASSUME NEW k \in 1..Len(Submitted)
               PROVE  LET t == Submitted[k] IN
                      /\ InPlace(t)
                      /\ \A f, l \in 1..Len(t.audio) : f <= l =>
                           LET s == TrimTurnEdges(t, {f, l}) IN
                           /\ InPlace(s)
                           /\ s.start <= t.start + f - 1 /\ t.start + l <= s.end
                           /\ 100 * (Len(t.audio) - Len(s.audio)) <= TrimPercent * Len(t.audio)
    BY Zenon DEF AudioStaysInPlace
  <2> DEFINE t == Submitted[k]
  <2>1. t \in Turn /\ InPlace(t)
    <3>1. Submitted \in Seq(Turn) /\ InARow(Submitted, Frontier)
      BY <1>1, ConcatProperties DEF MicInv, Submitted
    <3>2. t \in Turn
      BY <3>1, ElementOfSeq
    <3> QED BY <3>1, <3>2 DEF InARow, Proper
  <2> HIDE DEF t
  <2>2. \A f, l \in 1..Len(t.audio) : f <= l =>
           LET s == TrimTurnEdges(t, {f, l}) IN
           /\ InPlace(s)
           /\ s.start <= t.start + f - 1 /\ t.start + l <= s.end
           /\ 100 * (Len(t.audio) - Len(s.audio)) <= TrimPercent * Len(t.audio)
    BY <2>1, TrimKeepsPlace, Zenon
  <2> QED BY <2>1, <2>2 DEF t
<1> QED BY <1>1, MicInvHolds, PTL

\* The coalescer submits turns in the order they were spoken, and never two
\* that overlap.
THEOREM TurnsAreInOrder == MicSpec => []SubmittedInOrder
<1>1. MicInv => SubmittedInOrder
  BY DEF MicInv, InARow, SubmittedInOrder
<1> QED BY <1>1, MicInvHolds, PTL

\* What the detector put into a turn is submitted once: neither a merge, nor the
\* deadline, nor the end of the stream loses or repeats a frame.
THEOREM SpeechGoesOutOnce == MicSpec => []SpeechIsSubmittedOnce
<1>1. ASSUME MicInv PROVE SpeechIsSubmittedOnce
  <2> DEFINE heardIn(ts) == {p \in (1..Len(ts)) \X (1..MaxFrames) :
                               /\ p[2] <= Len(ts[p[1]].audio)
                               /\ ts[p[1]].audio[p[2]].level # "silence"}
             atOf(ts) == {ts[p[1]].audio[p[2]] : p \in heardIn(ts)}
  <2>1. /\ turns \in Seq(Turn) /\ Submitted \in Seq(Turn) /\ InARow(Submitted, Frontier)
        /\ \A x : AnyCarries(Submitted, x) <=> AnyCarries(turns, x)
    BY <1>1, ConcatProperties DEF MicInv, DetectorInv, Submitted
  <2>2. ASSUME NEW ts \in Seq(Turn), \A k \in 1..Len(ts) : Len(ts[k].audio) <= MaxFrames, NEW x
        PROVE  x \in atOf(ts) <=> AnyCarries(ts, x)
    <3>1. ASSUME x \in atOf(ts) PROVE AnyCarries(ts, x)
      <4>1. PICK p \in heardIn(ts) : x = ts[p[1]].audio[p[2]]
        BY <3>1
      <4>2. p[1] \in 1..Len(ts) /\ p[2] \in 1..Len(ts[p[1]].audio)
        <5>1. ts[p[1]] \in Turn
          BY <4>1, ElementOfSeq
        <5> QED BY <4>1, <5>1, TurnFields
      <4> QED BY <4>1, <4>2 DEF AnyCarries, Carries
    <3>2. ASSUME AnyCarries(ts, x) PROVE x \in atOf(ts)
      <4>3. PICK k \in 1..Len(ts) : Carries(ts[k], x)
        BY <3>2 DEF AnyCarries
      <4>1. PICK i \in 1..Len(ts[k].audio) : ts[k].audio[i] = x /\ x.level # "silence"
        BY <4>3 DEF Carries
      <4>2. i \in 1..MaxFrames /\ i <= Len(ts[k].audio)
        <5>1. ts[k] \in Turn
          BY <4>1, ElementOfSeq
        <5> QED BY <2>2, <4>1, <5>1, TurnFields, Constants
      <4>4. <<k, i>> \in heardIn(ts)
        BY <4>1, <4>2
      <4> QED BY <4>1, <4>4
    <3> QED BY <3>1, <3>2
  <2>3. /\ \A k \in 1..Len(turns) : Len(turns[k].audio) <= MaxFrames
        /\ \A k \in 1..Len(Submitted) : Len(Submitted[k].audio) <= MaxFrames
    <3>1. ASSUME NEW t \in Turn, Proper(t) PROVE Len(t.audio) <= MaxFrames
      <4>1. /\ t.start \in Nat /\ Len(t.audio) \in Nat /\ t.end <= MaxFrames
            /\ t.end = t.start + Len(t.audio)
        BY <3>1, TurnFields DEF Proper, InPlace
      <4> QED BY <4>1, Constants
    <3>2. ASSUME NEW k \in 1..Len(turns) PROVE turns[k] \in Turn /\ Proper(turns[k])
      BY <1>1, <2>1, ElementOfSeq DEF MicInv
    <3>3. ASSUME NEW k \in 1..Len(Submitted) PROVE Submitted[k] \in Turn /\ Proper(Submitted[k])
      BY <2>1, ElementOfSeq DEF InARow
    <3> QED BY <3>1, <3>2, <3>3
  <2>4. atOf(Submitted) = atOf(turns)
    <3>1. \A x : x \in atOf(Submitted) <=> AnyCarries(Submitted, x)
      BY <2>1, <2>2, <2>3
    <3>2. \A x : x \in atOf(turns) <=> AnyCarries(turns, x)
      BY <2>1, <2>2, <2>3
    <3> HIDE DEF atOf
    <3>3. \A x : x \in atOf(Submitted) <=> x \in atOf(turns)
      BY <2>1, <3>1, <3>2
    <3> QED BY <3>3
  <2>5. ASSUME NEW p \in heardIn(Submitted), NEW q \in heardIn(Submitted),
               Submitted[p[1]].audio[p[2]] = Submitted[q[1]].audio[q[2]]
        PROVE  p = q
    <3>1. ASSUME NEW r \in heardIn(Submitted)
          PROVE  \E at \in Nat, to \in Nat :
                    /\ r[1] \in 1..Len(Submitted) /\ r[2] \in Nat \ {0} /\ r = <<r[1], r[2]>>
                    /\ Submitted[r[1]].start = at /\ Submitted[r[1]].end = to
                    /\ Submitted[r[1]].audio[r[2]].at = at + r[2] - 1 /\ at + r[2] <= to
      <4> DEFINE k == r[1]
                 i == r[2]
                 t == Submitted[k]
      <4>1. /\ k \in 1..Len(Submitted) /\ i \in 1..MaxFrames /\ r = <<k, i>>
            /\ i <= Len(t.audio) /\ t.audio[i].level # "silence"
        OBVIOUS
      <4>2. t \in Turn /\ Proper(t)
        BY <2>1, <4>1, ElementOfSeq DEF InARow
      <4> HIDE DEF k, i, t
      <4>3. /\ t.start \in Nat /\ t.end \in Nat /\ Len(t.audio) \in Nat
            /\ t.end = t.start + Len(t.audio)
        BY <4>2, TurnFields DEF Proper, InPlace
      <4>4. i \in 1..Len(t.audio) /\ i \in Nat \ {0}
        BY <4>1, <4>3, Constants
      <4>5. t.audio[i].at = t.start + i - 1
        BY <4>1, <4>2, <4>4 DEF Proper, InPlace
      <4>6. t.start + i <= t.end
        BY <4>1, <4>3, <4>4
      <4> QED BY <4>1, <4>3, <4>4, <4>5, <4>6 DEF k, i, t
    <3>2. PICK a1 \in Nat, b1 \in Nat :
            /\ p[1] \in 1..Len(Submitted) /\ p[2] \in Nat \ {0} /\ p = <<p[1], p[2]>>
            /\ Submitted[p[1]].start = a1 /\ Submitted[p[1]].end = b1
            /\ Submitted[p[1]].audio[p[2]].at = a1 + p[2] - 1 /\ a1 + p[2] <= b1
      BY <3>1
    <3>3. PICK a2 \in Nat, b2 \in Nat :
            /\ q[1] \in 1..Len(Submitted) /\ q[2] \in Nat \ {0} /\ q = <<q[1], q[2]>>
            /\ Submitted[q[1]].start = a2 /\ Submitted[q[1]].end = b2
            /\ Submitted[q[1]].audio[q[2]].at = a2 + q[2] - 1 /\ a2 + q[2] <= b2
      BY <3>1
    <3> HIDE DEF heardIn
    <3>4. a1 + p[2] - 1 = a2 + q[2] - 1
      BY <2>5, <3>2, <3>3
    <3>5. ~(p[1] < q[1])
      <4>1. p[1] < q[1] => b1 <= a2
        BY <2>1, <3>2, <3>3 DEF InARow
      <4> QED BY SMTT(30), <3>2, <3>3, <3>4, <4>1
    <3>6. ~(q[1] < p[1])
      <4>1. q[1] < p[1] => b2 <= a1
        BY <2>1, <3>2, <3>3 DEF InARow
      <4> QED BY SMTT(30), <3>2, <3>3, <3>4, <4>1
    <3>7. p[1] = q[1]
      BY <3>2, <3>3, <3>5, <3>6
    <3>8. p[2] = q[2]
      <4>1. a1 = a2
        BY <3>2, <3>3, <3>7
      <4>2. p[2] \in Nat /\ q[2] \in Nat
        BY <3>2, <3>3
      <4> QED BY <3>4, <4>1, <4>2
    <3> QED BY <3>2, <3>3, <3>7, <3>8
  <2> QED BY <2>4, <2>5 DEF SpeechIsSubmittedOnce
<1> QED BY <1>1, MicInvHolds, PTL

\* The types of the detector and of the coalescer, and their bounds: the ring
\* buffer never exceeds its length, an open turn never reaches its limit, and
\* at most one turn is held.
THEOREM MicTypeCorrect == MicSpec => []MicTypeOK
<1>1. ASSUME MicInv PROVE MicTypeOK
  <2>1. /\ DetectorTypeOK /\ released \in Seq(Turn) /\ pending \in Seq(Turn)
        /\ Len(pending) \in 0..1 /\ Submitted \in Seq(Turn) /\ InARow(Submitted, Frontier)
        /\ audioEnd = IF pending = <<>> THEN 0 ELSE pending[1].end
    BY <1>1, ConcatProperties DEF MicInv, DetectorInv, Submitted
  <2>2. \A k \in 1..Len(released) : released[k].end <= MaxFrames
    BY <2>1, ElementOfSeq, TurnFields
  <2>3. audioEnd \in 0..MaxFrames /\ (pending = <<>>) = (audioEnd = 0)
    <3>1. CASE pending = <<>>
      BY <2>1, <3>1, Constants
    <3>2. CASE pending # <<>>
      <4>1. 1 \in 1..Len(pending) /\ Len(pending) = 1
        BY <2>1, <3>2, EmptySeq
      <4>2. pending[1] \in Turn
        BY <2>1, <4>1, ElementOfSeq
      <4>3. Len(released) + 1 \in 1..Len(Submitted) /\ Submitted[Len(released) + 1] = pending[1]
        BY <2>1, <4>1, ConcatProperties DEF Submitted
      <4>4. Proper(pending[1])
        BY <2>1, <4>3 DEF InARow
      <4> DEFINE t == pending[1]
      <4>5. t.start \in Nat /\ t.end \in Nat /\ t.end <= MaxFrames /\ t.start < t.end
        BY <4>2, <4>4, TurnFields DEF Proper
      <4>6. audioEnd = t.end
        BY <2>1, <3>2
      <4> HIDE DEF t
      <4> QED BY <3>2, <4>5, <4>6, Constants
    <3> QED BY <3>1, <3>2
  <2>4. Len(pending) <= 1
    <3>1. PICK n \in 0..1 : Len(pending) = n
      BY <2>1
    <3>2. n <= 1
      OBVIOUS
    <3> QED BY <3>1, <3>2, Zenon
  <2>5. ended \in BOOLEAN
    BY <1>1, Zenon DEF MicInv
  <2> QED BY <2>1, <2>2, <2>3, <2>4, <2>5 DEF MicTypeOK
<1> QED BY <1>1, MicInvHolds, PTL
=============================================================================

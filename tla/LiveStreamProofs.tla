--------------------------- MODULE LiveStreamProofs ---------------------------
(***************************************************************************)
(* Proofs about LiveStream, for a queue of any size and a session of any   *)
(* length: nothing that was heard is forgotten, the shutdown closes over   *)
(* no undecided turn, and the session keeps the safety of LossyFifo.       *)
(***************************************************************************)
EXTENDS LiveStream, SequenceTheorems, TLAPS

-----------------------------------------------------------------------------
(* Sequences and their ranges. *)

LEMMA RangeIsIndexed ==
  ASSUME NEW S, NEW s \in Seq(S)
  PROVE  Range(s) = {s[i] : i \in 1..Len(s)}
BY LenProperties DEF Range

LEMMA RangeOfAppend ==
  ASSUME NEW S, NEW s \in Seq(S), NEW e \in S
  PROVE  /\ Append(s, e) \in Seq(S) /\ Len(Append(s, e)) = Len(s) + 1
         /\ \A i \in 1..Len(s) : Append(s, e)[i] = s[i]
         /\ Append(s, e)[Len(s) + 1] = e
         /\ Range(Append(s, e)) = Range(s) \cup {e}
<1>1. /\ Append(s, e) \in Seq(S) /\ Len(Append(s, e)) = Len(s) + 1
      /\ \A i \in 1..Len(s) : Append(s, e)[i] = s[i]
      /\ Append(s, e)[Len(s) + 1] = e
  OBVIOUS
<1>2. /\ Range(s) = {s[i] : i \in 1..Len(s)}
      /\ Range(Append(s, e)) = {Append(s, e)[i] : i \in 1..Len(s) + 1}
  <2> HIDE DEF Range
  <2> QED
    BY <1>1, RangeIsIndexed
<1>3. Len(s) \in Nat
  OBVIOUS
<1>4. \A x : x \in Range(Append(s, e)) => x \in Range(s) \cup {e}
  BY <1>1, <1>2, <1>3
<1>5. \A x : x \in Range(s) \cup {e} => x \in Range(Append(s, e))
  BY <1>1, <1>2, <1>3
<1> QED
  BY <1>1, <1>4, <1>5

LEMMA RangeOfTail ==
  ASSUME NEW S, NEW s \in Seq(S), s # <<>>
  PROVE  /\ Tail(s) \in Seq(S) /\ Len(Tail(s)) = Len(s) - 1
         /\ \A i \in 1..Len(Tail(s)) : Tail(s)[i] = s[i + 1]
         /\ Head(s) = s[1] /\ Head(s) \in S
         /\ Range(s) = Range(Tail(s)) \cup {Head(s)}
<1>1. /\ Tail(s) \in Seq(S) /\ Len(Tail(s)) = Len(s) - 1
      /\ \A i \in 1..Len(Tail(s)) : Tail(s)[i] = s[i + 1]
      /\ Head(s) = s[1] /\ Head(s) \in S
      /\ Len(s) \in Nat \ {0}
  BY HeadTailProperties, EmptySeq
<1>2. /\ Range(s) = {s[i] : i \in 1..Len(s)}
      /\ Range(Tail(s)) = {Tail(s)[i] : i \in 1..Len(s) - 1}
  BY <1>1, RangeIsIndexed
<1>3. ASSUME NEW x \in Range(s) PROVE x \in Range(Tail(s)) \cup {Head(s)}
  <2>1. PICK i \in 1..Len(s) : x = s[i]
    BY <1>2
  <2>2. CASE i = 1
    BY <1>1, <2>1, <2>2
  <2>3. CASE i # 1
    <3>1. i - 1 \in 1..Len(s) - 1 /\ i - 1 + 1 = i
      BY <1>1, <2>3
    <3>2. Tail(s)[i - 1] = s[i]
      BY <1>1, <3>1
    <3> QED
      BY <1>2, <2>1, <3>1, <3>2
  <2> QED
    BY <2>2, <2>3
<1>4. ASSUME NEW x \in Range(Tail(s)) \cup {Head(s)} PROVE x \in Range(s)
  BY <1>1, <1>2
<1> QED
  BY <1>1, <1>3, <1>4

LEMMA RangeOfPair ==
  /\ Range(<<>>) = {}
  /\ \A x : Range(<<x>>) = {x}
  /\ \A S : \A s, t \in Seq(S) : Range(s \o t) = Range(s) \cup Range(t)
<1>1. Range(<<>>) = {}
  BY DEF Range
<1>2. \A x : Range(<<x>>) = {x}
  BY DEF Range
<1>3. ASSUME NEW S, NEW s \in Seq(S), NEW t \in Seq(S)
      PROVE  Range(s \o t) = Range(s) \cup Range(t)
  <2>1. /\ s \o t \in Seq(S) /\ Len(s \o t) = Len(s) + Len(t)
        /\ Len(s) \in Nat /\ Len(t) \in Nat
        /\ \A i \in 1..Len(s) + Len(t) :
             (s \o t)[i] = IF i <= Len(s) THEN s[i] ELSE t[i - Len(s)]
    BY ConcatProperties, LenProperties
  <2>2. /\ Range(s) = {s[i] : i \in 1..Len(s)}
        /\ Range(t) = {t[i] : i \in 1..Len(t)}
        /\ Range(s \o t) = {(s \o t)[i] : i \in 1..Len(s) + Len(t)}
    BY <2>1, RangeIsIndexed
  <2>3. ASSUME NEW x \in Range(t) PROVE x \in Range(s \o t)
    <3>1. PICK i \in 1..Len(t) : x = t[i]
      BY <2>2
    <3>2. Len(s) + i \in 1..Len(s) + Len(t) /\ Len(s) + i - Len(s) = i
          /\ ~(Len(s) + i <= Len(s))
      BY <2>1
    <3>3. (s \o t)[Len(s) + i] = t[i]
      BY <2>1, <3>2
    <3> QED
      BY <2>2, <3>1, <3>2, <3>3
  <2>4. ASSUME NEW x \in Range(s) PROVE x \in Range(s \o t)
    BY <2>1, <2>2
  <2>5. ASSUME NEW x \in Range(s \o t) PROVE x \in Range(s) \cup Range(t)
    BY <2>1, <2>2
  <2> QED
    BY <2>3, <2>4, <2>5
<1> QED
  BY <1>1, <1>2, <1>3

-----------------------------------------------------------------------------
(* What the box of _submit says of a session whose client has been answered *)
(* the turns A and told of the lost turns R, and whose worker, busy with it *)
(* or not (1 or 0), last took turn w.                                       *)

TurnsIn(b) == Range(b.queue) \ {Stop}

(* Turns wait in the order they were submitted, and the stop after them. *)
QueueInOrder(b) ==
  \A i, j \in 1..Len(b.queue) : i < j =>
    b.queue[i] # Stop /\ (b.queue[j] = Stop \/ b.queue[i] < b.queue[j])

(* No turn disappears. *)
EachTurnIsSomewhere(b, A, w) ==
  /\ 1..Len(b.submitted) = (Range(b.queue) \cup A \cup b.lost \cup {w}) \ {Stop}
  /\ Stop \notin A \cup b.lost

(* No turn is in two places, and those that wait are the newest: what was   *)
(* refused is newer, but nothing is refused when the oldest is dropped.     *)
WaitingAreNewest(b, A, w) ==
  /\ b.lost \cap (A \cup {w}) = {}
  /\ \A n \in TurnsIn(b) : n \notin b.lost /\ \A m \in A \cup {w} : m < n
  /\ DropOnOverflow => \A n \in TurnsIn(b) : \A m \in b.lost : m < n

(* A turn that was dropped for a newer one has its notice, made or sent; no *)
(* other turn has one.                                                      *)
DropsAreNoticed(b, R) ==
  R \subseteq b.lost /\ (DropOnOverflow => b.lost \subseteq b.notices \cup R)

(* queue.join() cannot return over a turn that waits or is in work. *)
CountsUnfinished(b, busy) == b.unfinished >= Len(b.queue) + busy

BoxInv(b, A, R, w, busy) ==
  /\ QueueInOrder(b)
  /\ EachTurnIsSomewhere(b, A, w)
  /\ WaitingAreNewest(b, A, w)
  /\ DropsAreNoticed(b, R)
  /\ CountsUnfinished(b, busy)

(* Where the worker stands in the session. *)
WorkerInPhase ==
  /\ At("stopped") => phase \in {"stopping", "closed"}
  /\ phase = "failed" => At("cancelled")
  /\ At("cancelled") => phase \in {"closed", "failed"}
  /\ Stop \in Range(queue) => phase \in {"stopping", "closed"}
  /\ IF Busy THEN worker.turn \notin Answered \cup {Stop}
     ELSE At("cancelled") \/ worker.turn \in Answered \cup {Stop}

(* Until the receiver is done, what was heard was submitted, is held by the *)
(* coalescer or open in the detector.                                       *)
Said(ts) == UNION {t.said : t \in Range(ts)}
Opened == IF open = None THEN {} ELSE {open}
NothingIsForgotten ==
  /\ phase # "failed" => Utterances = Said(submitted) \cup Said(held) \cup Opened
  /\ phase \notin {"receiving", "failed"} => held = <<>>

(* A shutdown that was not cut short starts when nothing is pending. *)
ShutdownIsIdle ==
  /\ phase \in {"stopping", "closed"} /\ ~timedOut => Turns = Answered \cup lost
  /\ phase = "closed" => notices = {}

BusyCount == IF Busy THEN 1 ELSE 0

(* The inductive invariant *)
LiveInv ==
  /\ LiveTypeOK
  /\ BoxInv(Box, Answered, Reported, worker.turn, BusyCount)
  /\ WorkerInPhase
  /\ NothingIsForgotten
  /\ ShutdownIsIdle

-----------------------------------------------------------------------------
(* _submit.  Boxes of turns whose audio is in S, before the stop is queued. *)

BoxesOf(S) == [submitted : Seq(S), queue : Seq(Nat \ {Stop}), unfinished : Nat,
               lost : SUBSET Nat, notices : SUBSET Nat]

FitBox(b) ==
  /\ Len(b.queue) <= QueueSize
  /\ Range(b.queue) \subseteq 1..Len(b.submitted)
  /\ b.lost \subseteq 1..Len(b.submitted) /\ b.notices \subseteq b.lost

(* One more turn: it waits, for an older one if the queue is full, or is    *)
(* refused.                                                                 *)
TakesIn(b, c, audio) ==
  LET n == Len(b.submitted) + 1 IN
  /\ c.submitted = Append(b.submitted, audio)
  /\ \/ /\ Len(b.queue) < QueueSize
        /\ c.queue = Append(b.queue, n) /\ c.unfinished = b.unfinished + 1
        /\ c.lost = b.lost /\ c.notices = b.notices
     \/ /\ DropOnOverflow /\ b.queue # <<>>
        /\ c.queue = Append(Tail(b.queue), n) /\ c.unfinished = b.unfinished + 1
        /\ c.lost = b.lost \cup {Head(b.queue)}
        /\ c.notices = b.notices \cup {Head(b.queue)}
     \/ /\ ~DropOnOverflow
        /\ c.queue = b.queue /\ c.unfinished = b.unfinished
        /\ c.lost = b.lost \cup {n} /\ c.notices = b.notices

LEMMA PutTakesIn ==
  ASSUME NEW S, NEW b \in BoxesOf(S), FitBox(b), NEW audio \in S
  PROVE  TakesIn(b, Put(b, audio), audio) /\ Put(b, audio) \in BoxesOf(S)
<1> DEFINE n == Len(b.submitted) + 1
           counted == [b EXCEPT !.submitted = Append(@, audio)]
<1>1. /\ counted \in BoxesOf(S)
      /\ counted.submitted = Append(b.submitted, audio)
      /\ counted.queue = b.queue /\ counted.unfinished = b.unfinished
      /\ counted.lost = b.lost /\ counted.notices = b.notices
  <2>1. /\ b.submitted \in Seq(S) /\ Append(b.submitted, audio) \in Seq(S)
        /\ b.queue \in Seq(Nat \ {Stop})
    BY DEF BoxesOf
  <2>2. counted \in BoxesOf(S)
    BY <2>1 DEF BoxesOf
  <2> QED
    BY <2>2 DEF BoxesOf
<1>2. n \in Nat \ {Stop}
  BY DEF BoxesOf, Stop, None
<1>3. ASSUME NEW c \in BoxesOf(S)
      PROVE  /\ Enqueue(c, n) \in BoxesOf(S)
             /\ Enqueue(c, n).submitted = c.submitted
             /\ Enqueue(c, n).queue = Append(c.queue, n)
             /\ Enqueue(c, n).unfinished = c.unfinished + 1
             /\ Enqueue(c, n).lost = c.lost /\ Enqueue(c, n).notices = c.notices
  <2> HIDE DEF n
  <2>1. /\ c.queue \in Seq(Nat \ {Stop}) /\ c.unfinished \in Nat
        /\ Append(c.queue, n) \in Seq(Nat \ {Stop}) /\ c.unfinished + 1 \in Nat
    BY <1>2 DEF BoxesOf
  <2>2. Enqueue(c, n) \in BoxesOf(S)
    BY <2>1 DEF BoxesOf, Enqueue
  <2> QED
    BY <2>2 DEF BoxesOf, Enqueue
<1> HIDE DEF counted, n
<1>4. CASE Len(b.queue) < QueueSize
  <2>1. Put(b, audio) = Enqueue(counted, n)
    BY <1>4 DEF Put, counted, n
  <2> QED
    BY <1>1, <1>3, <1>4, <2>1 DEF TakesIn, n
<1>5. CASE ~(Len(b.queue) < QueueSize) /\ DropOnOverflow
  <2>1. b.queue # <<>> /\ b.queue \in Seq(Nat \ {Stop})
    BY <1>5, LiveAssumption DEF BoxesOf
  <2>2. Head(b.queue) \in Nat /\ Tail(b.queue) \in Seq(Nat \ {Stop})
    BY <2>1
  <2>3. /\ DropOldest(counted) \in BoxesOf(S)
        /\ DropOldest(counted).submitted = Append(b.submitted, audio)
        /\ DropOldest(counted).queue = Tail(b.queue)
        /\ DropOldest(counted).unfinished = b.unfinished
        /\ DropOldest(counted).lost = b.lost \cup {Head(b.queue)}
        /\ DropOldest(counted).notices = b.notices \cup {Head(b.queue)}
    BY <1>1, <2>2 DEF DropOldest, BoxesOf
  <2>4. Put(b, audio) = Enqueue(DropOldest(counted), n)
    BY <1>5 DEF Put, counted, n
  <2>5. /\ Put(b, audio) \in BoxesOf(S)
        /\ Put(b, audio).submitted = Append(b.submitted, audio)
        /\ Put(b, audio).queue = Append(Tail(b.queue), n)
        /\ Put(b, audio).unfinished = b.unfinished + 1
        /\ Put(b, audio).lost = b.lost \cup {Head(b.queue)}
        /\ Put(b, audio).notices = b.notices \cup {Head(b.queue)}
    BY <1>3, <2>3, <2>4
  <2> QED
    BY <1>5, <2>1, <2>5 DEF TakesIn, n
<1>6. CASE ~(Len(b.queue) < QueueSize) /\ ~DropOnOverflow
  <2>1. Put(b, audio) = [counted EXCEPT !.lost = @ \cup {n}]
    BY <1>6 DEF Put, counted, n
  <2>2. /\ Put(b, audio) \in BoxesOf(S)
        /\ Put(b, audio).submitted = counted.submitted
        /\ Put(b, audio).queue = counted.queue
        /\ Put(b, audio).unfinished = counted.unfinished
        /\ Put(b, audio).lost = counted.lost \cup {n}
        /\ Put(b, audio).notices = counted.notices
    <3>1. counted.lost \cup {n} \in SUBSET Nat
      BY <1>1, <1>2 DEF BoxesOf
    <3>2. Put(b, audio) \in BoxesOf(S)
      BY <1>1, <2>1, <3>1 DEF BoxesOf
    <3> QED
      BY <1>1, <2>1, <3>1, <3>2 DEF BoxesOf
  <2> QED
    BY <1>1, <1>6, <2>2 DEF TakesIn, n
<1> QED
  BY <1>4, <1>5, <1>6

(* The item that waits longest is not the stop while a turn waits behind it,*)
(* and older than that turn; what is behind it stays in order.              *)
LEMMA HeadIsOldest ==
  ASSUME NEW b, b.queue \in Seq(Nat), b.queue # <<>>, QueueInOrder(b)
  PROVE  LET h == Head(b.queue)
             t == Tail(b.queue)
         IN  /\ \A n \in Range(t) : h # Stop /\ (n = Stop \/ h < n)
             /\ \A i, j \in 1..Len(t) :
                  i < j => t[i] # Stop /\ (t[j] = Stop \/ t[i] < t[j])
             /\ h \in Nat /\ t \in Seq(Nat) /\ Len(t) = Len(b.queue) - 1
             /\ Range(b.queue) = Range(t) \cup {h}
<1> DEFINE q == b.queue
           h == Head(q)
           t == Tail(q)
<1>1. q \in Seq(Nat) /\ q # <<>>
  OBVIOUS
<1> HIDE DEF q
<1>2. /\ t \in Seq(Nat) /\ Len(t) = Len(q) - 1
      /\ \A i \in 1..Len(t) : t[i] = q[i + 1]
      /\ h = q[1] /\ h \in Nat
      /\ Range(q) = Range(t) \cup {h}
  BY <1>1, RangeOfTail
<1>3. /\ Len(q) \in Nat /\ Range(t) = {t[i] : i \in 1..Len(t)}
      /\ \A i, j \in 1..Len(q) : i < j => q[i] # Stop /\ (q[j] = Stop \/ q[i] < q[j])
  <2>1. Range(t) = {t[i] : i \in 1..Len(t)}
    BY <1>2, RangeIsIndexed
  <2>2. \A i, j \in 1..Len(q) : i < j => q[i] # Stop /\ (q[j] = Stop \/ q[i] < q[j])
    BY DEF QueueInOrder, q
  <2> QED
    BY <1>1, <2>1, <2>2
<1> HIDE DEF h, t
<1>4. ASSUME NEW n \in Range(t) PROVE h # Stop /\ (n = Stop \/ h < n)
  <2>1. PICK i \in 1..Len(t) : n = t[i]
    BY <1>3
  <2>2. n = q[i + 1] /\ i + 1 \in 1..Len(q) /\ 1 \in 1..Len(q) /\ 1 < i + 1
    BY <1>2, <1>3, <2>1
  <2> QED
    BY <1>2, <1>3, <2>2
<1>5. ASSUME NEW i \in 1..Len(t), NEW j \in 1..Len(t), i < j
      PROVE  t[i] # Stop /\ (t[j] = Stop \/ t[i] < t[j])
  <2>1. i + 1 \in 1..Len(q) /\ j + 1 \in 1..Len(q) /\ i + 1 < j + 1
    BY <1>2, <1>3, <1>5
  <2> QED
    BY <1>2, <1>3, <2>1
<1> QED
  BY <1>2, <1>4, <1>5 DEF q, h, t

(* A newer turn at the end keeps the queue in order. *)
LEMMA AppendKeepsOrder ==
  ASSUME NEW q \in Seq(Nat \ {Stop}), NEW n \in Nat \ {Stop},
         \A i, j \in 1..Len(q) : i < j => q[i] < q[j],
         \A m \in Range(q) : m < n
  PROVE  \A i, j \in 1..Len(q) + 1 : i < j => Append(q, n)[i] < Append(q, n)[j]
<1>1. /\ Len(q) \in Nat
      /\ \A i \in 1..Len(q) : Append(q, n)[i] = q[i] /\ q[i] \in Range(q)
      /\ Append(q, n)[Len(q) + 1] = n
  BY RangeIsIndexed
<1> QED
  BY <1>1

LEMMA TakingInKeepsBox ==
  ASSUME NEW S, NEW b \in BoxesOf(S), NEW c \in BoxesOf(S), NEW audio \in S,
         FitBox(b), TakesIn(b, c, audio),
         NEW A \in SUBSET Nat, NEW R, NEW w \in 0..Len(b.submitted),
         NEW busy \in Nat, BoxInv(b, A, R, w, busy)
  PROVE  /\ FitBox(c) /\ BoxInv(c, A, R, w, busy)
         /\ Range(c.submitted) = Range(b.submitted) \cup {audio}
         /\ Len(c.submitted) = Len(b.submitted) + 1
         /\ b.lost \subseteq c.lost
         /\ DropOnOverflow => Len(c.submitted) \in Range(c.queue)
<1> DEFINE N == Len(b.submitted)
           n == N + 1
<1>1. /\ N \in Nat /\ n \in Nat \ {Stop} /\ 1..n = 1..N \cup {n} /\ n \notin 1..N
      /\ \A m \in 1..N : m < n
      /\ w < n /\ w \in Nat /\ (w = Stop \/ w \in 1..N) /\ Stop \notin 1..N
  BY DEF BoxesOf, Stop, None
<1>2. Len(c.submitted) = n /\ Range(c.submitted) = Range(b.submitted) \cup {audio}
  <2>1. b.submitted \in Seq(S) /\ c.submitted = Append(b.submitted, audio)
    BY DEF BoxesOf, TakesIn
  <2> QED
    BY <2>1, RangeOfAppend
<1>3. /\ b.queue \in Seq(Nat \ {Stop}) /\ b.unfinished \in Nat
      /\ Len(b.queue) \in Nat
  BY DEF BoxesOf
<1>4. /\ Range(b.queue) \subseteq 1..N /\ b.lost \subseteq 1..N
      /\ A \subseteq 1..N /\ b.notices \subseteq b.lost
      /\ b.lost \cap (A \cup {w}) = {} /\ w \notin b.lost
      /\ 1..N = (Range(b.queue) \cup A \cup b.lost \cup {w}) \ {Stop}
      /\ Stop \notin A /\ Stop \notin b.lost /\ Stop \notin Range(b.queue)
      /\ \A m \in Range(b.queue) : m \notin b.lost /\ \A a \in A \cup {w} : a < m
      /\ DropOnOverflow => \A m \in Range(b.queue) : \A a \in b.lost : a < m
      /\ R \subseteq b.lost
      /\ DropOnOverflow => b.lost \subseteq b.notices \cup R
      /\ b.unfinished >= Len(b.queue) + busy
  BY <1>1 DEF FitBox, BoxInv, EachTurnIsSomewhere, WaitingAreNewest, TurnsIn,
     DropsAreNoticed, CountsUnfinished
<1>5. \A i, j \in 1..Len(b.queue) : i < j => b.queue[i] < b.queue[j]
  <2>1. \A i \in 1..Len(b.queue) : b.queue[i] # Stop
    BY <1>3
  <2> QED
    BY <2>1 DEF BoxInv, QueueInOrder
(* The invariant as it reads once the new box is known by its ranges *)
<1>6. ASSUME /\ Range(c.queue) \subseteq 1..n /\ c.lost \subseteq 1..n
             /\ 1..n = (Range(c.queue) \cup A \cup c.lost \cup {w}) \ {Stop}
             /\ c.lost \cap (A \cup {w}) = {}
             /\ \A m \in Range(c.queue) : m \notin c.lost
             /\ \A m \in Range(c.queue) : \A a \in A \cup {w} : a < m
             /\ DropOnOverflow => \A m \in Range(c.queue) : \A a \in c.lost : a < m
             /\ R \subseteq c.lost
             /\ DropOnOverflow => c.lost \subseteq c.notices \cup R
             /\ c.notices \subseteq c.lost
             /\ \A i, j \in 1..Len(c.queue) : i < j => c.queue[i] < c.queue[j]
             /\ Len(c.queue) <= QueueSize
             /\ c.unfinished >= Len(c.queue) + busy
      PROVE  FitBox(c) /\ BoxInv(c, A, R, w, busy)
  <2>1. FitBox(c)
    BY <1>2, <1>6 DEF FitBox
  <2>2. QueueInOrder(c)
    <3>1. \A i \in 1..Len(c.queue) : c.queue[i] # Stop
      BY DEF BoxesOf
    <3> QED
      BY <1>6, <3>1 DEF QueueInOrder
  <2>3. EachTurnIsSomewhere(c, A, w)
    <3>1. Stop \notin c.lost /\ Stop \notin A
      BY <1>1, <1>4, <1>6 DEF Stop, None
    <3> QED
      BY <1>2, <1>6, <3>1 DEF EachTurnIsSomewhere
  <2>4. WaitingAreNewest(c, A, w)
    BY <1>6 DEF WaitingAreNewest, TurnsIn
  <2> QED
    BY <1>6, <2>1, <2>2, <2>3, <2>4 DEF BoxInv, DropsAreNoticed, CountsUnfinished
<1> HIDE DEF N, n
<1>7. CASE /\ Len(b.queue) < QueueSize
           /\ c.queue = Append(b.queue, n) /\ c.unfinished = b.unfinished + 1
           /\ c.lost = b.lost /\ c.notices = b.notices
  <2>1. Range(c.queue) = Range(b.queue) \cup {n} /\ Len(c.queue) = Len(b.queue) + 1
    BY SMTT(30), <1>1, <1>3, <1>7, RangeOfAppend
  <2>2. \A m \in Range(b.queue) : m < n
    BY <1>1, <1>4
  <2>3. \A i, j \in 1..Len(c.queue) : i < j => c.queue[i] < c.queue[j]
    BY <1>1, <1>3, <1>5, <1>7, <2>1, <2>2, AppendKeepsOrder
  <2>4. Len(c.queue) <= QueueSize /\ c.unfinished >= Len(c.queue) + busy
    BY <1>3, <1>4, <1>7, <2>1, LiveAssumption
  <2>5. /\ Range(c.queue) \subseteq 1..n /\ c.lost \subseteq 1..n
        /\ 1..n = (Range(c.queue) \cup A \cup c.lost \cup {w}) \ {Stop}
        /\ c.lost \cap (A \cup {w}) = {}
        /\ \A m \in Range(c.queue) : m \notin c.lost
    BY <1>1, <1>4, <1>7, <2>1
  <2>6. \A m \in Range(c.queue) : \A a \in A \cup {w} : a < m
    BY <1>1, <1>4, <2>1
  <2>7. DropOnOverflow => \A m \in Range(c.queue) : \A a \in c.lost : a < m
    BY <1>1, <1>4, <1>7, <2>1
  <2>8. FitBox(c) /\ BoxInv(c, A, R, w, busy)
    BY <1>4, <1>6, <1>7, <2>3, <2>4, <2>5, <2>6, <2>7
  <2> QED
    BY <1>2, <1>7, <2>1, <2>8 DEF n, N
<1>8. CASE /\ DropOnOverflow /\ b.queue # <<>>
           /\ c.queue = Append(Tail(b.queue), n) /\ c.unfinished = b.unfinished + 1
           /\ c.lost = b.lost \cup {Head(b.queue)}
           /\ c.notices = b.notices \cup {Head(b.queue)}
  <2> DEFINE t == Tail(b.queue)
             h == Head(b.queue)
  <2>1. /\ t \in Seq(Nat \ {Stop}) /\ Len(t) = Len(b.queue) - 1 /\ Len(t) \in Nat
        /\ \A i \in 1..Len(t) : t[i] = b.queue[i + 1]
        /\ Range(b.queue) = Range(t) \cup {h}
    <3>1. b.queue \in Seq(Nat \ {Stop}) /\ b.queue # <<>>
      BY <1>3, <1>8
    <3> QED
      BY <3>1, RangeOfTail
  <2>2. h \in Nat /\ \A m \in Range(t) : h < m
    <3>1. b.queue \in Seq(Nat) /\ b.queue # <<>> /\ QueueInOrder(b)
      BY <1>3, <1>8, SeqMonotonic DEF BoxInv
    <3>2. h \in Nat /\ \A m \in Range(t) : m = Stop \/ h < m
      BY <3>1, HeadIsOldest
    <3> QED
      BY <1>4, <2>1, <3>2
  <2> HIDE DEF t, h
  <2>3. Range(c.queue) = Range(t) \cup {n} /\ Len(c.queue) = Len(t) + 1
    <3>1. c.queue = Append(t, n)
      BY <1>8 DEF t
    <3>2. n \in Nat \ {Stop} /\ t \in Seq(Nat \ {Stop})
      BY <1>1, <2>1
    <3> QED
      BY <3>1, <3>2, RangeOfAppend
  <2>4. /\ \A m \in Range(t) : m < n /\ m \in 1..N /\ m \notin b.lost
        /\ h \in 1..N /\ h \notin b.lost /\ \A a \in A \cup {w} : a < h
        /\ \A a \in b.lost : a < h
    BY <1>1, <1>4, <1>8, <2>1
  <2>5. \A i, j \in 1..Len(t) : i < j => t[i] < t[j]
    <3> SUFFICES ASSUME NEW i \in 1..Len(t), NEW j \in 1..Len(t), i < j
                 PROVE  t[i] < t[j]
      OBVIOUS
    <3>1. i + 1 \in 1..Len(b.queue) /\ j + 1 \in 1..Len(b.queue) /\ i + 1 < j + 1
      BY <1>3, <2>1
    <3> QED
      BY <1>5, <2>1, <3>1
  <2>6. \A i, j \in 1..Len(c.queue) : i < j => c.queue[i] < c.queue[j]
    BY <1>1, <1>8, <2>1, <2>3, <2>4, <2>5, AppendKeepsOrder DEF t
  <2>7. Len(c.queue) <= QueueSize /\ c.unfinished >= Len(c.queue) + busy
    BY <1>3, <1>4, <1>8, <2>1, <2>3, LiveAssumption DEF FitBox
  <2>8. c.lost = b.lost \cup {h} /\ c.notices = b.notices \cup {h}
    BY <1>8 DEF h
  <2>9. h \notin A \cup {w} /\ h \notin Range(t)
    <3>1. h \notin A \cup {w}
      BY <2>2, <2>4
    <3> QED
      BY <2>2, <3>1
  <2>10. /\ Range(c.queue) \subseteq 1..n /\ c.lost \subseteq 1..n
         /\ 1..n = (Range(c.queue) \cup A \cup c.lost \cup {w}) \ {Stop}
         /\ c.lost \cap (A \cup {w}) = {}
    BY <1>1, <1>4, <2>1, <2>3, <2>4, <2>8, <2>9
  <2>11. \A m \in Range(c.queue) : m \notin c.lost
    BY <1>1, <1>4, <2>3, <2>4, <2>8, <2>9
  <2>12. \A m \in Range(c.queue) : \A a \in A \cup {w} : a < m
    BY SMTT(30), <1>1, <1>4, <2>1, <2>3
  <2>13. \A m \in Range(c.queue) : \A a \in c.lost : a < m
    <3> SUFFICES ASSUME NEW m \in Range(c.queue), NEW a \in c.lost
                 PROVE  a < m
      OBVIOUS
    <3>1. m \in Range(t) \/ m = n
      BY <2>3
    <3>2. m \in Nat /\ h < m
      <4>1. CASE m \in Range(t)
        BY <2>2, <2>4, <4>1
      <4>2. CASE m = n
        BY <1>1, <2>4, <4>2
      <4> QED
        BY <3>1, <4>1, <4>2
    <3>3. a = h \/ (a \in b.lost /\ a < h)
      BY <2>4, <2>8
    <3>4. a \in Nat
      BY <1>4, <2>2, <3>3
    <3> QED
      BY <2>2, <3>2, <3>3, <3>4
  <2>14. /\ c.lost \subseteq c.notices \cup R /\ c.notices \subseteq c.lost
         /\ R \subseteq c.lost
    BY <1>4, <1>8, <2>8
  <2>15. FitBox(c) /\ BoxInv(c, A, R, w, busy)
    BY <1>6, <2>6, <2>7, <2>10, <2>11, <2>12, <2>13, <2>14
  <2> QED
    BY <1>2, <2>3, <2>8, <2>15 DEF n, N
<1>9. CASE /\ ~DropOnOverflow
           /\ c.queue = b.queue /\ c.unfinished = b.unfinished
           /\ c.lost = b.lost \cup {n} /\ c.notices = b.notices
  <2>1. /\ Range(c.queue) \subseteq 1..n /\ c.lost \subseteq 1..n
        /\ 1..n = (Range(c.queue) \cup A \cup c.lost \cup {w}) \ {Stop}
        /\ c.notices \subseteq c.lost
    BY <1>1, <1>4, <1>9
  <2>2. n \notin A \cup {w}
    BY <1>1, <1>4
  <2>3. c.lost \cap (A \cup {w}) = {}
    BY <1>4, <1>9, <2>2
  <2>4. /\ \A m \in Range(c.queue) : m \notin c.lost
        /\ \A m \in Range(c.queue) : \A a \in A \cup {w} : a < m
    BY <1>1, <1>4, <1>9
  <2>5. Len(c.queue) <= QueueSize
    BY <1>9 DEF FitBox
  <2>6. FitBox(c) /\ BoxInv(c, A, R, w, busy)
    BY <1>4, <1>5, <1>6, <1>9, <2>1, <2>3, <2>4, <2>5
  <2> QED
    BY <1>2, <1>9, <2>6 DEF n, N
<1> QED
  BY <1>7, <1>8, <1>9 DEF TakesIn, n, N

LEMMA SubmittingKeepsBox ==
  ASSUME NEW S, NEW b \in BoxesOf(S), FitBox(b),
         NEW ready \in Seq(S), Len(ready) \in 0..2,
         NEW A \in SUBSET Nat, NEW R, NEW w \in 0..Len(b.submitted),
         NEW busy \in Nat, BoxInv(b, A, R, w, busy)
  PROVE  LET c == PutBoth(b, ready) IN
         /\ c \in BoxesOf(S) /\ FitBox(c) /\ BoxInv(c, A, R, w, busy)
         /\ Range(c.submitted) = Range(b.submitted) \cup Range(ready)
         /\ Len(c.submitted) = Len(b.submitted) + Len(ready)
         /\ b.lost \subseteq c.lost
         /\ DropOnOverflow /\ ready # <<>> => Len(c.submitted) \in Range(c.queue)
         /\ ready = <<>> => c = b
<1> DEFINE Kept(c) == /\ c \in BoxesOf(S) /\ FitBox(c) /\ BoxInv(c, A, R, w, busy)
                      /\ b.lost \subseteq c.lost
<1>1. Len(b.submitted) \in Nat
  BY DEF BoxesOf
<1>2. ASSUME NEW d, Kept(d), NEW audio \in S, Len(b.submitted) <= Len(d.submitted)
      PROVE  /\ Kept(Put(d, audio))
             /\ Range(Put(d, audio).submitted) = Range(d.submitted) \cup {audio}
             /\ Len(Put(d, audio).submitted) = Len(d.submitted) + 1
             /\ DropOnOverflow =>
                  Len(Put(d, audio).submitted) \in Range(Put(d, audio).queue)
  <2> DEFINE c == Put(d, audio)
  <2>1. TakesIn(d, c, audio) /\ c \in BoxesOf(S)
    BY <1>2, PutTakesIn
  <2>2. w \in 0..Len(d.submitted)
    BY <1>1, <1>2 DEF BoxesOf
  <2> HIDE DEF c
  <2>3. /\ FitBox(c) /\ BoxInv(c, A, R, w, busy)
        /\ Range(c.submitted) = Range(d.submitted) \cup {audio}
        /\ Len(c.submitted) = Len(d.submitted) + 1
        /\ d.lost \subseteq c.lost
        /\ DropOnOverflow => Len(c.submitted) \in Range(c.queue)
    BY <1>2, <2>1, <2>2, TakingInKeepsBox
  <2> QED
    BY <1>2, <2>1, <2>3 DEF c
<1> HIDE DEF Kept
<1>3. Kept(b)
  BY DEF Kept
<1>4. CASE ready = <<>>
  <2>1. Range(ready) = {} /\ Len(ready) = 0 /\ PutBoth(b, ready) = b
    BY <1>4, RangeOfPair DEF PutBoth
  <2> QED
    BY <1>1, <1>3, <1>4, <2>1 DEF Kept
<1>5. Len(b.submitted) <= Len(b.submitted)
  BY <1>1
<1>6. CASE Len(ready) = 1
  <2>1. ready[1] \in S /\ ready # <<>> /\ Range(ready) = {ready[1]}
    <3>1. ready[1] \in S /\ ready # <<>>
      BY <1>6
    <3>2. 1..Len(ready) = {1}
      BY <1>6
    <3>3. Range(ready) = {ready[i] : i \in 1..Len(ready)}
      BY RangeIsIndexed
    <3> QED
      BY <3>1, <3>2, <3>3
  <2> DEFINE c == Put(b, ready[1])
  <2>2. PutBoth(b, ready) = c
    BY <1>6, <2>1 DEF PutBoth
  <2>3. /\ Kept(c) /\ Range(c.submitted) = Range(b.submitted) \cup {ready[1]}
        /\ Len(c.submitted) = Len(b.submitted) + 1
        /\ DropOnOverflow => Len(c.submitted) \in Range(c.queue)
    BY <1>2, <1>3, <1>5, <2>1
  <2> HIDE DEF c
  <2> QED
    BY <1>6, <2>1, <2>2, <2>3 DEF Kept
<1>7. CASE Len(ready) = 2
  <2>1. /\ ready[1] \in S /\ ready[2] \in S /\ ready # <<>>
        /\ Range(ready) = {ready[1], ready[2]}
    <3>1. ready[1] \in S /\ ready[2] \in S
      <4>1. 1 \in 1..Len(ready) /\ 2 \in 1..Len(ready)
        BY <1>7
      <4> QED
        BY <4>1, <1>7, ElementOfSeq
    <3>2. 1..Len(ready) = {1, 2}
      BY <1>7
    <3>3. Range(ready) = {ready[i] : i \in 1..Len(ready)}
      BY RangeIsIndexed
    <3>4. ready # <<>>
      <4>1. Len(ready) # 0 /\ Len(<<>>) = 0
        BY <1>7
      <4> QED
        BY <4>1, Zenon
    <3> QED
      BY <3>1, <3>2, <3>3, <3>4
  <2> DEFINE d == Put(b, ready[1])
             c == Put(d, ready[2])
  <2>2. PutBoth(b, ready) = c
    BY <1>7, <2>1 DEF PutBoth
  <2>3. /\ Kept(d) /\ Range(d.submitted) = Range(b.submitted) \cup {ready[1]}
        /\ Len(d.submitted) = Len(b.submitted) + 1
    BY <1>2, <1>3, <1>5, <2>1
  <2> HIDE DEF d
  <2>4. Len(b.submitted) <= Len(d.submitted)
    BY <1>1, <2>3
  <2>5. /\ Kept(c) /\ Range(c.submitted) = Range(d.submitted) \cup {ready[2]}
        /\ Len(c.submitted) = Len(d.submitted) + 1
        /\ DropOnOverflow => Len(c.submitted) \in Range(c.queue)
    BY <1>2, <2>1, <2>3, <2>4
  <2> HIDE DEF c
  <2>6. Len(c.submitted) = Len(b.submitted) + 2
    BY <1>1, <2>3, <2>5
  <2>7. Range(c.submitted) = Range(b.submitted) \cup Range(ready)
    BY <2>1, <2>3, <2>5
  <2>8. b.lost \subseteq c.lost
    BY <2>5 DEF Kept
  <2>9. c \in BoxesOf(S) /\ FitBox(c) /\ BoxInv(c, A, R, w, busy)
    BY <2>5 DEF Kept
  <2>10. /\ Len(c.submitted) = Len(b.submitted) + Len(ready)
         /\ DropOnOverflow /\ ready # <<>> => Len(c.submitted) \in Range(c.queue)
         /\ ready = <<>> => c = b
    BY <1>7, <2>1, <2>5, <2>6
  <2> QED
    BY <2>2, <2>7, <2>8, <2>9, <2>10
<1> QED
  <2>1. Len(ready) = 0 => ready = <<>>
    BY EmptySeq
  <2>2. ready = <<>> \/ Len(ready) = 1 \/ Len(ready) = 2
    BY <2>1
  <2> QED
    BY <1>4, <1>6, <1>7, <2>2

-----------------------------------------------------------------------------
(* The receiver. *)

Spoken(h) == [path : {"raw", "frame"}, said : SUBSET (1..h)]
Raw(h) == [path : {"raw"}, said : SUBSET (1..h)]

LEMMA SaidOfConcat ==
  /\ Said(<<>>) = {} /\ \A t : Said(<<t>>) = t.said
  /\ \A S : \A s, t \in Seq(S) : Said(s \o t) = Said(s) \cup Said(t)
<1>1. Said(<<>>) = {} /\ \A t : Said(<<t>>) = t.said
  BY RangeOfPair DEF Said
<1>2. ASSUME NEW S, NEW s \in Seq(S), NEW t \in Seq(S)
      PROVE  Said(s \o t) = Said(s) \cup Said(t)
  <2>1. Range(s \o t) = Range(s) \cup Range(t)
    BY RangeOfPair
  <2> QED
    BY <2>1 DEF Said
<1> QED
  BY <1>1, <1>2

(* What the worker and the client know while turns are taken in *)
LEMMA AnsweredAreTurns ==
  ASSUME LiveInv
  PROVE  /\ Answered \in SUBSET Nat /\ Answered \subseteq Turns
         /\ worker.turn \in 0..Len(submitted) /\ BusyCount \in Nat
         /\ Len(submitted) \in Nat
<1>1. Len(submitted) \in Nat
  BY DEF LiveInv, LiveTypeOK
<1>2. worker.turn \in 0..Len(submitted)
  BY <1>1 DEF LiveInv, LiveTypeOK, Turns, Stop, None
<1>3. Answered \subseteq Turns
  BY DEF LiveInv, BoxInv, EachTurnIsSomewhere, Turns, Box
<1> QED
  BY <1>1, <1>2, <1>3 DEF BusyCount, Turns

LEMMA ReceivingBox ==
  ASSUME LiveInv, phase = "receiving", NEW h \in Nat, heard <= h
  PROVE  Box \in BoxesOf(Spoken(h)) /\ FitBox(Box)
<1>1. /\ submitted \in Seq(Spoken(heard)) /\ queue \in Seq(Turns \cup {Stop})
      /\ Len(queue) <= QueueSize /\ unfinished \in Nat
      /\ lost \subseteq Turns /\ notices \subseteq lost
      /\ heard \in Nat /\ Len(submitted) \in Nat
      /\ Stop \notin Range(queue)
  BY DEF LiveInv, LiveTypeOK, WorkerInPhase, Spoken
<1>2. submitted \in Seq(Spoken(h))
  <2>1. 1..heard \subseteq 1..h
    BY <1>1
  <2>2. Spoken(heard) \subseteq Spoken(h)
    BY <2>1 DEF Spoken
  <2> QED
    BY <1>1, <2>2, SeqMonotonic
<1>3. Range(queue) = {queue[i] : i \in 1..Len(queue)}
  BY <1>1, RangeIsIndexed
<1>4. \A i \in 1..Len(queue) : queue[i] \in Turns \cup {Stop} /\ queue[i] \in Range(queue)
  BY <1>1, <1>3
<1>5. Range(queue) \subseteq Turns
  BY <1>1, <1>3, <1>4
<1>6. queue \in Seq(Nat \ {Stop})
  <2>1. \A i \in 1..Len(queue) : queue[i] \in Nat \ {Stop}
    BY <1>4, <1>5 DEF Turns, Stop, None
  <2>2. queue \in [1..Len(queue) -> Nat \ {Stop}] /\ Len(queue) \in Nat
    BY <1>1, <2>1, LenProperties
  <2> QED
    BY <2>2, SeqDef
<1>7. lost \in SUBSET Nat /\ notices \in SUBSET Nat
  BY <1>1 DEF Turns
<1> QED
  BY <1>1, <1>2, <1>5, <1>6, <1>7 DEF BoxesOf, FitBox, Box, Turns

(* What taking in the ready turns does to a session. *)
TookIn(ready) ==
  /\ Len(submitted') = Len(submitted) + Len(ready)
  /\ lost \subseteq lost' /\ Answered' = Answered
  /\ DropOnOverflow /\ ready # <<>> => Len(submitted') \in Range(queue')
  /\ ready = <<>> => lost' = lost

LEMMA SubmitKeepsBox ==
  ASSUME LiveInv, phase = "receiving", NEW h \in Nat, heard <= h,
         NEW ready \in Seq(Spoken(h)), Len(ready) \in 0..2,
         Submit(ready), UNCHANGED <<worker, outbox>>
  PROVE  /\ submitted' \in Seq(Spoken(h)) /\ queue' \in Seq(Turns')
         /\ Len(queue') <= QueueSize /\ unfinished' \in Nat
         /\ lost' \subseteq Turns' /\ notices' \subseteq lost'
         /\ Stop \notin Range(queue')
         /\ BoxInv(Box, Answered, Reported, worker.turn, BusyCount)'
         /\ Said(submitted') = Said(submitted) \cup Said(ready)
         /\ Turns \subseteq Turns'
         /\ TookIn(ready)
<1> DEFINE c == PutBoth(Box, ready)
<1>1. Box \in BoxesOf(Spoken(h)) /\ FitBox(Box)
  BY ReceivingBox
<1>2. /\ Answered \in SUBSET Nat /\ worker.turn \in 0..Len(submitted)
      /\ BusyCount \in Nat /\ Len(submitted) \in Nat
  BY AnsweredAreTurns
<1>3. /\ BoxInv(Box, Answered, Reported, worker.turn, BusyCount)
      /\ Box.submitted = submitted /\ Box.lost = lost
  BY DEF LiveInv, Box
<1>4. /\ c \in BoxesOf(Spoken(h)) /\ FitBox(c)
      /\ BoxInv(c, Answered, Reported, worker.turn, BusyCount)
      /\ Range(c.submitted) = Range(submitted) \cup Range(ready)
      /\ Len(c.submitted) = Len(submitted) + Len(ready)
      /\ lost \subseteq c.lost
      /\ DropOnOverflow /\ ready # <<>> => Len(c.submitted) \in Range(c.queue)
      /\ ready = <<>> => c = Box
  BY <1>1, <1>2, <1>3, SubmittingKeepsBox
<1>5. /\ submitted' = c.submitted /\ queue' = c.queue /\ unfinished' = c.unfinished
      /\ lost' = c.lost /\ notices' = c.notices
  BY DEF Submit
<1> HIDE DEF c
<1>6. BoxInv(Box, Answered, Reported, worker.turn, BusyCount)'
  <2>1. /\ Answered' = Answered /\ Reported' = Reported
        /\ worker.turn' = worker.turn /\ BusyCount' = BusyCount
    BY DEF Answered, Reported, Told, BusyCount, Busy
  <2>2. /\ Box'.submitted = c.submitted /\ Box'.queue = c.queue
        /\ Box'.unfinished = c.unfinished /\ Box'.lost = c.lost
        /\ Box'.notices = c.notices
    BY <1>5 DEF Box
  <2>3. BoxInv(Box', Answered, Reported, worker.turn, BusyCount)
    BY <1>4, <2>2 DEF BoxInv, QueueInOrder, EachTurnIsSomewhere, WaitingAreNewest,
       TurnsIn, DropsAreNoticed, CountsUnfinished
  <2> QED
    BY <2>1, <2>3
<1>7. /\ submitted' \in Seq(Spoken(h)) /\ queue' \in Seq(Nat \ {Stop})
      /\ unfinished' \in Nat
  BY <1>4, <1>5 DEF BoxesOf
<1>8. Range(queue') \subseteq Turns' /\ lost' \subseteq Turns' /\ notices' \subseteq lost'
      /\ Len(queue') <= QueueSize
  BY <1>4, <1>5 DEF FitBox, Turns
<1>9. Stop \notin Range(queue') /\ queue' \in Seq(Turns')
  <2>1. Range(queue') = {queue'[i] : i \in 1..Len(queue')}
    BY <1>7, RangeIsIndexed
  <2>2. \A i \in 1..Len(queue') : queue'[i] \in Nat \ {Stop} /\ queue'[i] \in Turns'
    BY <1>7, <1>8, <2>1
  <2>3. queue' \in [1..Len(queue') -> Turns'] /\ Len(queue') \in Nat
    BY <1>7, <2>2, LenProperties
  <2> QED
    BY <2>1, <2>2, <2>3, SeqDef
<1>10. Said(submitted') = Said(submitted) \cup Said(ready)
  BY <1>4, <1>5 DEF Said
<1>11. Turns \subseteq Turns' /\ TookIn(ready)
  <2>1. Len(submitted') = Len(submitted) + Len(ready) /\ Len(ready) \in Nat
    BY <1>4, <1>5
  <2>2. Turns \subseteq Turns'
    BY <1>2, <2>1 DEF Turns
  <2>3. ready = <<>> => lost' = lost
    BY <1>3, <1>4, <1>5
  <2>4. Answered' = Answered
    BY DEF Answered, Told
  <2> QED
    BY <1>4, <1>5, <2>1, <2>2, <2>3, <2>4 DEF TookIn
<1> QED
  BY <1>6, <1>7, <1>8, <1>9, <1>10, <1>11

(* A step of the receiver that goes on: it submits the ready turns, and no  *)
(* utterance is lost between the detector, the coalescer and the queue.     *)
Receives(ready) ==
  /\ phase = "receiving" /\ phase' \in {"receiving", "draining"}
  /\ Submit(ready) /\ UNCHANGED <<worker, outbox, timedOut>>
  /\ flushed' \in BOOLEAN
  /\ heard' \in heard..MaxHeard /\ open' \in 0..heard'
  /\ held' \in Seq(Raw(heard')) /\ Len(held') <= 1
  /\ ready \in Seq(Spoken(heard')) /\ Len(ready) \in 0..2
  /\ phase' = "draining" => held' = <<>>
  /\ Utterances' = Said(submitted) \cup Said(ready) \cup Said(held') \cup Opened'

LEMMA AtMostOneIsHeld ==
  ASSUME NEW S, NEW s \in Seq(S), Len(s) <= 1
  PROVE  Len(s) \in 0..1 /\ (s # <<>> => Len(s) = 1 /\ s[1] \in S /\ s = <<s[1]>>)
<1>1. PICK n \in Nat : n = Len(s)
  BY LenProperties
<1>2. n \in 0..1 /\ (n # 0 => n = 1)
  BY <1>1
<1>3. Len(s) \in 0..1 /\ (Len(s) # 0 => Len(s) = 1)
  BY <1>1, <1>2
<1>4. s # <<>> => Len(s) # 0
  BY EmptySeq
<1>5. Len(s) = 1 => s[1] \in S /\ s = <<s[1]>>
  OBVIOUS
<1> QED
  BY <1>3, <1>4, <1>5

LEMMA CoalesceKeepsAudio ==
  ASSUME NEW h \in Nat, held \in Seq(Raw(h)), Len(held) <= 1,
         NEW u \in 1..h, NEW c \in Coalesce(Audio("raw", {u}))
  PROVE  /\ c.held \in Seq(Raw(h)) /\ Len(c.held) = 1
         /\ c.ready \in Seq(Raw(h)) /\ Len(c.ready) \in 0..1
         /\ Said(c.ready) \cup Said(c.held) = Said(held) \cup {u}
<1> DEFINE turn == Audio("raw", {u})
<1>1. turn \in Raw(h) /\ turn.said = {u}
  BY DEF Audio, Raw
<1>2. <<turn>> \in Seq(Raw(h)) /\ Len(<<turn>>) = 1 /\ Said(<<turn>>) = {u}
  BY <1>1, SaidOfConcat
<1>3. Said(<<>>) = {} /\ <<>> \in Seq(Raw(h)) /\ Len(<<>>) = 0
  BY SaidOfConcat
<1>4. CASE held = <<>>
  <2>1. c = [held |-> <<turn>>, ready |-> <<>>]
    BY <1>4 DEF Coalesce
  <2> HIDE DEF turn
  <2> QED
    BY <1>2, <1>3, <1>4, <2>1
<1>5. CASE held # <<>>
  <2> DEFINE merged == Audio("raw", held[1].said \cup turn.said)
  <2>1. Len(held) = 1 /\ held[1] \in Raw(h) /\ held = <<held[1]>>
    BY <1>5, AtMostOneIsHeld
  <2>2. Said(held) = held[1].said
    BY <2>1, SaidOfConcat
  <2>3. merged \in Raw(h) /\ merged.said = held[1].said \cup {u}
    BY <1>1, <2>1 DEF Audio, Raw
  <2>4. <<merged>> \in Seq(Raw(h)) /\ Len(<<merged>>) = 1
        /\ Said(<<merged>>) = held[1].said \cup {u}
    BY <2>3, SaidOfConcat
  <2>5. \/ c = [held |-> <<merged>>, ready |-> <<>>]
        \/ c = [held |-> <<turn>>, ready |-> held]
    BY <1>5 DEF Coalesce
  <2> HIDE DEF turn, merged
  <2>6. CASE c = [held |-> <<merged>>, ready |-> <<>>]
    BY <1>3, <2>2, <2>4, <2>6
  <2>7. CASE c = [held |-> <<turn>>, ready |-> held]
    BY <1>2, <2>1, <2>2, <2>7
  <2> QED
    BY <2>5, <2>6, <2>7
<1> QED
  BY <1>4, <1>5

LEMMA ReceiverReceives ==
  ASSUME LiveInv, Receiver, ~ReceiverFails
  PROVE  \E ready : Receives(ready)
<1>1. /\ phase = "receiving" /\ UNCHANGED <<worker, outbox, timedOut>>
  BY DEF Receiver, ReceiveTurnFrame, TurnOpens, TurnCloses, DeadlinePasses, Hangup,
     ReceiveFlush
<1>2. /\ heard \in 0..MaxHeard /\ MaxHeard \in Nat /\ open \in 0..heard
      /\ held \in Seq(Raw(heard)) /\ Len(held) <= 1
      /\ flushed \in BOOLEAN
      /\ Utterances = Said(submitted) \cup Said(held) \cup Opened
  <2>1. /\ heard \in 0..MaxHeard /\ MaxHeard \in Nat /\ open \in 0..heard
        /\ held \in Seq(Raw(heard)) /\ Len(held) <= 1 /\ flushed \in BOOLEAN
    BY LiveAssumption DEF LiveInv, LiveTypeOK, Raw
  <2>2. Utterances = Said(submitted) \cup Said(held) \cup Opened
    <3>1. NothingIsForgotten /\ phase # "failed"
      BY <1>1 DEF LiveInv
    <3> QED
      BY <3>1 DEF NothingIsForgotten
  <2> QED
    BY <2>1, <2>2
<1>3. \A h \in Nat : Raw(h) \subseteq Spoken(h)
  BY DEF Raw, Spoken
<1>4. Said(<<>>) = {} /\ \A S : <<>> \in Seq(S) /\ Len(<<>>) = 0
  BY SaidOfConcat
<1>5. held \in Seq(Spoken(heard)) /\ Len(held) \in 0..1
  <2>1. held \in Seq(Raw(heard)) /\ Raw(heard) \subseteq Spoken(heard)
    BY <1>2, <1>3
  <2> QED
    BY <1>2, <2>1, SeqMonotonic, AtMostOneIsHeld
<1>6. ASSUME Hear PROVE /\ heard' = heard + 1 /\ heard' \in heard..MaxHeard
                        /\ Utterances' = Utterances \cup {heard + 1}
                        /\ held \in Seq(Raw(heard')) /\ held \in Seq(Spoken(heard'))
  <2>1. heard' = heard + 1 /\ heard' \in heard..MaxHeard
    BY <1>2, <1>6 DEF Hear
  <2>2. 1..heard + 1 = (1..heard) \cup {heard + 1}
    BY <1>2
  <2>3. Raw(heard) \subseteq Raw(heard') /\ Spoken(heard) \subseteq Spoken(heard')
    BY <2>1, <2>2 DEF Raw, Spoken
  <2> QED
    BY <1>2, <1>5, <2>1, <2>2, <2>3, SeqMonotonic DEF Utterances
<1>7. CASE ReceiveTurnFrame
  <2> DEFINE turn == Audio("frame", {heard + 1})
  <2>1. turn \in Spoken(heard') /\ turn.said = {heard + 1}
    BY <1>2, <1>6, <1>7 DEF ReceiveTurnFrame, Audio, Spoken
  <2>2. Submit(<<turn>>) /\ Hear /\ UNCHANGED <<phase, flushed, open, held>>
    BY <1>7 DEF ReceiveTurnFrame
  <2> HIDE DEF turn
  <2>3. <<turn>> \in Seq(Spoken(heard')) /\ Len(<<turn>>) \in 0..2
        /\ Said(<<turn>>) = {heard + 1}
    BY <2>1, SaidOfConcat
  <2>4. open' \in 0..heard' /\ Opened' = Opened
    BY <1>2, <1>6, <2>2 DEF Opened
  <2>5. Utterances' = Said(submitted) \cup Said(<<turn>>) \cup Said(held') \cup Opened'
    BY <1>2, <1>6, <2>2, <2>3, <2>4
  <2> QED
    BY <1>1, <1>2, <1>6, <2>2, <2>3, <2>4, <2>5 DEF Receives
<1>8. CASE TurnOpens
  <2>1. PICK due \in BOOLEAN : /\ Submit(IF due THEN held ELSE <<>>)
                               /\ held' = IF due THEN <<>> ELSE held
    BY <1>8 DEF TurnOpens
  <2> DEFINE ready == IF due THEN held ELSE <<>>
  <2>2. Hear /\ UNCHANGED <<phase, flushed>> /\ open = None /\ open' = heard + 1
    BY <1>8 DEF TurnOpens
  <2>3. open' \in 0..heard' /\ Opened = {} /\ Opened' = {heard + 1}
    BY <1>2, <1>6, <2>2 DEF Opened, None
  <2>4. /\ ready \in Seq(Spoken(heard')) /\ Len(ready) \in 0..2
        /\ held' \in Seq(Raw(heard')) /\ Len(held') <= 1
        /\ Said(ready) \cup Said(held') = Said(held)
    <3>1. CASE due
      BY <1>4, <1>5, <1>6, <2>1, <2>2, <3>1
    <3>2. CASE ~due
      BY <1>2, <1>4, <1>6, <2>1, <2>2, <3>2
    <3> QED
      BY <3>1, <3>2
  <2>5. Submit(ready)
    BY <2>1
  <2> HIDE DEF ready
  <2>6. Utterances' = Said(submitted) \cup Said(ready) \cup Said(held') \cup Opened'
    BY <1>2, <1>6, <2>2, <2>3, <2>4
  <2> QED
    BY <1>1, <1>2, <1>6, <2>2, <2>3, <2>4, <2>5, <2>6 DEF Receives
<1>9. CASE TurnCloses
  <2>1. open # None /\ open \in 1..heard /\ open' = None
        /\ UNCHANGED <<phase, flushed, heard>>
    BY <1>2, <1>9 DEF TurnCloses, None
  <2>2. PICK c \in Coalesce(Audio("raw", {open})) : Submit(c.ready) /\ held' = c.held
    BY <1>9 DEF TurnCloses
  <2>3. /\ c.held \in Seq(Raw(heard)) /\ Len(c.held) = 1
        /\ c.ready \in Seq(Raw(heard)) /\ Len(c.ready) \in 0..1
        /\ Said(c.ready) \cup Said(c.held) = Said(held) \cup {open}
    BY <1>2, <2>1, CoalesceKeepsAudio
  <2>4. c.ready \in Seq(Spoken(heard)) /\ Len(c.ready) \in 0..2
    BY <1>2, <1>3, <2>3, SeqMonotonic
  <2>5. Opened = {open} /\ Opened' = {} /\ open' \in 0..heard'
    BY <1>2, <2>1 DEF Opened, None
  <2>6. heard' \in heard..MaxHeard /\ Utterances' = Utterances
    BY <1>2, <2>1 DEF Utterances
  <2>7. Utterances' = Said(submitted) \cup Said(c.ready) \cup Said(held') \cup Opened'
    BY <1>2, <2>2, <2>3, <2>5, <2>6
  <2> QED
    BY <1>1, <1>2, <2>1, <2>2, <2>3, <2>4, <2>5, <2>6, <2>7 DEF Receives
<1>10. CASE DeadlinePasses \/ ReceiveFlush
  <2>1. /\ Submit(held) /\ held' = <<>> /\ phase' \in {"receiving", "draining"}
        /\ UNCHANGED <<heard, open>> /\ flushed' \in BOOLEAN
    BY <1>1, <1>2, <1>10 DEF DeadlinePasses, ReceiveFlush
  <2>2. Opened' = Opened /\ open' \in 0..heard' /\ heard' \in heard..MaxHeard
        /\ Utterances' = Utterances
    BY <1>2, <2>1 DEF Opened, Utterances
  <2>3. Utterances' = Said(submitted) \cup Said(held) \cup Said(held') \cup Opened'
    BY <1>2, <1>4, <2>1, <2>2
  <2>4. held \in Seq(Spoken(heard')) /\ Len(held) \in 0..2
        /\ held' \in Seq(Raw(heard')) /\ Len(held') <= 1
    BY <1>4, <1>5, <2>1
  <2> QED
    BY <1>1, <2>1, <2>2, <2>3, <2>4 DEF Receives
<1>11. CASE Hangup
  <2>1. /\ phase' = "draining" /\ open' = None /\ held' = <<>>
        /\ UNCHANGED <<flushed, heard>>
    BY <1>11 DEF Hangup
  <2>2. /\ Opened' = {} /\ open' \in 0..heard' /\ heard' \in heard..MaxHeard
        /\ Utterances' = Utterances /\ flushed' \in BOOLEAN
        /\ held' \in Seq(Raw(heard')) /\ Len(held') <= 1 /\ Said(held') = {}
    BY <1>2, <1>4, <2>1 DEF Opened, Utterances, None
  <2>3. CASE open = None
    <3>1. Submit(held)
      BY <1>11, <2>3 DEF Hangup
    <3>2. Utterances' = Said(submitted) \cup Said(held) \cup Said(held') \cup Opened'
      BY <1>2, <2>2, <2>3 DEF Opened
    <3>3. held \in Seq(Spoken(heard')) /\ Len(held) \in 0..2
      BY <1>5, <2>1
    <3> QED
      BY <1>1, <2>1, <2>2, <3>1, <3>2, <3>3 DEF Receives
  <2>4. CASE open # None
    <3>1. PICK c \in Coalesce(Audio("raw", {open})) : Submit(c.ready \o c.held)
      BY <1>11, <2>4 DEF Hangup
    <3>2. open \in 1..heard /\ Opened = {open}
      BY <1>2, <2>4 DEF None, Opened
    <3>3. /\ c.held \in Seq(Raw(heard)) /\ Len(c.held) = 1
          /\ c.ready \in Seq(Raw(heard)) /\ Len(c.ready) \in 0..1
          /\ Said(c.ready) \cup Said(c.held) = Said(held) \cup {open}
      BY <1>2, <3>2, CoalesceKeepsAudio
    <3> DEFINE ready == c.ready \o c.held
    <3>4. /\ ready \in Seq(Raw(heard)) /\ Len(ready) = Len(c.ready) + Len(c.held)
          /\ Said(ready) = Said(c.ready) \cup Said(c.held)
      <4>1. c.ready \in Seq(Raw(heard)) /\ c.held \in Seq(Raw(heard))
        BY <3>3
      <4>2. ready \in Seq(Raw(heard)) /\ Len(ready) = Len(c.ready) + Len(c.held)
        BY <4>1, ConcatProperties
      <4>3. Said(ready) = Said(c.ready) \cup Said(c.held)
        BY <4>1, SaidOfConcat
      <4> QED
        BY <4>2, <4>3
    <3>5. Submit(ready)
      BY <3>1
    <3> HIDE DEF ready
    <3>6. ready \in Seq(Spoken(heard')) /\ Len(ready) \in 0..2
      <4>1. ready \in Seq(Spoken(heard))
        BY <1>2, <1>3, <3>4, SeqMonotonic
      <4>2. Len(ready) \in 0..2
        <5>1. \A m \in 0..1 : m + 1 \in 0..2
          OBVIOUS
        <5>2. Len(ready) = Len(c.ready) + 1
          BY <3>3, <3>4
        <5> QED
          BY <3>3, <5>1, <5>2
      <4> QED
        BY <2>1, <4>1, <4>2
    <3>7. Utterances' = Said(submitted) \cup Said(ready) \cup Said(held') \cup Opened'
      BY <1>2, <2>2, <3>2, <3>3, <3>4
    <3> QED
      BY <1>1, <2>1, <2>2, <3>5, <3>6, <3>7 DEF Receives
  <2> QED
    BY <2>3, <2>4
<1> QED
  BY <1>7, <1>8, <1>9, <1>10, <1>11 DEF Receiver

LEMMA ReceivingKeepsInv ==
  ASSUME LiveInv, NEW ready, Receives(ready)
  PROVE  LiveInv'
<1>1. /\ phase = "receiving" /\ phase' \in {"receiving", "draining"}
      /\ Submit(ready) /\ UNCHANGED <<worker, outbox, timedOut>>
      /\ heard' \in heard..MaxHeard /\ open' \in 0..heard'
      /\ held' \in Seq(Raw(heard')) /\ Len(held') <= 1 /\ flushed' \in BOOLEAN
      /\ ready \in Seq(Spoken(heard')) /\ Len(ready) \in 0..2
      /\ phase' = "draining" => held' = <<>>
      /\ Utterances' = Said(submitted) \cup Said(ready) \cup Said(held') \cup Opened'
  BY DEF Receives
<1>2. heard' \in Nat /\ heard <= heard' /\ heard' \in 0..MaxHeard /\ timedOut \in BOOLEAN
  BY <1>1, LiveAssumption DEF LiveInv, LiveTypeOK
<1>3. /\ submitted' \in Seq(Spoken(heard')) /\ queue' \in Seq(Turns')
      /\ Len(queue') <= QueueSize /\ unfinished' \in Nat
      /\ lost' \subseteq Turns' /\ notices' \subseteq lost'
      /\ Stop \notin Range(queue')
      /\ BoxInv(Box, Answered, Reported, worker.turn, BusyCount)'
      /\ Said(submitted') = Said(submitted) \cup Said(ready)
      /\ Turns \subseteq Turns'
  BY <1>1, <1>2, SubmitKeepsBox
<1>4. LiveTypeOK'
  <2>1. queue' \in Seq(Turns' \cup {Stop})
    BY <1>3, SeqMonotonic
  <2>2. /\ worker' \in [at : {"waiting", "decoding", "sending", "stopped", "cancelled"},
                        turn : Turns' \cup {Stop}]
    BY <1>1, <1>3 DEF LiveInv, LiveTypeOK
  <2>3. outbox' \in Seq([type : {"answer", "dropped", "stats"}, turn : Turns' \cup {None}])
    <3> DEFINE M(T) == [type : {"answer", "dropped", "stats"}, turn : T \cup {None}]
    <3>1. outbox \in Seq(M(Turns)) /\ outbox' = outbox
      BY <1>1 DEF LiveInv, LiveTypeOK
    <3>2. M(Turns) \subseteq M(Turns')
      BY <1>3
    <3> HIDE DEF M
    <3>3. outbox' \in Seq(M(Turns'))
      BY <3>1, <3>2, SeqMonotonic
    <3> QED
      BY <3>3 DEF M
  <2>4. /\ phase' \in {"receiving", "draining", "stopping", "closed", "failed"}
        /\ flushed' \in BOOLEAN /\ timedOut' \in BOOLEAN
    BY <1>1, <1>2
  <2> QED
    BY <1>1, <1>2, <1>3, <2>1, <2>2, <2>3, <2>4 DEF LiveTypeOK, Raw, Spoken
<1>5. WorkerInPhase'
  <2>1. Answered' = Answered /\ (At("stopped") <=> At("stopped")')
        /\ (At("cancelled") <=> At("cancelled")') /\ (Busy <=> Busy')
        /\ worker'.turn = worker.turn
    BY <1>1 DEF Answered, Told, At, Busy
  <2>2. WorkerInPhase
    BY DEF LiveInv
  <2> QED
    BY <1>1, <1>3, <2>1, <2>2 DEF WorkerInPhase
<1>6. NothingIsForgotten'
  BY <1>1, <1>3 DEF NothingIsForgotten
<1>7. ShutdownIsIdle'
  BY <1>1 DEF ShutdownIsIdle
<1> QED
  BY <1>3, <1>4, <1>5, <1>6, <1>7 DEF LiveInv

LEMMA FailingKeepsInv ==
  ASSUME LiveInv, ReceiverFails
  PROVE  LiveInv'
<1>1. /\ phase = "receiving" /\ phase' = "failed"
      /\ worker' = [worker EXCEPT !.at = "cancelled"]
      /\ UNCHANGED <<inputVars, boxVars, outbox, timedOut>>
  BY DEF ReceiverFails
<1>2. /\ worker'.at = "cancelled" /\ worker'.turn = worker.turn
      /\ worker' \in [at : {"waiting", "decoding", "sending", "stopped", "cancelled"},
                      turn : Turns \cup {Stop}]
  BY <1>1 DEF LiveInv, LiveTypeOK
<1>3. /\ Answered' = Answered /\ Reported' = Reported /\ Box' = Box
      /\ BusyCount' = 0
  BY <1>1, <1>2 DEF Answered, Reported, Told, Box, boxVars, BusyCount, Busy
<1>4. LiveTypeOK'
  BY <1>1, <1>2 DEF LiveInv, LiveTypeOK, inputVars, boxVars, Turns
<1>5. BoxInv(Box, Answered, Reported, worker.turn, BusyCount)'
  <2>1. BoxInv(Box, Answered, Reported, worker.turn, 0)
    <3>1. BoxInv(Box, Answered, Reported, worker.turn, BusyCount)
      BY DEF LiveInv
    <3>2. BusyCount \in 0..1 /\ Box.unfinished \in Nat /\ Len(Box.queue) \in Nat
      BY DEF BusyCount, Box, LiveInv, LiveTypeOK
    <3>3. CountsUnfinished(Box, 0)
      BY <3>1, <3>2 DEF BoxInv, CountsUnfinished
    <3> QED
      BY <3>1, <3>3 DEF BoxInv
  <2> QED
    BY <1>2, <1>3, <2>1
<1>6. WorkerInPhase'
  <2>1. Stop \notin Range(queue)
    BY <1>1 DEF LiveInv, WorkerInPhase
  <2> QED
    BY <1>1, <1>2, <2>1 DEF WorkerInPhase, At, Busy, boxVars
<1>7. NothingIsForgotten' /\ ShutdownIsIdle'
  BY <1>1 DEF NothingIsForgotten, ShutdownIsIdle
<1> QED
  BY <1>4, <1>5, <1>6, <1>7 DEF LiveInv

-----------------------------------------------------------------------------
(* The worker, the notices and the shutdown. *)

Types == {"answer", "dropped", "stats"}
Messages(T) == [type : Types, turn : T \cup {None}]

LEMMA TellingTypes ==
  ASSUME LiveTypeOK, NEW type \in Types, NEW n \in Turns \cup {None},
         outbox' = Append(outbox, Message(type, n))
  PROVE  /\ outbox' \in Seq(Messages(Turns))
         /\ Answered' = IF type = "answer" THEN Answered \cup {n} ELSE Answered
         /\ Reported' = IF type = "dropped" THEN Reported \cup {n} ELSE Reported
<1> DEFINE m == Message(type, n)
<1>1. /\ outbox \in Seq(Messages(Turns)) /\ m \in Messages(Turns)
      /\ m.type = type /\ m.turn = n
  BY DEF LiveTypeOK, Messages, Types, Message
<1> HIDE DEF m
<1>2. outbox' \in Seq(Messages(Turns)) /\ Range(outbox') = Range(outbox) \cup {m}
  BY <1>1, RangeOfAppend DEF m
<1>3. ASSUME NEW y
      PROVE  {x.turn : x \in {z \in Range(outbox') : z.type = y}} =
               IF type = y
               THEN {x.turn : x \in {z \in Range(outbox) : z.type = y}} \cup {n}
               ELSE {x.turn : x \in {z \in Range(outbox) : z.type = y}}
  BY <1>1, <1>2
<1> QED
  BY <1>2, <1>3 DEF Answered, Reported, Told

(* What the parts of the invariant say in a state. *)
LEMMA InvFacts ==
  ASSUME LiveInv
  PROVE  /\ queue \in Seq(Nat) /\ Len(queue) \in Nat /\ Len(submitted) \in Nat
         /\ worker.turn \in Nat /\ unfinished \in Nat
         /\ Turns = (Range(queue) \cup Answered \cup lost \cup {worker.turn}) \ {Stop}
         /\ Stop \notin Answered \cup lost
         /\ lost \cap (Answered \cup {worker.turn}) = {}
         /\ \A n \in Range(queue) \ {Stop} :
              n \notin lost /\ \A m \in Answered \cup {worker.turn} : m < n
         /\ DropOnOverflow => \A n \in Range(queue) \ {Stop} : \A m \in lost : m < n
         /\ Reported \subseteq lost
         /\ DropOnOverflow => lost \subseteq notices \cup Reported
         /\ unfinished >= Len(queue) + BusyCount
<1>1. /\ BoxInv(Box, Answered, Reported, worker.turn, BusyCount)
      /\ Box.submitted = submitted /\ Box.queue = queue /\ Box.lost = lost
      /\ Box.notices = notices /\ Box.unfinished = unfinished
  BY DEF LiveInv, Box
<1>2. /\ Turns = (Range(queue) \cup Answered \cup lost \cup {worker.turn}) \ {Stop}
      /\ Stop \notin Answered \cup lost
  BY <1>1 DEF BoxInv, EachTurnIsSomewhere, Turns
<1>3. /\ lost \cap (Answered \cup {worker.turn}) = {}
      /\ \A n \in Range(queue) \ {Stop} :
           n \notin lost /\ \A m \in Answered \cup {worker.turn} : m < n
      /\ DropOnOverflow => \A n \in Range(queue) \ {Stop} : \A m \in lost : m < n
  BY <1>1 DEF BoxInv, WaitingAreNewest, TurnsIn
<1>4. /\ Reported \subseteq lost
      /\ DropOnOverflow => lost \subseteq notices \cup Reported
      /\ unfinished >= Len(queue) + BusyCount
  BY <1>1 DEF BoxInv, DropsAreNoticed, CountsUnfinished
<1>5. /\ queue \in Seq(Turns \cup {Stop}) /\ Len(submitted) \in Nat
      /\ worker.turn \in Turns \cup {Stop} /\ unfinished \in Nat
  BY DEF LiveInv, LiveTypeOK
<1>6. Turns \cup {Stop} \subseteq Nat
  BY <1>5 DEF Turns, Stop, None
<1>7. queue \in Seq(Nat) /\ Len(queue) \in Nat /\ worker.turn \in Nat
  BY <1>5, <1>6, SeqMonotonic
<1> QED
  BY <1>2, <1>3, <1>4, <1>5, <1>7

(* The box's part of the invariant from facts about the variables after a step. *)
LEMMA BoxInvFrom ==
  ASSUME \A i, j \in 1..Len(queue') : i < j =>
           queue'[i] # Stop /\ (queue'[j] = Stop \/ queue'[i] < queue'[j]),
         Turns' = (Range(queue') \cup Answered' \cup lost' \cup {worker'.turn}) \ {Stop},
         Stop \notin Answered' \cup lost',
         lost' \cap (Answered' \cup {worker'.turn}) = {},
         \A n \in Range(queue') \ {Stop} :
           n \notin lost' /\ \A m \in Answered' \cup {worker'.turn} : m < n,
         DropOnOverflow => \A n \in Range(queue') \ {Stop} : \A m \in lost' : m < n,
         Reported' \subseteq lost',
         DropOnOverflow => lost' \subseteq notices' \cup Reported',
         unfinished' >= Len(queue') + BusyCount'
  PROVE  BoxInv(Box, Answered, Reported, worker.turn, BusyCount)'
<1>1. /\ Box'.submitted = submitted' /\ Box'.queue = queue' /\ Box'.lost = lost'
      /\ Box'.notices = notices' /\ Box'.unfinished = unfinished'
  BY DEF Box
<1>2. QueueInOrder(Box')
  BY <1>1 DEF QueueInOrder
<1>3. EachTurnIsSomewhere(Box', Answered', worker'.turn)
  BY <1>1 DEF EachTurnIsSomewhere, Turns
<1>4. WaitingAreNewest(Box', Answered', worker'.turn)
  BY <1>1 DEF WaitingAreNewest, TurnsIn
<1>5. DropsAreNoticed(Box', Reported') /\ CountsUnfinished(Box', BusyCount')
  BY <1>1 DEF DropsAreNoticed, CountsUnfinished
<1> QED
  BY <1>2, <1>3, <1>4, <1>5 DEF BoxInv

LEMMA TakingKeepsInv ==
  ASSUME LiveInv, WorkerTakes
  PROVE  LiveInv'
<1> DEFINE h == Head(queue)
<1>1. /\ worker.at = "waiting" /\ queue # <<>> /\ queue' = Tail(queue)
      /\ UNCHANGED <<phase, inputVars, submitted, lost, notices, outbox, timedOut>>
      /\ UNCHANGED <<flushed, heard, open, held>>
      /\ \/ /\ h = Stop /\ worker' = [worker EXCEPT !.at = "stopped"]
            /\ unfinished' = unfinished - 1
         \/ /\ h # Stop /\ worker' = [at |-> "decoding", turn |-> h]
            /\ unfinished' = unfinished
  BY DEF WorkerTakes, At, inputVars
<1>2. /\ queue \in Seq(Nat) /\ Len(queue) \in Nat /\ Len(submitted) \in Nat
      /\ worker.turn \in Nat /\ unfinished \in Nat
      /\ Turns = (Range(queue) \cup Answered \cup lost \cup {worker.turn}) \ {Stop}
      /\ Stop \notin Answered \cup lost
      /\ lost \cap (Answered \cup {worker.turn}) = {}
      /\ \A n \in Range(queue) \ {Stop} :
           n \notin lost /\ \A m \in Answered \cup {worker.turn} : m < n
      /\ DropOnOverflow => \A n \in Range(queue) \ {Stop} : \A m \in lost : m < n
      /\ Reported \subseteq lost
      /\ DropOnOverflow => lost \subseteq notices \cup Reported
      /\ unfinished >= Len(queue) + BusyCount
  BY InvFacts
<1>3. /\ BusyCount = 0 /\ worker.turn \in Answered \cup {Stop}
      /\ Stop \in Range(queue) => phase \in {"stopping", "closed"}
      /\ phase # "failed"
  BY <1>1 DEF LiveInv, WorkerInPhase, BusyCount, Busy, At
<1>4. /\ \A n \in Range(queue') : h # Stop /\ (n = Stop \/ h < n)
      /\ \A i, j \in 1..Len(queue') :
           i < j => queue'[i] # Stop /\ (queue'[j] = Stop \/ queue'[i] < queue'[j])
      /\ h \in Nat /\ queue' \in Seq(Nat) /\ Len(queue') = Len(queue) - 1
      /\ Range(queue) = Range(queue') \cup {h}
  <2>1. Box.queue = queue /\ QueueInOrder(Box)
    BY DEF LiveInv, BoxInv, Box
  <2> QED
    BY <1>1, <1>2, <2>1, HeadIsOldest
<1>5. /\ Answered' = Answered /\ Reported' = Reported /\ Turns' = Turns
  BY <1>1 DEF Answered, Reported, Told, Turns
<1> HIDE DEF h
<1>6. LiveTypeOK'
  <2>1. queue \in Seq(Turns \cup {Stop}) /\ queue # <<>>
    BY <1>1 DEF LiveInv, LiveTypeOK
  <2>2. queue' \in Seq(Turns \cup {Stop}) /\ h \in Turns \cup {Stop}
    BY <1>1, <2>1, RangeOfTail DEF h
  <2>3. unfinished' \in Nat
    BY <1>1, <1>2, <1>3, <1>4
  <2>4. Len(queue') <= QueueSize
    BY <1>2, <1>4, LiveAssumption DEF LiveInv, LiveTypeOK
  <2>5. worker' \in [at : {"waiting", "decoding", "sending", "stopped", "cancelled"},
                     turn : Turns \cup {Stop}]
    BY <1>1, <2>2 DEF LiveInv, LiveTypeOK
  <2> QED
    BY <1>1, <1>5, <2>2, <2>3, <2>4, <2>5 DEF LiveInv, LiveTypeOK
<1>7. CASE h = Stop
  <2>1. /\ worker'.at = "stopped" /\ worker'.turn = worker.turn
        /\ unfinished' = unfinished - 1 /\ BusyCount' = 0
        /\ Range(queue') \ {Stop} = Range(queue) \ {Stop}
    BY <1>1, <1>4, <1>7 DEF LiveInv, LiveTypeOK, BusyCount, Busy
  <2>2. unfinished' >= Len(queue') + BusyCount'
    BY <1>2, <1>3, <1>4, <2>1
  <2>3. Turns' = (Range(queue') \cup Answered' \cup lost' \cup {worker'.turn}) \ {Stop}
    BY <1>1, <1>2, <1>5, <2>1
  <2>4. \A n \in Range(queue') \ {Stop} :
          n \notin lost' /\ \A m \in Answered' \cup {worker'.turn} : m < n
    BY <1>1, <1>2, <1>5, <2>1
  <2>5. DropOnOverflow => \A n \in Range(queue') \ {Stop} : \A m \in lost' : m < n
    BY <1>1, <1>2, <2>1
  <2>6. BoxInv(Box, Answered, Reported, worker.turn, BusyCount)'
    BY <1>1, <1>2, <1>4, <1>5, <2>1, <2>2, <2>3, <2>4, <2>5, BoxInvFrom
  <2>7. WorkerInPhase'
    BY <1>1, <1>3, <1>4, <1>5, <1>7, <2>1 DEF WorkerInPhase, At, Busy
  <2>8. NothingIsForgotten' /\ ShutdownIsIdle'
    BY <1>1, <1>5 DEF LiveInv, NothingIsForgotten, ShutdownIsIdle, Utterances, Opened, Said
  <2> QED
    BY <1>6, <2>6, <2>7, <2>8 DEF LiveInv
<1>8. CASE h # Stop
  <2>1. /\ worker'.at = "decoding" /\ worker'.turn = h
        /\ unfinished' = unfinished /\ BusyCount' = 1
        /\ h \in Range(queue) \ {Stop}
    BY <1>1, <1>4, <1>8 DEF BusyCount, Busy
  <2>2. unfinished' >= Len(queue') + BusyCount'
    BY <1>2, <1>3, <1>4, <2>1
  <2>3. Turns' = (Range(queue') \cup Answered' \cup lost' \cup {worker'.turn}) \ {Stop}
    BY <1>1, <1>2, <1>3, <1>4, <1>5, <2>1
  <2>4. \A n \in Range(queue') \ {Stop} :
          n \notin lost' /\ \A m \in Answered' \cup {worker'.turn} : m < n
    BY <1>1, <1>2, <1>4, <1>5, <2>1
  <2>5. DropOnOverflow => \A n \in Range(queue') \ {Stop} : \A m \in lost' : m < n
    BY <1>1, <1>2, <1>4
  <2>6. lost' \cap (Answered' \cup {worker'.turn}) = {}
    BY <1>1, <1>2, <1>5, <2>1
  <2>7. BoxInv(Box, Answered, Reported, worker.turn, BusyCount)'
    BY <1>1, <1>2, <1>4, <1>5, <2>2, <2>3, <2>4, <2>5, <2>6, BoxInvFrom
  <2>8. h \notin Answered \cup {Stop}
    BY <1>2, <1>4, <2>1
  <2>9. WorkerInPhase'
    BY <1>1, <1>3, <1>4, <1>5, <2>1, <2>8 DEF WorkerInPhase, At, Busy
  <2>10. NothingIsForgotten' /\ ShutdownIsIdle'
    BY <1>1, <1>5 DEF LiveInv, NothingIsForgotten, ShutdownIsIdle, Utterances, Opened, Said
  <2> QED
    BY <1>6, <2>7, <2>9, <2>10 DEF LiveInv
<1> QED
  BY <1>7, <1>8

LEMMA DecodingKeepsInv ==
  ASSUME LiveInv, Decoded
  PROVE  LiveInv'
<1>1. /\ worker.at = "decoding" /\ worker' = [worker EXCEPT !.at = "sending"]
      /\ UNCHANGED <<phase, flushed, heard, open, held, submitted, queue, unfinished,
                     lost, notices, outbox, timedOut>>
  BY DEF Decoded, At, inputVars, boxVars
<1>2. /\ worker'.at = "sending" /\ worker'.turn = worker.turn
      /\ worker' \in [at : {"waiting", "decoding", "sending", "stopped", "cancelled"},
                      turn : Turns \cup {Stop}]
  BY <1>1 DEF LiveInv, LiveTypeOK
<1>3. /\ Answered' = Answered /\ Reported' = Reported /\ Box' = Box
      /\ BusyCount' = BusyCount /\ Turns' = Turns /\ Busy /\ Busy'
  BY <1>1, <1>2 DEF Answered, Reported, Told, Box, BusyCount, Busy, Turns
<1>4. LiveTypeOK'
  BY <1>1, <1>2, <1>3 DEF LiveInv, LiveTypeOK
<1>5. BoxInv(Box, Answered, Reported, worker.turn, BusyCount)'
  BY <1>2, <1>3 DEF LiveInv
<1>6. WorkerInPhase'
  BY <1>1, <1>2, <1>3 DEF LiveInv, WorkerInPhase, At
<1>7. NothingIsForgotten' /\ ShutdownIsIdle'
  BY <1>1, <1>3 DEF LiveInv, NothingIsForgotten, ShutdownIsIdle, Utterances, Opened, Said
<1> QED
  BY <1>4, <1>5, <1>6, <1>7 DEF LiveInv

LEMMA SendingKeepsInv ==
  ASSUME LiveInv, WorkerSends
  PROVE  LiveInv' /\ Answered' = Answered \cup {worker.turn}
<1> DEFINE w == worker.turn
<1>1. /\ worker.at = "sending" /\ worker' = [worker EXCEPT !.at = "waiting"]
      /\ outbox' = Append(outbox, Message("answer", w))
      /\ unfinished' = unfinished - 1
      /\ UNCHANGED <<phase, flushed, heard, open, held, submitted, queue,
                     lost, notices, timedOut>>
  BY DEF WorkerSends, At, inputVars
<1>2. /\ queue \in Seq(Nat) /\ Len(queue) \in Nat /\ Len(submitted) \in Nat
      /\ worker.turn \in Nat /\ unfinished \in Nat
      /\ Turns = (Range(queue) \cup Answered \cup lost \cup {worker.turn}) \ {Stop}
      /\ Stop \notin Answered \cup lost
      /\ lost \cap (Answered \cup {worker.turn}) = {}
      /\ \A n \in Range(queue) \ {Stop} :
           n \notin lost /\ \A m \in Answered \cup {worker.turn} : m < n
      /\ DropOnOverflow => \A n \in Range(queue) \ {Stop} : \A m \in lost : m < n
      /\ Reported \subseteq lost
      /\ DropOnOverflow => lost \subseteq notices \cup Reported
      /\ unfinished >= Len(queue) + BusyCount
  BY InvFacts
<1>3. /\ BusyCount = 1 /\ w # Stop /\ w \in Turns
      /\ Stop \in Range(queue) => phase \in {"stopping", "closed"}
      /\ phase # "failed"
  <2>1. BusyCount = 1 /\ w # Stop /\ phase # "failed"
        /\ (Stop \in Range(queue) => phase \in {"stopping", "closed"})
    BY <1>1 DEF LiveInv, WorkerInPhase, BusyCount, Busy, At
  <2> QED
    BY <1>2, <2>1
<1>4. /\ worker'.at = "waiting" /\ worker'.turn = w /\ BusyCount' = 0
      /\ worker' \in [at : {"waiting", "decoding", "sending", "stopped", "cancelled"},
                      turn : Turns \cup {Stop}]
  BY <1>1 DEF LiveInv, LiveTypeOK, BusyCount, Busy
<1>5. /\ outbox' \in Seq(Messages(Turns)) /\ Reported' = Reported
      /\ Answered' = Answered \cup {w}
  BY <1>1, <1>3, TellingTypes DEF LiveInv, Types
<1>6. Turns' = Turns
  BY <1>1 DEF Turns
<1> HIDE DEF w
<1>7. LiveTypeOK'
  <2>1. unfinished' \in Nat
    BY <1>1, <1>2, <1>3
  <2> QED
    BY <1>1, <1>4, <1>5, <1>6, <2>1 DEF LiveInv, LiveTypeOK, Messages, Types
<1>8. BoxInv(Box, Answered, Reported, worker.turn, BusyCount)'
  <2>1. unfinished' >= Len(queue') + BusyCount'
    BY <1>1, <1>2, <1>3, <1>4
  <2>2. \A i, j \in 1..Len(queue') :
          i < j => queue'[i] # Stop /\ (queue'[j] = Stop \/ queue'[i] < queue'[j])
    BY <1>1 DEF LiveInv, BoxInv, QueueInOrder, Box
  <2>3. /\ Turns' = (Range(queue') \cup Answered' \cup lost' \cup {worker'.turn}) \ {Stop}
        /\ Stop \notin Answered' \cup lost'
        /\ lost' \cap (Answered' \cup {worker'.turn}) = {}
    BY <1>1, <1>2, <1>3, <1>4, <1>5, <1>6 DEF w
  <2>4. \A n \in Range(queue') \ {Stop} :
          n \notin lost' /\ \A m \in Answered' \cup {worker'.turn} : m < n
    BY <1>1, <1>2, <1>4, <1>5 DEF w
  <2>5. /\ DropOnOverflow => \A n \in Range(queue') \ {Stop} : \A m \in lost' : m < n
        /\ Reported' \subseteq lost'
        /\ DropOnOverflow => lost' \subseteq notices' \cup Reported'
    BY <1>1, <1>2, <1>5
  <2> QED
    BY <2>1, <2>2, <2>3, <2>4, <2>5, BoxInvFrom
<1>9. WorkerInPhase'
  BY <1>1, <1>3, <1>4, <1>5 DEF WorkerInPhase, At, Busy
<1>10. NothingIsForgotten'
  BY <1>1 DEF LiveInv, NothingIsForgotten, Utterances, Opened, Said
<1>11. ShutdownIsIdle'
  BY <1>1, <1>3, <1>5, <1>6 DEF LiveInv, ShutdownIsIdle
<1> QED
  BY <1>5, <1>7, <1>8, <1>9, <1>10, <1>11 DEF LiveInv, w

LEMMA NoticeKeepsInv ==
  ASSUME LiveInv, SendNotice
  PROVE  LiveInv' /\ Answered' = Answered
<1>1. /\ UNCHANGED <<phase, flushed, heard, open, held, submitted, queue, unfinished,
                     lost, worker, timedOut>>
  BY DEF SendNotice, inputVars
<1>2. PICK n \in notices : /\ outbox' = Append(outbox, Message("dropped", n))
                           /\ notices' = notices \ {n}
  BY DEF SendNotice
<1>3. n \in Turns
  BY DEF LiveInv, LiveTypeOK
<1>4. /\ outbox' \in Seq(Messages(Turns)) /\ Answered' = Answered
      /\ Reported' = Reported \cup {n}
  BY <1>2, <1>3, TellingTypes DEF LiveInv, Types
<1>5. Turns' = Turns /\ BusyCount' = BusyCount /\ (Busy <=> Busy')
  BY <1>1 DEF Turns, BusyCount, Busy
<1>6. LiveTypeOK'
  BY <1>1, <1>2, <1>4, <1>5 DEF LiveInv, LiveTypeOK, Messages, Types
<1>7. BoxInv(Box, Answered, Reported, worker.turn, BusyCount)'
  <2>1. \A i, j \in 1..Len(queue') :
          i < j => queue'[i] # Stop /\ (queue'[j] = Stop \/ queue'[i] < queue'[j])
    BY <1>1 DEF LiveInv, BoxInv, QueueInOrder, Box
  <2>2. Reported' \subseteq lost' /\ (DropOnOverflow => lost' \subseteq notices' \cup Reported')
    <3>1. n \in lost
      BY DEF LiveInv, LiveTypeOK
    <3> QED
      BY <1>1, <1>2, <1>4, <3>1, InvFacts
  <2>3. /\ Turns' = (Range(queue') \cup Answered' \cup lost' \cup {worker'.turn}) \ {Stop}
        /\ Stop \notin Answered' \cup lost'
        /\ lost' \cap (Answered' \cup {worker'.turn}) = {}
        /\ unfinished' >= Len(queue') + BusyCount'
    BY <1>1, <1>4, <1>5, InvFacts
  <2>4. /\ \A m \in Range(queue') \ {Stop} :
             m \notin lost' /\ \A k \in Answered' \cup {worker'.turn} : k < m
        /\ DropOnOverflow => \A m \in Range(queue') \ {Stop} : \A k \in lost' : k < m
    BY <1>1, <1>4, InvFacts
  <2> QED
    BY <2>1, <2>2, <2>3, <2>4, BoxInvFrom
<1>8. WorkerInPhase'
  BY <1>1, <1>4, <1>5 DEF LiveInv, WorkerInPhase, At
<1>9. NothingIsForgotten' /\ ShutdownIsIdle'
  BY <1>1, <1>2, <1>4, <1>5 DEF LiveInv, NothingIsForgotten, ShutdownIsIdle, Utterances,
     Opened, Said
<1> QED
  BY <1>4, <1>6, <1>7, <1>8, <1>9 DEF LiveInv

(* The join over: it returned because nothing is pending, or was given up. *)
LEMMA StoppingKeepsInv ==
  ASSUME LiveInv, JoinReturns \/ JoinTimesOut
  PROVE  LiveInv' /\ Answered' = Answered
<1>1. /\ phase = "draining" /\ phase' = "stopping"
      /\ UNCHANGED <<flushed, heard, open, held, submitted, lost, notices, worker, outbox>>
      /\ \/ queue' = Append(queue, Stop) /\ unfinished' = unfinished + 1
            /\ Len(queue) < QueueSize
         \/ UNCHANGED <<queue, unfinished>>
      /\ \/ unfinished = 0 /\ timedOut' = timedOut
         \/ timedOut' = TRUE
  BY DEF JoinReturns, JoinTimesOut, StopWorker, inputVars
<1>2. /\ queue \in Seq(Nat) /\ Len(queue) \in Nat /\ Len(submitted) \in Nat
      /\ worker.turn \in Nat /\ unfinished \in Nat
      /\ Turns = (Range(queue) \cup Answered \cup lost \cup {worker.turn}) \ {Stop}
      /\ Stop \notin Answered \cup lost
      /\ lost \cap (Answered \cup {worker.turn}) = {}
      /\ \A n \in Range(queue) \ {Stop} :
           n \notin lost /\ \A m \in Answered \cup {worker.turn} : m < n
      /\ DropOnOverflow => \A n \in Range(queue) \ {Stop} : \A m \in lost : m < n
      /\ Reported \subseteq lost
      /\ DropOnOverflow => lost \subseteq notices \cup Reported
      /\ unfinished >= Len(queue) + BusyCount
  BY InvFacts
<1>3. /\ Stop \notin Range(queue) /\ ~At("stopped") /\ ~At("cancelled")
      /\ BusyCount \in 0..1 /\ (BusyCount = 0 => worker.turn \in Answered \cup {Stop})
      /\ held = <<>>
  BY <1>1 DEF LiveInv, WorkerInPhase, NothingIsForgotten, BusyCount, Busy
<1>4. /\ Turns' = Turns /\ Answered' = Answered /\ Reported' = Reported
      /\ BusyCount' = BusyCount /\ (Busy <=> Busy')
  BY <1>1 DEF Turns, Answered, Reported, Told, BusyCount, Busy
<1>5. /\ queue' \in Seq(Turns \cup {Stop}) /\ Range(queue') \ {Stop} = Range(queue)
      /\ Len(queue') <= QueueSize /\ unfinished' \in Nat
      /\ unfinished' >= Len(queue') + BusyCount
      /\ \A i, j \in 1..Len(queue') :
           i < j => queue'[i] # Stop /\ (queue'[j] = Stop \/ queue'[i] < queue'[j])
  <2>1. queue \in Seq(Turns \cup {Stop}) /\ Len(queue) <= QueueSize
    BY DEF LiveInv, LiveTypeOK
  <2>2. \A i, j \in 1..Len(queue) :
          i < j => queue[i] # Stop /\ (queue[j] = Stop \/ queue[i] < queue[j])
    BY DEF LiveInv, BoxInv, QueueInOrder, Box
  <2>3. CASE UNCHANGED <<queue, unfinished>>
    BY <1>2, <1>3, <2>1, <2>2, <2>3
  <2>4. CASE /\ queue' = Append(queue, Stop) /\ unfinished' = unfinished + 1
             /\ Len(queue) < QueueSize
    <3>1. /\ queue' \in Seq(Turns \cup {Stop}) /\ Len(queue') = Len(queue) + 1
          /\ \A i \in 1..Len(queue) : queue'[i] = queue[i]
          /\ queue'[Len(queue) + 1] = Stop
          /\ Range(queue') = Range(queue) \cup {Stop}
      BY <2>1, <2>4, RangeOfAppend
    <3>2. \A i \in 1..Len(queue) : queue[i] # Stop
      <4>1. Range(queue) = {queue[i] : i \in 1..Len(queue)}
        BY <2>1, RangeIsIndexed
      <4> QED
        BY <1>3, <4>1
    <3>3. ASSUME NEW i \in 1..Len(queue'), NEW j \in 1..Len(queue'), i < j
          PROVE  queue'[i] # Stop /\ (queue'[j] = Stop \/ queue'[i] < queue'[j])
      <4>1. i \in 1..Len(queue) /\ (j \in 1..Len(queue) \/ j = Len(queue) + 1)
        <5>1. PICK k \in Nat : k = Len(queue)
          BY <1>2
        <5>2. i \in 1..k + 1 /\ j \in 1..k + 1 /\ i < j
          BY <3>1, <3>3, <5>1
        <5>3. i \in 1..k /\ (j \in 1..k \/ j = k + 1)
          BY <5>2
        <5> QED
          BY <5>1, <5>3
      <4> QED
        BY <2>2, <3>1, <3>2, <3>3, <4>1
    <3>4. Len(queue') <= QueueSize /\ unfinished' \in Nat
          /\ unfinished' >= Len(queue') + BusyCount
      BY <1>2, <1>3, <2>4, <3>1, LiveAssumption
    <3> QED
      BY <1>3, <3>1, <3>3, <3>4
  <2> QED
    BY <1>1, <2>3, <2>4
<1>6. LiveTypeOK'
  BY <1>1, <1>4, <1>5 DEF LiveInv, LiveTypeOK
<1>7. BoxInv(Box, Answered, Reported, worker.turn, BusyCount)'
  <2>1. /\ Turns' = (Range(queue') \cup Answered' \cup lost' \cup {worker'.turn}) \ {Stop}
        /\ Stop \notin Answered' \cup lost'
        /\ lost' \cap (Answered' \cup {worker'.turn}) = {}
    BY <1>1, <1>2, <1>3, <1>4, <1>5
  <2>2. /\ \A n \in Range(queue') \ {Stop} :
             n \notin lost' /\ \A m \in Answered' \cup {worker'.turn} : m < n
        /\ DropOnOverflow => \A n \in Range(queue') \ {Stop} : \A m \in lost' : m < n
        /\ Reported' \subseteq lost'
        /\ DropOnOverflow => lost' \subseteq notices' \cup Reported'
    BY <1>1, <1>2, <1>3, <1>4, <1>5
  <2> QED
    BY <1>4, <1>5, <2>1, <2>2, BoxInvFrom
<1>8. WorkerInPhase'
  BY <1>1, <1>3, <1>4 DEF LiveInv, WorkerInPhase, At
<1>9. NothingIsForgotten'
  BY <1>1, <1>3 DEF LiveInv, NothingIsForgotten, Utterances, Opened, Said
<1>10. ShutdownIsIdle'
  <2>1. ASSUME unfinished = 0 PROVE Turns = Answered \cup lost
    <3>1. Len(queue) = 0 /\ BusyCount = 0
      BY <1>2, <1>3, <2>1
    <3>2. Range(queue) = {}
      BY <1>2, <3>1, EmptySeq, RangeOfPair
    <3> QED
      BY <1>2, <1>3, <3>1, <3>2
  <2> QED
    BY <1>1, <1>4, <2>1 DEF ShutdownIsIdle
<1> QED
  BY <1>4, <1>6, <1>7, <1>8, <1>9, <1>10 DEF LiveInv

LEMMA ReportingKeepsInv ==
  ASSUME LiveInv, WorkerStopped \/ WorkerTimesOut
  PROVE  LiveInv' /\ Answered' = Answered
<1>1. /\ phase = "stopping" /\ phase' = "closed" /\ notices = {}
      /\ outbox' = Append(outbox, Message("stats", None))
      /\ UNCHANGED <<flushed, heard, open, held, submitted, queue, lost, notices, timedOut>>
      /\ \/ /\ worker.at = "stopped" /\ UNCHANGED <<worker, unfinished>>
         \/ /\ worker' = [worker EXCEPT !.at = "cancelled"]
            /\ unfinished' = IF worker.at = "sending" THEN unfinished - 1 ELSE unfinished
  BY DEF WorkerStopped, WorkerTimesOut, Report, inputVars, boxVars, At
<1>2. /\ queue \in Seq(Nat) /\ Len(queue) \in Nat /\ Len(submitted) \in Nat
      /\ worker.turn \in Nat /\ unfinished \in Nat
      /\ Turns = (Range(queue) \cup Answered \cup lost \cup {worker.turn}) \ {Stop}
      /\ Stop \notin Answered \cup lost
      /\ lost \cap (Answered \cup {worker.turn}) = {}
      /\ \A n \in Range(queue) \ {Stop} :
           n \notin lost /\ \A m \in Answered \cup {worker.turn} : m < n
      /\ DropOnOverflow => \A n \in Range(queue) \ {Stop} : \A m \in lost : m < n
      /\ Reported \subseteq lost
      /\ DropOnOverflow => lost \subseteq notices \cup Reported
      /\ unfinished >= Len(queue) + BusyCount
  BY InvFacts
<1>3. /\ worker'.at \in {"stopped", "cancelled"} /\ worker'.turn = worker.turn
      /\ BusyCount' = 0 /\ ~Busy'
      /\ worker' \in [at : {"waiting", "decoding", "sending", "stopped", "cancelled"},
                      turn : Turns \cup {Stop}]
      /\ worker'.at = "stopped" => worker' = worker
  BY <1>1 DEF LiveInv, LiveTypeOK, BusyCount, Busy
<1>4. /\ outbox' \in Seq(Messages(Turns)) /\ Answered' = Answered /\ Reported' = Reported
  BY <1>1, TellingTypes DEF LiveInv, Types
<1>5. Turns' = Turns
  BY <1>1 DEF Turns
<1>6. unfinished' \in Nat /\ unfinished' >= Len(queue) + BusyCount'
  <2>1. BusyCount \in 0..1 /\ (worker.at = "sending" => BusyCount = 1)
    BY DEF BusyCount, Busy
  <2>2. CASE worker.at = "sending"
    <3>1. unfinished >= Len(queue) + 1 /\ worker.at # "stopped"
      BY <1>2, <2>1, <2>2
    <3>2. unfinished' = unfinished - 1
      BY <1>1, <2>2, <3>1
    <3> QED
      BY <1>2, <1>3, <3>1, <3>2
  <2>3. CASE worker.at # "sending"
    <3>1. unfinished' = unfinished
      BY <1>1, <2>3
    <3> QED
      BY <1>2, <1>3, <2>1, <3>1
  <2> QED
    BY <2>2, <2>3
<1>7. LiveTypeOK'
  BY <1>1, <1>3, <1>4, <1>5, <1>6 DEF LiveInv, LiveTypeOK, Messages, Types
<1>8. BoxInv(Box, Answered, Reported, worker.turn, BusyCount)'
  <2>1. \A i, j \in 1..Len(queue') :
          i < j => queue'[i] # Stop /\ (queue'[j] = Stop \/ queue'[i] < queue'[j])
    BY <1>1 DEF LiveInv, BoxInv, QueueInOrder, Box
  <2>2. /\ Turns' = (Range(queue') \cup Answered' \cup lost' \cup {worker'.turn}) \ {Stop}
        /\ Stop \notin Answered' \cup lost'
        /\ lost' \cap (Answered' \cup {worker'.turn}) = {}
    BY <1>1, <1>2, <1>3, <1>4, <1>5
  <2>3. /\ \A n \in Range(queue') \ {Stop} :
             n \notin lost' /\ \A m \in Answered' \cup {worker'.turn} : m < n
        /\ DropOnOverflow => \A n \in Range(queue') \ {Stop} : \A m \in lost' : m < n
        /\ Reported' \subseteq lost'
        /\ DropOnOverflow => lost' \subseteq notices' \cup Reported'
    BY <1>1, <1>2, <1>3, <1>4
  <2>4. unfinished' >= Len(queue') + BusyCount'
    BY <1>1, <1>6
  <2> QED
    BY <2>1, <2>2, <2>3, <2>4, BoxInvFrom
<1>9. WorkerInPhase'
  <2>1. worker'.at = "stopped" => worker.turn \in Answered \cup {Stop}
    BY <1>3 DEF LiveInv, WorkerInPhase, Busy, At
  <2> QED
    BY <1>1, <1>3, <1>4, <2>1 DEF WorkerInPhase, At
<1>10. NothingIsForgotten' /\ ShutdownIsIdle'
  BY <1>1, <1>4, <1>5 DEF LiveInv, NothingIsForgotten, ShutdownIsIdle, Utterances, Opened,
     Said
<1> QED
  BY <1>4, <1>7, <1>8, <1>9, <1>10 DEF LiveInv

LEMMA InitEstablishesLiveInv == LiveInit => LiveInv
<1> SUFFICES ASSUME LiveInit PROVE LiveInv
  OBVIOUS
<1>1. /\ phase = "receiving" /\ flushed = FALSE /\ heard = 0 /\ open = None
      /\ held = <<>> /\ submitted = <<>> /\ queue = <<>> /\ unfinished = 0
      /\ lost = {} /\ notices = {} /\ worker = [at |-> "waiting", turn |-> Stop]
      /\ outbox = <<>> /\ timedOut = FALSE
  BY DEF LiveInit
<1>2. /\ Turns = {} /\ Range(queue) = {} /\ Range(outbox) = {} /\ Answered = {}
      /\ Reported = {} /\ BusyCount = 0 /\ ~Busy
  BY <1>1, RangeOfPair DEF Turns, Answered, Reported, Told, BusyCount, Busy
<1>3. LiveTypeOK
  <2>1. /\ \A S : <<>> \in Seq(S)
        /\ Len(<<>>) = 0 /\ 0 <= 1 /\ 0 <= QueueSize /\ 0 \in 0..MaxHeard
    BY LiveAssumption
  <2>2. worker \in [at : {"waiting", "decoding", "sending", "stopped", "cancelled"},
                    turn : Turns \cup {Stop}]
    BY <1>1
  <2>3. /\ held \in Seq([path : {"raw"}, said : SUBSET (1..heard)])
        /\ submitted \in Seq([path : {"raw", "frame"}, said : SUBSET (1..heard)])
        /\ queue \in Seq(Turns \cup {Stop}) /\ Len(queue) <= QueueSize
        /\ outbox \in Seq([type : {"answer", "dropped", "stats"}, turn : Turns \cup {None}])
        /\ Len(held) <= 1
    BY <1>1, <2>1
  <2>4. heard \in 0..MaxHeard /\ open \in 0..heard /\ unfinished \in Nat
    BY <1>1, <2>1 DEF None
  <2>5. /\ phase \in {"receiving", "draining", "stopping", "closed", "failed"}
        /\ flushed \in BOOLEAN /\ timedOut \in BOOLEAN
        /\ lost \subseteq Turns /\ notices \subseteq lost
    BY <1>1
  <2> QED
    BY <2>2, <2>3, <2>4, <2>5 DEF LiveTypeOK
<1>4. BoxInv(Box, Answered, Reported, worker.turn, BusyCount)
  BY <1>1, <1>2 DEF Box, BoxInv, QueueInOrder, EachTurnIsSomewhere, WaitingAreNewest,
     TurnsIn, DropsAreNoticed, CountsUnfinished, Turns
<1>5. WorkerInPhase
  BY <1>1, <1>2 DEF WorkerInPhase, At
<1>6. NothingIsForgotten
  BY <1>1, SaidOfConcat DEF NothingIsForgotten, Utterances, Opened
<1>7. ShutdownIsIdle
  BY <1>1 DEF ShutdownIsIdle
<1> QED
  BY <1>3, <1>4, <1>5, <1>6, <1>7 DEF LiveInv

LEMMA LiveInvIsInductive ==
  ASSUME LiveInv, [LiveNext]_vars
  PROVE  LiveInv'
<1>1. CASE Receiver
  BY <1>1, ReceiverReceives, ReceivingKeepsInv, FailingKeepsInv
<1>2. CASE Worker
  BY <1>2, TakingKeepsInv, DecodingKeepsInv, SendingKeepsInv DEF Worker
<1>3. CASE SendNotice
  BY <1>3, NoticeKeepsInv
<1>4. CASE Shutdown
  BY <1>4, StoppingKeepsInv, ReportingKeepsInv DEF Shutdown
<1>5. CASE UNCHANGED vars
  <2>1. UNCHANGED <<phase, flushed, heard, open, held, submitted, queue, unfinished,
                    lost, notices, worker, outbox, timedOut>>
    BY <1>5 DEF vars, inputVars, boxVars
  <2>2. LiveTypeOK'
    BY <2>1 DEF LiveInv, LiveTypeOK, Turns
  <2>3. BoxInv(Box, Answered, Reported, worker.turn, BusyCount)'
    <3>1. /\ Box' = Box /\ Answered' = Answered /\ Reported' = Reported
          /\ BusyCount' = BusyCount /\ worker'.turn = worker.turn
      BY <2>1 DEF Box, Answered, Reported, Told, BusyCount, Busy
    <3> QED
      BY <3>1 DEF LiveInv
  <2>4. WorkerInPhase' /\ NothingIsForgotten' /\ ShutdownIsIdle'
    BY <2>1 DEF LiveInv, WorkerInPhase, NothingIsForgotten, ShutdownIsIdle, Utterances,
       Opened, Said, Answered, Told, At, Busy, Turns
  <2> QED
    BY <2>2, <2>3, <2>4 DEF LiveInv
<1> QED
  BY <1>1, <1>2, <1>3, <1>4, <1>5 DEF LiveNext, Over

LEMMA LiveInvHolds == LiveSpec => []LiveInv
BY InitEstablishesLiveInv, LiveInvIsInductive, PTL DEF LiveSpec

-----------------------------------------------------------------------------
(* The domain of every variable, for queues and sessions of any size. *)
THEOREM LiveTypeCorrect == LiveSpec => []LiveTypeOK
<1>1. LiveInv => LiveTypeOK
  BY DEF LiveInv
<1> QED
  BY <1>1, LiveInvHolds, PTL

(* The receiver hands everything it heard to _submit before it drains,      *)
(* through detector, coalescer, deadlines, flush and hang-up; what a flush  *)
(* finds open is the one exception.                                         *)
THEOREM NothingHeardIsForgotten == LiveSpec => []EveryUtteranceIsSubmitted
<1>1. LiveInv => EveryUtteranceIsSubmitted
  <2> SUFFICES ASSUME LiveInv, phase \in {"draining", "stopping", "closed"}
               PROVE  Utterances = (UNION {t.said : t \in Range(submitted)})
                        \cup (IF open = None THEN {} ELSE {open})
    BY DEF EveryUtteranceIsSubmitted
  <2>1. NothingIsForgotten /\ phase # "failed" /\ phase # "receiving"
    BY DEF LiveInv
  <2>2. Utterances = Said(submitted) \cup Opened
    BY <2>1, SaidOfConcat DEF NothingIsForgotten
  <2>3. Said(submitted) = UNION {t.said : t \in Range(submitted)}
    BY Zenon DEF Said
  <2>4. Opened = IF open = None THEN {} ELSE {open}
    BY Zenon DEF Opened
  <2> QED
    BY <2>2, <2>3, <2>4, Zenon
<1> QED
  BY <1>1, LiveInvHolds, PTL

(* queue.join() is a sound wait: with either overflow policy, a session that*)
(* closes without a timeout leaves no turn waiting or in work.              *)
THEOREM JoinWaitsForEveryTurn ==
  LiveSpec => [](phase = "closed" /\ ~timedOut => Turns = Answered \cup lost)
<1>1. LiveInv => (phase = "closed" /\ ~timedOut => Turns = Answered \cup lost)
  BY DEF LiveInv, ShutdownIsIdle
<1> QED
  BY <1>1, LiveInvHolds, PTL

(* When the oldest turn makes room, each turn that is dropped has a notice  *)
(* for the client.  (A turn that is refused has none.)                      *)
THEOREM OldestIsNotDroppedSilently ==
  ASSUME DropOnOverflow
  PROVE  LiveSpec => []DropsAreReported
<1>1. LiveInv => DropsAreReported
  BY InvFacts DEF DropsAreReported
<1> QED
  BY <1>1, LiveInvHolds, PTL

(* So the shutdown closes with every turn answered or reported.             *)
THEOREM ShutdownIsDecided ==
  ASSUME DropOnOverflow
  PROVE  LiveSpec => []ClosesAfterDeciding
<1>1. LiveInv => ClosesAfterDeciding
  <2> SUFFICES ASSUME LiveInv, phase = "closed", ~timedOut
               PROVE  Turns = Answered \cup Reported
    BY DEF ClosesAfterDeciding, Decided
  <2>1. Turns = Answered \cup lost /\ notices = {}
    BY DEF LiveInv, ShutdownIsIdle
  <2>2. lost \subseteq Reported
    BY <2>1, InvFacts
  <2>3. Reported \subseteq lost
    BY InvFacts
  <2> QED
    BY <2>1, <2>2, <2>3
<1> QED
  BY <1>1, LiveInvHolds, PTL

-----------------------------------------------------------------------------
(* A session that drops the oldest turn implements LossyFifo. *)

FateOver(N, L, A) ==
  [n \in 1..N |-> IF n \in L THEN "dropped"
                  ELSE IF n \in A THEN "answered" ELSE "pending"]

Fate == FateOver(Len(submitted), lost, Answered)

LEMMA FateIsSeq ==
  ASSUME NEW N \in Nat, NEW L, NEW A
  PROVE  /\ FateOver(N, L, A) \in Seq(Fifo!Fates) /\ Len(FateOver(N, L, A)) = N
         /\ \A n \in 1..N : FateOver(N, L, A)[n] =
              IF n \in L THEN "dropped" ELSE IF n \in A THEN "answered" ELSE "pending"
<1>1. FateOver(N, L, A) \in [1..N -> Fifo!Fates]
  BY DEF FateOver, Fifo!Fates
<1>2. FateOver(N, L, A) \in Seq(Fifo!Fates)
  BY <1>1, SeqDef
<1>3. Len(FateOver(N, L, A)) = N
  <2>1. DOMAIN FateOver(N, L, A) = 1..N
    BY DEF FateOver
  <2> QED
    BY <1>2, <2>1, LenProperties
<1> QED
  BY <1>2, <1>3 DEF FateOver

(* What LossyFifo says of a step that takes turns in *)
TakesTurns(f, g) ==
  /\ g \in Seq(Fifo!Fates) /\ Len(g) > Len(f)
  /\ \A n \in 1..Len(f) :
       \/ g[n] = f[n]
       \/ /\ f[n] = "pending" /\ g[n] = "dropped"
          /\ \A m, k \in 1..(n - 1) : g[m] = "pending" /\ g[k] = "pending" => m = k
  /\ \A n \in Len(f) + 1 .. Len(g) : g[n] \in {"pending", "dropped"}
  /\ g[Len(g)] = "pending"

LEMMA NewTurnsAreTakenIn ==
  ASSUME NEW N \in Nat, NEW M \in Nat, N < M, NEW w \in Nat,
         NEW A \in SUBSET (1..N), NEW K, NEW L, K \subseteq L, L \cap A = {},
         M \notin L,
         \A n \in L : n \in K \/ \A m \in 1..(n - 1) : m \in A \cup L \cup {w}
  PROVE  TakesTurns(FateOver(N, K, A), FateOver(M, L, A))
<1> DEFINE f == FateOver(N, K, A)
           g == FateOver(M, L, A)
<1>1. /\ Len(f) = N /\ g \in Seq(Fifo!Fates) /\ Len(g) = M
      /\ \A n \in 1..N : f[n] =
           IF n \in K THEN "dropped" ELSE IF n \in A THEN "answered" ELSE "pending"
      /\ \A n \in 1..M : g[n] =
           IF n \in L THEN "dropped" ELSE IF n \in A THEN "answered" ELSE "pending"
  BY FateIsSeq
<1> HIDE DEF f, g
<1>2. ASSUME NEW n \in 1..N, g[n] # f[n]
      PROVE  /\ f[n] = "pending" /\ g[n] = "dropped"
             /\ \A m, k \in 1..(n - 1) : g[m] = "pending" /\ g[k] = "pending" => m = k
  <2>1. n \in 1..M /\ 1..(n - 1) \subseteq 1..M
    OBVIOUS
  <2>2. n \in L \ K
    BY <1>1, <1>2, <2>1
  <2>3. f[n] = "pending" /\ g[n] = "dropped"
    BY <1>1, <2>1, <2>2
  <2>4. \A m \in 1..(n - 1) : g[m] = "pending" => m = w
    BY <1>1, <2>1, <2>2
  <2> QED
    BY <2>3, <2>4
<1>3. \A n \in N + 1 .. M : g[n] \in {"pending", "dropped"}
  <2> SUFFICES ASSUME NEW n \in N + 1 .. M
               PROVE  g[n] \in {"pending", "dropped"}
    OBVIOUS
  <2>1. n \in 1..M /\ n \notin A
    OBVIOUS
  <2> QED
    BY <1>1, <2>1
<1>4. g[M] = "pending"
  <2>1. M \in 1..M /\ M \notin A
    OBVIOUS
  <2> QED
    BY <1>1, <2>1
<1>5. Len(g) > Len(f)
  BY <1>1
<1> QED
  BY <1>1, <1>2, <1>3, <1>4, <1>5 DEF f, g, TakesTurns

LEMMA FateTakesIn ==
  ASSUME DropOnOverflow, LiveInv, NEW ready, Receives(ready), ready # <<>>
  PROVE  Fifo!TakeIn
<1> DEFINE N == Len(submitted)
           M == Len(submitted')
           w == worker.turn
<1>1. /\ phase = "receiving" /\ Submit(ready) /\ UNCHANGED <<worker, outbox>>
      /\ heard' \in heard..MaxHeard /\ heard \in 0..MaxHeard /\ MaxHeard \in Nat
      /\ ready \in Seq(Spoken(heard')) /\ Len(ready) \in 0..2
  BY LiveAssumption DEF Receives, LiveInv, LiveTypeOK
<1>2. /\ BoxInv(Box, Answered, Reported, worker.turn, BusyCount)'
      /\ Stop \notin Range(queue') /\ TookIn(ready)
  <2>1. heard' \in Nat /\ heard <= heard'
    BY <1>1
  <2> QED
    BY <1>1, <2>1, SubmitKeepsBox
<1>3. /\ N \in Nat /\ M = N + Len(ready) /\ lost \subseteq lost' /\ Answered' = Answered
      /\ w \in Nat /\ worker'.turn = w /\ Answered \subseteq 1..N
      /\ M \in Range(queue')
  BY <1>1, <1>2, AnsweredAreTurns DEF TookIn, Turns
<1>4. Len(ready) \in Nat /\ Len(ready) # 0
  BY <1>1, EmptySeq
<1>5. M \in Nat /\ N < M
  BY <1>3, <1>4
<1>6. /\ Box'.submitted = submitted' /\ Box'.queue = queue' /\ Box'.lost = lost'
  BY DEF Box
<1>7. /\ 1..M = (Range(queue') \cup Answered \cup lost' \cup {w}) \ {Stop}
      /\ lost' \cap Answered = {}
      /\ \A n \in Range(queue') : n \notin lost' /\ \A m \in lost' : m < n
  BY <1>2, <1>3, <1>6 DEF BoxInv, EachTurnIsSomewhere, WaitingAreNewest, TurnsIn
<1> HIDE DEF N, M, w
<1>8. lost' \subseteq 1..M
  <2>1. Stop \notin lost'
    BY <1>2, <1>6 DEF BoxInv, EachTurnIsSomewhere
  <2> QED
    BY <1>7, <2>1
<1>9. \A n \in lost' : \A m \in 1..(n - 1) : m \in Answered \cup lost' \cup {w}
  <2> SUFFICES ASSUME NEW n \in lost', NEW m \in 1..(n - 1)
               PROVE  m \in Answered \cup lost' \cup {w}
    OBVIOUS
  <2>1. n \in 1..M /\ m \in 1..M /\ m < n
    BY <1>5, <1>8
  <2>2. m \notin Range(queue')
    BY <1>7, <2>1
  <2> QED
    BY <1>7, <2>1, <2>2
<1>10. M \notin lost'
  BY <1>3, <1>7
<1>11. TakesTurns(FateOver(N, lost, Answered), FateOver(M, lost', Answered))
  <2>1. \A n \in lost' : n \in lost \/ \A m \in 1..(n - 1) : m \in Answered \cup lost' \cup {w}
    BY <1>9
  <2>2. Answered \in SUBSET (1..N) /\ lost \subseteq lost' /\ w \in Nat
    BY <1>3
  <2> QED
    BY <1>3, <1>5, <1>7, <1>10, <2>1, <2>2, NewTurnsAreTakenIn
<1>12. TakesTurns(Fate, Fate')
  BY <1>3, <1>11 DEF Fate, N, M
<1> QED
  BY <1>12, Zenon DEF Fifo!TakeIn, Fifo!OldestButOne, TakesTurns, Turns, Fate, FateOver

LEMMA FateAnswers ==
  ASSUME DropOnOverflow, LiveInv, WorkerSends
  PROVE  \E n \in 1..Len(Fate) :
           /\ Fate[n] = "pending" /\ \A m \in 1..(n - 1) : Fate[m] # "pending"
           /\ Fate' = [Fate EXCEPT ![n] = "answered"]
<1> DEFINE N == Len(submitted)
           w == worker.turn
           f == FateOver(N, lost, Answered)
           g == FateOver(N, lost, Answered \cup {w})
<1>1. /\ worker.at = "sending" /\ submitted' = submitted /\ lost' = lost
  BY DEF WorkerSends, At
<1>2. Answered' = Answered \cup {w}
  BY SendingKeepsInv
<1>3. /\ w \notin Answered \cup {Stop} /\ w \in 1..N /\ N \in Nat
  <2>1. w \notin Answered \cup {Stop}
    BY <1>1 DEF LiveInv, WorkerInPhase, Busy
  <2> QED
    BY <2>1, InvFacts DEF Turns
<1>4. /\ 1..N = (Range(queue) \cup Answered \cup lost \cup {w}) \ {Stop}
      /\ w \notin lost /\ \A n \in Range(queue) \ {Stop} : w < n
  BY InvFacts DEF Turns
<1> HIDE DEF N, w
<1>5. /\ Len(f) = N /\ f \in Seq(Fifo!Fates) /\ g \in Seq(Fifo!Fates) /\ Len(g) = N
      /\ \A n \in 1..N : f[n] =
           IF n \in lost THEN "dropped" ELSE IF n \in Answered THEN "answered" ELSE "pending"
      /\ \A n \in 1..N : g[n] =
           IF n \in lost THEN "dropped"
           ELSE IF n \in Answered \cup {w} THEN "answered" ELSE "pending"
  BY <1>3, FateIsSeq
<1> HIDE DEF f, g
<1>6. f[w] = "pending"
  BY <1>3, <1>4, <1>5
<1>7. \A m \in 1..(w - 1) : f[m] # "pending"
  <2> SUFFICES ASSUME NEW m \in 1..(w - 1) PROVE f[m] # "pending"
    OBVIOUS
  <2>1. m \in 1..N /\ m < w /\ m \in Nat /\ w \in Nat /\ m # 0
    BY <1>3
  <2>2. m \notin Range(queue)
    BY <1>4, <2>1 DEF Stop, None
  <2>3. m \in lost \cup Answered
    BY <1>4, <2>1, <2>2
  <2> QED
    BY <1>5, <2>1, <2>3
<1>8. g = [f EXCEPT ![w] = "answered"]
  <2>1. f \in [1..N -> Fifo!Fates] /\ g \in [1..N -> Fifo!Fates]
    BY <1>5, LenProperties
  <2>2. \A n \in 1..N : g[n] = IF n = w THEN "answered" ELSE f[n]
    BY <1>4, <1>5
  <2> QED
    BY <2>1, <2>2
<1>9. Fate = f /\ Fate' = g
  BY <1>1, <1>2 DEF Fate, f, g, N
<1>10. /\ Fate[w] = "pending" /\ \A m \in 1..(w - 1) : Fate[m] # "pending"
       /\ Fate' = [Fate EXCEPT ![w] = "answered"]
  BY <1>6, <1>7, <1>8, <1>9
<1>11. w \in 1..Len(Fate)
  BY <1>3, <1>5, <1>9
<1> QED
  BY <1>10, <1>11, Zenon

(* A session whose policy drops the oldest turn answers its turns in the    *)
(* order they were submitted, each once, and gives up only older ones for   *)
(* newer, whatever the receiver, the worker, the notices and the shutdown do.*)
THEOREM SessionIsLossyFifo ==
  ASSUME DropOnOverflow
  PROVE  LiveSpec => KeepsFifo
<1>1. LiveInit => Fifo!FifoInit
  <2> SUFFICES ASSUME LiveInit PROVE Fifo!FifoInit
    OBVIOUS
  <2>1. Len(submitted) = 0
    BY DEF LiveInit
  <2>2. Fate \in Seq(Fifo!Fates) /\ Len(Fate) = 0
    BY <2>1, FateIsSeq DEF Fate
  <2>3. Fate = <<>>
    BY <2>2, EmptySeq
  <2> QED
    BY <2>3, Zenon DEF Fifo!FifoInit, Fate, FateOver, Turns
<1>2. ASSUME LiveInv, [LiveNext]_vars
      PROVE  Fifo!FifoNext \/ Fate' = Fate
  <2>1. ASSUME submitted' = submitted, lost' = lost, Answered' = Answered
        PROVE  Fate' = Fate
    BY <2>1 DEF Fate
  <2>2. CASE Receiver
    <3>1. CASE ReceiverFails
      <4>1. UNCHANGED <<submitted, lost, outbox>>
        BY <3>1 DEF ReceiverFails, boxVars
      <4> QED
        BY <2>1, <4>1 DEF Answered, Told
    <3>2. CASE ~ReceiverFails
      <4>1. PICK ready : Receives(ready)
        BY <2>2, <3>2, <1>2, ReceiverReceives
      <4>2. CASE ready = <<>>
        <5>1. Submit(<<>>) /\ outbox' = outbox
          BY <4>1, <4>2 DEF Receives
        <5>2. PutBoth(Box, <<>>) = Box
          BY DEF PutBoth
        <5>3. submitted' = submitted /\ lost' = lost
          BY <5>1, <5>2 DEF Submit, Box
        <5> QED
          BY <2>1, <5>1, <5>3 DEF Answered, Told
      <4>3. CASE ready # <<>>
        BY <1>2, <4>1, <4>3, FateTakesIn DEF Fifo!FifoNext
      <4> QED
        BY <4>2, <4>3
    <3> QED
      BY <3>1, <3>2
  <2>3. CASE WorkerTakes \/ Decoded \/ UNCHANGED vars
    <3>1. UNCHANGED <<submitted, lost, outbox>>
      BY <2>3 DEF WorkerTakes, Decoded, vars, boxVars
    <3> QED
      BY <2>1, <3>1 DEF Answered, Told
  <2>4. CASE WorkerSends
    <3>1. \E n \in 1..Len(Fate) :
            /\ Fate[n] = "pending" /\ \A m \in 1..(n - 1) : Fate[m] # "pending"
            /\ Fate' = [Fate EXCEPT ![n] = "answered"]
      BY <1>2, <2>4, FateAnswers
    <3>2. Fifo!FifoNext
      BY <3>1, Zenon DEF Fifo!FifoNext, Fifo!Answer, Fate, FateOver, Turns
    <3> QED
      BY <3>2
  <2>5. CASE SendNotice
    <3>1. submitted' = submitted /\ lost' = lost
      BY <2>5 DEF SendNotice
    <3> QED
      BY <1>2, <2>1, <2>5, <3>1, NoticeKeepsInv
  <2>6. CASE Shutdown
    <3>1. submitted' = submitted /\ lost' = lost
      BY <2>6 DEF Shutdown, JoinReturns, JoinTimesOut, WorkerStopped, WorkerTimesOut,
         boxVars
    <3> QED
      BY <1>2, <2>1, <2>6, <3>1, StoppingKeepsInv, ReportingKeepsInv DEF Shutdown
  <2> QED
    BY <1>2, <2>2, <2>3, <2>4, <2>5, <2>6 DEF LiveNext, Worker, Over
<1>3. ASSUME LiveInv, [LiveNext]_vars
      PROVE  Fifo!FifoNext \/ UNCHANGED [n \in Turns |->
               IF n \in lost THEN "dropped"
               ELSE IF n \in Answered THEN "answered" ELSE "pending"]
  <2>1. Fate' = Fate => UNCHANGED [n \in Turns |->
               IF n \in lost THEN "dropped"
               ELSE IF n \in Answered THEN "answered" ELSE "pending"]
    BY Zenon DEF Fate, FateOver, Turns
  <2> QED
    BY <1>2, <1>3, <2>1
<1> QED
  BY <1>1, <1>3, LiveInvHolds, PTL DEF LiveSpec, KeepsFifo, Fifo!FifoSpec
=============================================================================

------------------------------ MODULE LossyFifo ------------------------------
(***************************************************************************)
(* What a live session promises for the turns it takes in, in the order it *)
(* takes them in: each is decided at most once, they are answered in that  *)
(* order, and a turn is given up only for newer ones: the oldest goes, but *)
(* for the one that is being transcribed, and never the newest.            *)
(***************************************************************************)
EXTENDS Naturals, Sequences

VARIABLE fate           \* fate[n]: what became of the n-th turn

Fates == {"pending", "answered", "dropped"}

FifoInit == fate = <<>>

\* At most one older turn is still pending.
OldestButOne(n) ==
  \A m, k \in 1..(n - 1) : fate'[m] = "pending" /\ fate'[k] = "pending" => m = k

\* New turns are taken in; to make room the session may give up the oldest ones,
\* but for the one that is being transcribed.
TakeIn ==
  /\ fate' \in Seq(Fates)
  /\ Len(fate') > Len(fate)
  /\ \A n \in 1..Len(fate) :
       \/ fate'[n] = fate[n]
       \/ /\ fate[n] = "pending" /\ fate'[n] = "dropped"
          /\ OldestButOne(n)
  /\ \A n \in Len(fate) + 1 .. Len(fate') : fate'[n] \in {"pending", "dropped"}
  /\ fate'[Len(fate')] = "pending"

\* The oldest pending turn is answered.
Answer(n) ==
  /\ fate[n] = "pending"
  /\ \A m \in 1..(n - 1) : fate[m] # "pending"
  /\ fate' = [fate EXCEPT ![n] = "answered"]

FifoNext == TakeIn \/ \E n \in 1..Len(fate) : Answer(n)

FifoSpec == FifoInit /\ [][FifoNext]_fate
=============================================================================

----------------------------- MODULE SerialJobs -----------------------------
(***************************************************************************)
(* What the upload service promises (docs/lessons/api-sse-and-auth.md,     *)
(* lessons 25 and 38): one job at a time, a log of that job's own events,  *)
(* and one verdict, which closes the log and frees the server.             *)
(***************************************************************************)
EXTENDS Sequences

CONSTANTS Jobs, NoJob, Stages, Phases

VARIABLES current, verdict, log

serialVars == <<current, verdict, log>>

Final == Stages \ {"progress"}

(* What job j says while it runs, and what it ends with *)
Report(j) == [by : {j}, stage : {"progress"}, phase : Phases]
Result(j, v) == [by |-> j, stage |-> v, phase |-> "none"]

Begin(j) ==
    /\ current = NoJob
    /\ verdict[j] = "new"
    /\ current' = j
    /\ verdict' = [verdict EXCEPT ![j] = "running"]
    /\ UNCHANGED log

Progress(j) ==
    /\ current = j
    /\ \E e \in Report(j) : log' = [log EXCEPT ![j] = Append(@, e)]
    /\ UNCHANGED <<current, verdict>>

End(j, v) ==
    /\ current = j
    /\ current' = NoJob
    /\ verdict' = [verdict EXCEPT ![j] = v]
    /\ log' = [log EXCEPT ![j] = Append(@, Result(j, v))]

Init ==
    /\ current = NoJob
    /\ verdict = [j \in Jobs |-> "new"]
    /\ log = [j \in Jobs |-> <<>>]

Next == \E j \in Jobs : \/ Begin(j)
                        \/ Progress(j)
                        \/ \E v \in Final : End(j, v)

(* A job that has begun ends. *)
Fairness == \A j \in Jobs : WF_serialVars(\E v \in Final : End(j, v))

Spec == Init /\ [][Next]_serialVars /\ Fairness
=============================================================================

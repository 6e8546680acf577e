-------------------------- MODULE VoiceprintRebuild --------------------------
(***************************************************************************)
(* The startup audit and the repairs it queues: asr_mcp/voiceprint/audit.py *)
(* and rebuild.py, rebuild_profile_from_scratch in service.py, and the      *)
(* monitor of asr_mcp/server.py that drains the queue in a pool thread.     *)
(* The queue is a file, the repair is lost with the process.                *)
(***************************************************************************)
EXTENDS VoiceprintStore

CONSTANTS
    Stock,        \* the store at the start
    MaxAttempts,  \* MAX_ATTEMPTS
    MaxDone,      \* MAX_DONE
    DeadCap,      \* DEAD_SNIPPET_CAP
    Ttl,          \* settings.model_ttl_minutes is not 0
    Acts,         \* bound: what users and the world do to the library
    Crashes       \* bound: processes that end in the middle of a repair

(* What a library is at the start of a server is what the service made it.  *)
ASSUME RebuildAssumption ==
    /\ WellKept(Stock)
    /\ MaxAttempts \in Nat \ {0} /\ Ttl \in BOOLEAN
    /\ {MaxDone, DeadCap, Acts, Crashes} \subseteq Nat

VARIABLES
    lib,       \* the store
    session,   \* an embedding session is loaded
    entries,   \* [Speakers -> the entry queued for a speaker, or None]
    done,      \* fingerprints of findings that were dealt with, the latest last
    monitor,   \* the monitor task exists in this process
    repair,    \* the pass of run_pending at work, or None
    listed,    \* the rows it has still to look for on disk, as they were listed
    dead,      \* the ids of those it did not find
    moved,     \* history: those of them whose file was moved meanwhile
    busy,      \* a job is running
    bounds     \* what is left of the bounds

queueVars == <<entries, done, monitor>>
purgeVars == <<listed, dead, moved>>
rebuildVars == <<lib, session, queueVars, repair, purgeVars, busy, bounds>>

Findings == {"no_profile", "no_snippets", "missing_files"}
Entry == [reasons : (SUBSET Findings) \ {{}}, attempts : 0 .. MaxAttempts - 1]
Fingerprint == Speakers \X (SUBSET Findings)

(* A pass works on what it read from the file: `todo` are the speakers     *)
(* still to try, `left` the entries it will write back and `marks` the      *)
(* fingerprints it will add; then the speaker being rebuilt.                *)
Pass == [todo : SUBSET Speakers, left : [Speakers -> Entry \cup {None}],
         marks : Seq(Fingerprint), name : Speakers \cup {None},
         pending : BOOLEAN, clips : SUBSET Clip,
         stage : {"load", "next", "list", "look", "purge", "drop", "clear",
                  "refine", "save", "check", "flag"}]

RebuildTypeOK ==
    /\ IsStore(lib)
    /\ {session, monitor, busy} \subseteq BOOLEAN
    /\ entries \in [Speakers -> Entry \cup {None}]
    /\ done \in Seq(Fingerprint)
    /\ repair = None \/ repair \in Pass
    /\ listed \subseteq [id : Nat, path : Path] /\ {dead, moved} \subseteq SUBSET Nat
    /\ bounds \in [acts : 0 .. Acts, crashes : 0 .. Crashes]

NoEntries == [n \in Speakers |-> None]

----------------------------------------------------------------------------
(* Starting the server *)

(* Mutant of Requeue: a finding that was dealt with is queued again. *)
RequeueAnyway(n, reasons) == reasons # {}

(* enqueue_from_reports: a finding the audit can act on, not yet dealt with *)
Requeue(n, reasons) == reasons # {} /\ <<n, reasons>> \notin ToSet(done)

Enqueued(st, missing) ==
    [n \in Speakers |->
        LET reasons == Reasons(st, n, missing)
        IN  IF ~Requeue(n, reasons) THEN entries[n]
            ELSE IF entries[n] = None THEN [reasons |-> reasons, attempts |-> 0]
            ELSE [entries[n] EXCEPT !.reasons = @ \cup reasons]]

(* The lifespan: no session yet, an audit, and a monitor if models have a  *)
(* time to live or if the audit added an entry.                            *)
Boot ==
    /\ session' = FALSE
    /\ \E missing \in Listed(DeadRows(lib)) : entries' = Enqueued(lib, missing)
    /\ monitor' = (Ttl \/ \E n \in Speakers : entries[n] = None /\ entries'[n] # None)
    /\ repair' = None /\ busy' = FALSE
    /\ listed' = {} /\ dead' = {} /\ moved' = {}
    /\ UNCHANGED <<lib, done>>

Restart == repair = None /\ Boot /\ UNCHANGED bounds

Crash ==
    /\ repair # None /\ bounds.crashes > 0
    /\ bounds' = [bounds EXCEPT !.crashes = @ - 1]
    /\ Boot

----------------------------------------------------------------------------
(* A pass over the queue, in a pool thread *)

(* _drain_rebuild_queue, with no job running; nobody else writes the file.  *)
BeginPass ==
    /\ monitor /\ repair = None /\ ~busy /\ entries # NoEntries
    /\ repair' = [todo |-> {n \in Speakers : entries[n] # None}, left |-> entries,
                  marks |-> <<>>, name |-> None, pending |-> FALSE, clips |-> {},
                  stage |-> "load"]
    /\ UNCHANGED <<lib, session, queueVars, purgeVars, busy, bounds>>

Repairing(stage) == repair # None /\ repair.stage = stage

Step(stage) == Repairing(stage) /\ UNCHANGED <<queueVars, busy, bounds>>

(* ensure_diarize_ready *)
LoadModels ==
    /\ Step("load")
    /\ session' = TRUE
    /\ repair' = [repair EXCEPT !.stage = "next"]
    /\ UNCHANGED <<lib, purgeVars>>

LoadFails ==
    /\ Repairing("load") /\ bounds.acts > 0
    /\ bounds' = [bounds EXCEPT !.acts = @ - 1]
    /\ repair' = None
    /\ UNCHANGED <<lib, session, queueVars, purgeVars, busy>>

(* Outcomes for one entry: it is finished, kept as it is, or tried once    *)
(* more until it has been tried MAX_ATTEMPTS times.                        *)
Finished(p, n) ==
    [p EXCEPT !.stage = "next", !.name = None, !.clips = {},
              !.left[n] = None, !.marks = Append(@, <<n, p.left[n].reasons>>)]

Skipped(p) == [p EXCEPT !.stage = "next", !.name = None, !.clips = {}]

(* Mutant of Failed: the attempt is not counted. *)
FailedUncounted(p, n) == Skipped(p)

Failed(p, n) ==
    IF p.left[n].attempts + 1 >= MaxAttempts THEN Finished(p, n)
    ELSE [Skipped(p) EXCEPT !.left[n].attempts = @ + 1]

(* rebuild_profile_from_scratch: the flag is remembered first. *)
OpenEntry(n) ==
    /\ Step("next") /\ n \in repair.todo
    /\ repair' = [repair EXCEPT !.todo = @ \ {n}, !.name = n,
                                !.pending = Known(lib, n) /\ lib.profile[n].pending,
                                !.stage = "list"]
    /\ UNCHANGED <<lib, session, purgeVars>>

(* _purge_dead_snippet_rows: the rows are listed, ... *)
ListToPurge ==
    /\ Step("list")
    /\ listed' = {[id |-> r.id, path |-> r.path] : r \in RowsOf(lib, repair.name)}
    /\ dead' = {} /\ moved' = {}
    /\ repair' = [repair EXCEPT !.stage = "look"]
    /\ UNCHANGED <<lib, session>>

(* Mutant of Missing: a row is taken for dead whether or not it is. *)
MissingOrNot(l) == TRUE

Missing(l) == Dead(lib, l)

(* ... the file of each is looked for, ... *)
LookFor(l) ==
    /\ Step("look") /\ l \in listed
    /\ listed' = listed \ {l}
    /\ dead' = IF Missing(l) THEN dead \cup {l.id} ELSE dead
    /\ UNCHANGED <<lib, session, repair, moved>>

Looked ==
    /\ Step("look") /\ listed = {}
    /\ dead' \in UpTo(DeadCap, dead)
    /\ repair' = [repair EXCEPT !.stage = "purge"]
    /\ UNCHANGED <<lib, session, listed, moved>>

(* ... and what was not found is deleted by its id. *)
PurgeRow(i) ==
    /\ Step("purge") /\ i \in dead
    /\ lib' = DeleteRow(lib, i)
    /\ dead' = dead \ {i}
    /\ UNCHANGED <<session, repair, listed, moved>>

CountRows ==
    /\ Step("purge") /\ dead = {}
    /\ repair' = [repair EXCEPT !.stage = IF RowsOf(lib, repair.name) = {} THEN "drop" ELSE "clear"]
    /\ moved' = {}
    /\ UNCHANGED <<lib, session, listed, dead>>

(* With no snippet left the profile goes for good; with no session nothing  *)
(* was tried; else it goes before it is fitted again.                       *)
DropProfile ==
    /\ Step("drop")
    /\ lib' = DeleteProfile(lib, repair.name)
    /\ repair' = Finished(repair, repair.name)
    /\ UNCHANGED <<session, purgeVars>>

SkipEntry ==
    /\ Step("clear") /\ ~session
    /\ repair' = Skipped(repair)
    /\ UNCHANGED <<lib, session, purgeVars>>

ClearProfile ==
    /\ Step("clear") /\ session
    /\ lib' = DeleteProfile(lib, repair.name)
    /\ repair' = [repair EXCEPT !.stage = "refine"]
    /\ UNCHANGED <<session, purgeVars>>

(* _auto_refine: nothing happens without a session or without audio, ... *)
ReadAudio ==
    /\ Step("refine")
    /\ LET clips == Readable(lib, repair.name)
       IN  repair' = IF session /\ clips # {}
                     THEN [repair EXCEPT !.clips = clips, !.stage = "save"]
                     ELSE [repair EXCEPT !.stage = "check"]
    /\ UNCHANGED <<lib, session, purgeVars>>

(* ... nor if the session is gone before the last embedding. *)
SaveRebuilt ==
    /\ Step("save")
    /\ \/ lib' = Save(lib, repair.name, repair.clips)
       \/ ~session /\ lib' = lib
    /\ repair' = [repair EXCEPT !.stage = "check"]
    /\ UNCHANGED <<session, purgeVars>>

(* The profile is there again, ... *)
CheckRebuilt ==
    /\ Step("check")
    /\ repair' = IF ~Known(lib, repair.name) THEN Failed(repair, repair.name)
                 ELSE IF repair.pending THEN [repair EXCEPT !.stage = "flag"]
                 ELSE Finished(repair, repair.name)
    /\ UNCHANGED <<lib, session, purgeVars>>

(* ... and waits for its name again if it did. *)
FlagRebuilt ==
    /\ Step("flag")
    /\ lib' = SetPending(lib, repair.name, TRUE)
    /\ repair' = Finished(repair, repair.name)
    /\ UNCHANGED <<session, purgeVars>>

(* _prune_done: the latest of them *)
Pruned(s) == SubSeq(s, IF Len(s) > MaxDone THEN Len(s) - MaxDone + 1 ELSE 1, Len(s))

(* The file is written once, when every entry has been tried. *)
EndPass ==
    /\ Repairing("next") /\ repair.todo = {}
    /\ entries' = repair.left
    /\ done' = Pruned(done \o repair.marks)
    /\ repair' = None
    /\ UNCHANGED <<lib, session, monitor, purgeVars, busy, bounds>>

PassStep ==
    \/ LoadModels
    \/ \E n \in Speakers : OpenEntry(n)
    \/ ListToPurge \/ Looked \/ CountRows
    \/ \E l \in listed : LookFor(l)
    \/ \E i \in dead : PurgeRow(i)
    \/ DropProfile \/ SkipEntry \/ ClearProfile
    \/ ReadAudio \/ SaveRebuilt \/ CheckRebuilt \/ FlagRebuilt \/ EndPass

----------------------------------------------------------------------------
(* Meanwhile, on the event loop and on disk.  A pass is not a job and keeps  *)
(* nobody out.                                                               *)

(* The listed rows that another file is given to, by their ids *)
Removed(st) ==
    {i \in Ids(listed) \cup dead :
        \E r \in lib.rows, q \in st.rows : r.id = i /\ q.id = i /\ q.path # r.path}

Act(st, s) ==
    /\ bounds.acts > 0
    /\ bounds' = [bounds EXCEPT !.acts = @ - 1]
    /\ lib' = st /\ session' = s
    /\ moved' = moved \cup Removed(st)
    /\ UNCHANGED <<queueVars, repair, listed, dead, busy>>

(* What a user may ask for, as in VoiceprintLibrary *)
Asked ==
    \/ \E n \in Speakers, rec \in Recordings, s \in Spans, replace \in BOOLEAN :
            Act(AddSnippet(lib, n, rec, s, replace), TRUE)
    \/ \E n \in Speakers : Act(DeleteSpeaker(lib, n), session)
    \/ \E n \in Speakers : RowsOf(lib, n) # {} /\ Act(AutoRefine(lib, n, TRUE), TRUE)
    \/ \E r \in lib.rows : Act(DeleteSnippet(lib, r, session), session)
    \/ \E copies \in MayTake(Duplicates(lib)), missing \in MayTake(DeadRows(lib)), trim \in BOOLEAN :
            Act(CleanupIntegrity(lib, copies, missing, trim, TRUE), TRUE)
    \/ \E changed \in Rewritten(lib) : Act(Rescan(lib, changed, TRUE), TRUE)

Renaming ==
    \E a, b \in Speakers :
        \/ Exists(lib, a) /\ ~Exists(lib, b) /\ Act(RenameSpeaker(lib, a, b), TRUE)
        \/ RowsOf(lib, b) # {} /\ Act(MergeSpeakers(lib, a, b, TRUE), TRUE)
        \/ /\ Exists(lib, a) /\ IsPendingProfile(lib, a) /\ (a = b \/ ~Exists(lib, b))
           /\ Act(ConfirmPending(lib, a, b, TRUE), TRUE)

Trouble ==
    \/ \E p \in DOMAIN lib.disk : Act([lib EXCEPT !.disk = Unlink(@, {p})], session)
    \/ Act(lib, FALSE)

JobStarts ==
    /\ ~busy /\ bounds.acts > 0
    /\ bounds' = [bounds EXCEPT !.acts = @ - 1]
    /\ busy' = TRUE
    /\ UNCHANGED <<lib, session, queueVars, repair, purgeVars>>

JobEnds ==
    /\ busy /\ busy' = FALSE
    /\ UNCHANGED <<lib, session, queueVars, repair, purgeVars, bounds>>

----------------------------------------------------------------------------

RebuildInit ==
    /\ lib = Stock
    /\ session = FALSE
    /\ entries = NoEntries
    /\ done = <<>>
    /\ monitor = Ttl
    /\ repair = None
    /\ listed = {} /\ dead = {} /\ moved = {}
    /\ busy = FALSE
    /\ bounds = [acts |-> Acts, crashes |-> Crashes]

RebuildNext ==
    \/ Restart \/ Crash
    \/ BeginPass \/ PassStep \/ LoadFails
    \/ Asked \/ Renaming \/ Trouble
    \/ JobStarts \/ JobEnds

(* The monitor wakes every minute, a pool thread runs to its end, and every  *)
(* job ends (EveryJobEnds of UploadJobs).                                    *)
RebuildFairness ==
    WF_rebuildVars(BeginPass) /\ WF_rebuildVars(PassStep) /\ WF_rebuildVars(JobEnds)

RebuildSpec == RebuildInit /\ [][RebuildNext]_rebuildVars /\ RebuildFairness

----------------------------------------------------------------------------
(* Properties *)

(* The files that have both audio and a row *)
Heard(st) == {r.path : r \in st.rows} \cap DOMAIN st.disk

(* A repair loses no audio, whatever requests do between its steps: no file  *)
(* is touched, no row is made or altered, the profile it takes away is that  *)
(* of the speaker it is at, and a file that had a row has one still, unless  *)
(* a listed row was given another file since (_purge_dead_snippet_rows).     *)
RepairsLoseNoAudio ==
    [][PassStep =>
        /\ lib'.disk = lib.disk /\ lib'.rows \subseteq lib.rows
        /\ \A n \in Speakers : Known(lib, n) /\ ~Known(lib', n) => n = repair.name
        /\ \A p \in Heard(lib) \ Heard(lib') : \E r \in lib.rows : r.path = p /\ r.id \in moved]_rebuildVars

(* However often the server starts, repairs come to an end: an entry is     *)
(* tried a bounded number of times and a finding that a rebuild cannot      *)
(* clear is not queued at every start (why the queue has a DONE list).      *)
RepairsCease == <>[](repair = None)

(* The queue empties, in whatever process: an entry that survived a restart *)
(* is tried once models can be loaded.                                      *)
QueueDrains == \A n \in Speakers : entries[n] # None ~> entries[n] = None

(* What _purge_dead_snippet_rows says of itself: it deletes rows whose audio *)
(* is gone.  A rename after the look leaves the id and moves the file.       *)
PurgesOnlyTheDead ==
    [][Repairing("purge") /\ PassStep => \A r \in lib.rows \ lib'.rows : Dead(lib, r)]_rebuildVars

(* What rebuild_profile_from_scratch says of the flag it re-applies: no     *)
(* rebuild makes a learned, unnamed profile matchable.                      *)
RebuildKeepsPending == repair = None => Matchable(lib) \cap Unnamed = {}

=============================================================================

-------------------------- MODULE VoiceprintLibrary --------------------------
(***************************************************************************)
(* The voiceprint library at work: what the event loop does for the user   *)
(* (asr_mcp/api/voiceprint_router.py), each request in one step, between   *)
(* the steps of the pool thread that collects from a recording, learns an  *)
(* unknown voice, consolidates or rescans (asr_mcp/voiceprint/service.py). *)
(***************************************************************************)
EXTENDS VoiceprintStore

CONSTANTS
    Stocked,    \* the store at the start
    Requests,   \* bound: what the user asks for
    Tasks,      \* bound: what the pool is given
    Mishaps     \* bound: files that disappear, sessions that come and go

(* The library at the start: every row has a file of its own. *)
ASSUME StockAssumption ==
    /\ WellKept(Stocked)
    /\ Shared(Stocked) = {} /\ \A r \in Stocked.rows : ~Dead(Stocked, r)

(* Spans of one file name start in the same second, and no clip is shorter  *)
(* than MIN_SNIPPET_DURATION: one begins before the other is over.          *)
ASSUME SlotAssumption ==
    \A a, b \in Spans : Slot[a] = Slot[b] => Start[b] < Start[a] + Length[a]

ASSUME LibraryAssumption == {Requests, Tasks, Mishaps} \subseteq Nat

VARIABLES
    store,      \* the store
    emb,        \* an embedding session is loaded
    task,       \* the pool thread's work, or None
    scan,       \* what a rescan listed and where in it the thread is
    budget,     \* what is left of the bounds
    lost        \* history: rows whose audio is accounted for elsewhere

libraryVars == <<store, emb, task, scan, budget, lost>>

(* A thread that cuts: the spans still to cut, the one whose audio is       *)
(* written and whose row is not, the rows cut so far, the ids of the        *)
(* previous take, and the clips read to be fitted.                          *)
Task == [kind : {"collect", "learn"}, name : Speakers, rec : Recordings,
         todo : SUBSET Spans, written : Spans \cup {None},
         fresh : SUBSET [id : Nat, path : Path],
         had : SUBSET Nat, clips : SUBSET Clip,
         stage : {"spans", "refine", "save", "flag"}]

(* A sweep over the library.  A rescan registers files, then decides which   *)
(* speakers to fit, then fits them; a consolidation writes what it scored.   *)
Rescanning == [kind : {"rescan"}, stage : {"list", "scan", "write", "row", "plan", "refine", "save"},
               changed : SUBSET Speakers, targets : SUBSET Speakers,
               name : Speakers \cup {None}, clips : SUBSET Clip]

Consolidating == [kind : {"consolidate"}, stage : {"mark", "fit"}, name : Speakers,
                  scored : SUBSET Nat, accused : SUBSET Nat, kept : SUBSET Clip]

(* The files that had rows when they were listed, the speakers or            *)
(* directories still to come, the directories that were there, the files of   *)
(* one still to come, and one that was read and has no row yet.              *)
Scan == [claimed : SUBSET Path, todo : SUBSET Speakers, found : SUBSET Speakers,
         files : SUBSET Path, held : [path : Path, clip : Clip] \cup {None}]

ASSUME TaskAssumption ==
    None \notin Task \cup Rescanning \cup Consolidating \cup [path : Path, clip : Clip]

LibraryTypeOK ==
    /\ IsStore(store)
    /\ emb \in BOOLEAN
    /\ task = None \/ task \in Task \cup Rescanning \cup Consolidating
    /\ scan \in Scan
    /\ budget \in [requests : 0 .. Requests, tasks : 0 .. Tasks, mishaps : 0 .. Mishaps]
    /\ lost \subseteq Nat

----------------------------------------------------------------------------
(* Accounting *)

Spend(b) == budget[b] > 0 /\ budget' = [budget EXCEPT ![b] = @ - 1]

IsPending(st, n) == Known(st, n) /\ st.profile[n].pending

Become(st) == store' = st
Noting(ids) == lost' = lost \cup ids

----------------------------------------------------------------------------
(* Requests, on the event loop *)

(* Most of them load the session first (ensure_gpu). *)
Request(st) ==
    /\ Spend("requests")
    /\ Become(st)
    /\ Noting(Shared(store) \cup Shared(st))
    /\ UNCHANGED <<task, scan>>

LoadedRequest(st) == Request(st) /\ emb' = TRUE

Upload(n, rec, s, replace) == LoadedRequest(AddSnippet(store, n, rec, s, replace))

UploadTooShort(n) == LoadedRequest(AddTooShort(store, n))

DropOne(r) == Request(DeleteSnippet(store, r, emb)) /\ UNCHANGED emb

DropSpeaker(n) == Request(DeleteSpeaker(store, n)) /\ UNCHANGED emb

Rename(a, b) ==
    /\ a # b /\ ~Exists(store, b) /\ Exists(store, a)
    /\ LoadedRequest(RenameSpeaker(store, a, b))

Merge(into, n) ==
    /\ RowsOf(store, n) # {}
    /\ LoadedRequest(MergeSpeakers(store, into, n, TRUE))

MergePending(n, into) ==
    /\ n # into /\ Exists(store, into) /\ IsPendingProfile(store, n)
    /\ Merge(into, n)

(* The rows that a confirm leaves without audio are those it points at a      *)
(* directory the files were not moved to, and those that had none before.     *)
Confirm(a, b) ==
    /\ Exists(store, a) /\ IsPendingProfile(store, a)
    /\ a = b \/ ~Exists(store, b)
    /\ Spend("requests")
    /\ Become(ConfirmPending(store, a, b, TRUE))
    /\ emb' = TRUE
    /\ Noting(IF \/ a # b /\ b \in store.dirs
                 \/ Ids(RowsOf(store, a)) \cap (lost \cup Shared(store)) # {}
              THEN Ids(RowsOf(store', b)) ELSE {})
    /\ UNCHANGED <<task, scan>>

Refine(n) ==
    /\ RowsOf(store, n) # {}
    /\ LoadedRequest(AutoRefine(store, n, TRUE))

Cleanup(copies, dead, trim) ==
    LoadedRequest(CleanupIntegrity(store, copies, dead, trim, TRUE))

Keep(n) == Request(KeepFlagged(store, n)) /\ UNCHANGED emb

DropFlagged(n) == LoadedRequest(RemoveFlagged(store, n, TRUE))

(* The rescan that is not streamed runs on the loop. *)
RescanNow(changed) == LoadedRequest(Rescan(store, changed, TRUE))

UserAct ==
    \/ \E n \in Speakers, rec \in Recordings, s \in Spans, replace \in BOOLEAN :
            Upload(n, rec, s, replace)
    \/ \E n \in Speakers : UploadTooShort(n) \/ DropSpeaker(n) \/ Refine(n)
                           \/ Keep(n) \/ DropFlagged(n)
    \/ \E r \in store.rows : DropOne(r)
    \/ \E a, b \in Speakers : Rename(a, b) \/ Merge(a, b) \/ MergePending(a, b) \/ Confirm(a, b)
    \/ \E copies \in MayTake(Duplicates(store)), dead \in MayTake(DeadRows(store)), trim \in BOOLEAN :
            Cleanup(copies, dead, trim)
    \/ \E changed \in Rewritten(store) : RescanNow(changed)

----------------------------------------------------------------------------
(* The pool thread.  A user has one job at a time (job_state), so one      *)
(* collection, consolidation or streamed rescan is at work.                *)

Begin(new) ==
    /\ task = None
    /\ Spend("tasks")
    /\ task' = new
    /\ UNCHANGED <<store, lost>>

(* The turns of one speaker in one recording that are long enough: two or   *)
(* more, none overlapping                                                    *)
Turns ==
    {T \in SUBSET {s \in Spans : Length[s] >= Floor} :
        /\ Cardinality(T) >= 2
        /\ \A a, b \in T : a # b => \/ Start[a] + Length[a] <= Start[b]
                                    \/ Start[b] + Length[b] <= Start[a]}

BeginCutting(kind, n, rec, todo) ==
    /\ Begin([kind |-> kind, name |-> n, rec |-> rec, todo |-> todo, written |-> None,
              fresh |-> {}, had |-> Ids(SourceRows(store, n, rec)), clips |-> {},
              stage |-> "spans"])
    /\ UNCHANGED <<scan, emb>>

(* auto_collect_from_diarization, for one registered speaker of a recording *)
BeginCollect(n, rec, todo) ==
    /\ n \in Named /\ Known(store, n)
    /\ BeginCutting("collect", n, rec, todo)

(* _learn_unknown_speaker, after the cohesion check: a pending profile is  *)
(* extended, or a name that has neither rows nor a directory is made up.   *)
BeginLearn(n, rec, todo) ==
    /\ \/ Exists(store, n) /\ IsPendingProfile(store, n)
       \/ n \in Unnamed /\ ~Exists(store, n) /\ n \notin store.dirs
    /\ BeginCutting("learn", n, rec, todo)

At(stage) == task # None /\ task.stage = stage

Cutting(stage) == At(stage) /\ task.kind \in {"collect", "learn"}

ToCut(s) == Cutting("spans") /\ task.written = None /\ s \in task.todo

(* A span not cut: too short once trimmed, or its speaker is at the cap, or *)
(* one as long was cut at that start before.                               *)
SkipSpan(s) ==
    /\ ToCut(s)
    /\ task' = [task EXCEPT !.todo = @ \ {s}]
    /\ UNCHANGED <<store, scan, emb, budget, lost>>

(* Mutant of Within: the file's budget for a profile is not looked at. *)
WithinAnything(fresh) == TRUE

Within(fresh) == Cardinality(fresh) < PerSource

Cut(s, st) ==
    /\ Within(task.fresh)
    /\ Become(WriteAudio(st, task.name, task.rec, s))
    /\ task' = [task EXCEPT !.todo = @ \ {s}, !.written = s]
    /\ UNCHANGED <<scan, emb, budget, lost>>

(* A collected span: what was cut at that start, if shorter, goes first. *)
CollectSpan(s) ==
    /\ ToCut(s) /\ task.kind = "collect"
    /\ LET twins == FindDuplicate(store, task.name, task.rec, s)
       IN  \/ twins = {} /\ Cut(s, store)
           \/ \E r \in twins : Length[r.span] < Length[s] /\ Cut(s, DropSnippets(store, {r}))

LearnSpan(s) == ToCut(s) /\ task.kind = "learn" /\ Cut(s, store)

(* The row of what was written, although a rename may have moved the file. *)
AddSpanRow ==
    /\ Cutting("spans") /\ task.written # None
    /\ LET p == PathOf(task.name, task.rec, task.written)
       IN  /\ Become(AddRow(store, task.name, p, task.rec, task.written))
           /\ task' = [task EXCEPT !.written = None,
                                   !.fresh = @ \cup {[id |-> store.next, path |-> p]}]
           /\ Noting(IF p \in DOMAIN store.disk THEN {} ELSE {store.next})
    /\ UNCHANGED <<scan, emb, budget>>

(* Every span has been seen, or the file's budget for the profile is spent. *)
SpansDone ==
    /\ Cutting("spans") /\ task.written = None
    /\ task.todo = {} \/ ~Within(task.fresh)

(* The previous take goes. Learning stops here when it cut nothing. *)
Replace ==
    /\ SpansDone
    /\ task.kind = "learn" => task.fresh # {}
    /\ Become(ReplaceSource(store, task.name, task.rec, task.fresh))
    /\ task' = [task EXCEPT !.stage = "refine"]
    /\ Noting(Shared(store'))
    /\ UNCHANGED <<scan, emb, budget>>

LearnNothing ==
    /\ SpansDone /\ task.kind = "learn" /\ task.fresh = {}
    /\ task' = None
    /\ UNCHANGED <<store, scan, emb, budget, lost>>

(* A learner goes on to flag the profile, a rescan to its next speaker. *)
AfterRefine ==
    task' = CASE task.kind = "learn" -> [task EXCEPT !.stage = "flag"]
              [] task.kind = "rescan" -> [task EXCEPT !.stage = "plan"]
              [] OTHER -> None

(* _auto_refine in the thread: the audio is read and embedded ... *)
ReadSnippets ==
    /\ At("refine")
    /\ LET clips == Readable(store, task.name)
       IN  IF emb /\ clips # {}
           THEN task' = [task EXCEPT !.clips = clips, !.stage = "save"]
           ELSE AfterRefine
    /\ UNCHANGED <<store, scan, emb, budget, lost>>

(* ... and the profile is saved, under the name the thread was given; or   *)
(* the session went away under it and nothing is.                          *)
SaveProfile ==
    /\ At("save")
    /\ \/ Become(Save(store, task.name, task.clips))
       \/ ~emb /\ UNCHANGED store
    /\ AfterRefine
    /\ UNCHANGED <<scan, emb, budget, lost>>

FlagPending ==
    /\ Cutting("flag")
    /\ Become(SetPending(store, task.name, TRUE))
    /\ task' = None
    /\ UNCHANGED <<scan, emb, budget, lost>>

(* A consolidation of one speaker, from the clips it scored ... *)
BeginConsolidate(n, accused) ==
    /\ LET scored == {r \in RowsOf(store, n) : ~Dead(store, r)}
       IN  /\ scored # {} /\ accused \subseteq scored
           /\ Begin([kind |-> "consolidate", stage |-> "mark", name |-> n,
                     scored |-> Ids(scored), accused |-> Ids(accused),
                     kept |-> {store.disk[r.path] : r \in scored \ accused}])
    /\ emb' = TRUE /\ UNCHANGED scan

(* ... marks the rows, by their ids, ... *)
Mark ==
    /\ At("mark")
    /\ Become(MarkOutliers(store, task.scored, task.accused))
    /\ task' = IF task.accused = {} \/ task.kept = {} THEN None
               ELSE [task EXCEPT !.stage = "fit"]
    /\ UNCHANGED <<scan, emb, budget, lost>>

(* ... and fits the profile on the kept clips, if they are some, not all. *)
SaveKept ==
    /\ At("fit")
    /\ Become(Save(store, task.name, task.kept))
    /\ task' = None
    /\ UNCHANGED <<scan, emb, budget, lost>>

BeginTask ==
    \/ \E n \in Speakers, rec \in Recordings, todo \in Turns :
            BeginCollect(n, rec, todo) \/ BeginLearn(n, rec, todo)
    \/ \E n \in Speakers : \E accused \in SUBSET RowsOf(store, n) : BeginConsolidate(n, accused)

ThreadStep ==
    \/ \E s \in Spans : SkipSpan(s) \/ CollectSpan(s) \/ LearnSpan(s)
    \/ AddSpanRow \/ Replace \/ LearnNothing
    \/ ReadSnippets \/ SaveProfile \/ FlagPending
    \/ Mark \/ SaveKept

----------------------------------------------------------------------------
(* The streamed rescan, in the pool thread: rows are read once, and files    *)
(* are looked at, read, written again and given rows one by one.             *)

NoScan == [claimed |-> {}, todo |-> {}, found |-> {}, files |-> {}, held |-> None]

BeginRescan ==
    /\ Begin([kind |-> "rescan", stage |-> "list", changed |-> {}, targets |-> {},
              name |-> None, clips |-> {}])
    /\ scan' = [NoScan EXCEPT !.todo = {r.name : r \in store.rows}]
    /\ emb' = TRUE

Looking(stage) == At(stage) /\ task.kind = "rescan" /\ UNCHANGED <<emb, budget>>

(* What each speaker's rows claim *)
ListRows(n) ==
    /\ Looking("list") /\ n \in scan.todo
    /\ scan' = [scan EXCEPT !.todo = @ \ {n},
                            !.claimed = @ \cup {r.path : r \in RowsOf(store, n)}]
    /\ UNCHANGED <<store, task, lost>>

ListDirs ==
    /\ Looking("list") /\ scan.todo = {}
    /\ scan' = [scan EXCEPT !.todo = store.dirs]
    /\ task' = [task EXCEPT !.stage = "scan"]
    /\ UNCHANGED <<store, lost>>

OpenDir(n) ==
    /\ Looking("scan") /\ scan.files = {} /\ n \in scan.todo \cap store.dirs
    /\ scan' = [scan EXCEPT !.todo = @ \ {n}, !.found = @ \cup {n},
                            !.files = FilesOf(store.disk, n)]
    /\ UNCHANGED <<store, task, lost>>

(* A directory that is gone is passed over, or the rescan fails on it when    *)
(* it goes between the two looks at it.                                      *)
MissDir(n) ==
    /\ Looking("scan") /\ scan.files = {} /\ n \in scan.todo \ store.dirs
    /\ \/ scan' = [scan EXCEPT !.todo = @ \ {n}] /\ UNCHANGED task
       \/ scan' = NoScan /\ task' = None
    /\ UNCHANGED <<store, lost>>

(* A file as its row remembers it, one that is gone, or one that cannot be   *)
(* loaded or is too short                                                    *)
PassOver(p) ==
    /\ Looking("scan") /\ p \in scan.files
    /\ p \notin Loadable(store) \ scan.claimed
    /\ scan' = [scan EXCEPT !.files = @ \ {p}]
    /\ UNCHANGED <<store, task, lost>>

FindChanged(p) ==
    /\ Looking("scan") /\ p \in scan.files \cap scan.claimed
    /\ scan' = [scan EXCEPT !.files = @ \ {p}]
    /\ task' = [task EXCEPT !.changed = @ \cup {p.dir}]
    /\ UNCHANGED <<store, lost>>

LoadFile(p) ==
    /\ Looking("scan") /\ p \in scan.files \cap (Loadable(store) \ scan.claimed)
    /\ scan' = [scan EXCEPT !.files = @ \ {p},
                            !.held = [path |-> p, clip |-> store.disk[p]]]
    /\ task' = [task EXCEPT !.stage = "write"]
    /\ UNCHANGED <<store, lost>>

(* Written again under the same name, even if it was moved away meanwhile;   *)
(* nothing can be written in a directory that is gone.                       *)
WriteBack ==
    /\ Looking("write")
    /\ \/ /\ scan.held.path.dir \in store.dirs
          /\ Become([store EXCEPT !.disk = Write(@, scan.held.path, scan.held.clip)])
          /\ task' = [task EXCEPT !.stage = "row"]
          /\ UNCHANGED scan
       \/ /\ scan.held.path.dir \notin store.dirs
          /\ task' = [task EXCEPT !.stage = "scan"]
          /\ scan' = [scan EXCEPT !.held = None]
          /\ UNCHANGED store
    /\ UNCHANGED lost

(* The row is made although a request may have taken the file away, or have   *)
(* given it a row.                                                           *)
AdoptFile ==
    /\ Looking("row")
    /\ LET p == scan.held.path
       IN  /\ Become(AddRow(store, p.dir, p, None, scan.held.clip.span))
           /\ task' = [task EXCEPT !.stage = "scan", !.targets = @ \cup {p.dir}]
           /\ scan' = [scan EXCEPT !.held = None]
           /\ Noting(Shared(store') \cup (IF p \in DOMAIN store.disk THEN {} ELSE {store.next}))

PlanFits ==
    /\ Looking("scan") /\ scan.files = {} /\ scan.todo = {}
    /\ scan' = [scan EXCEPT !.todo = scan.found]
    /\ task' = [task EXCEPT !.stage = "plan", !.targets = @ \cup task.changed]
    /\ UNCHANGED <<store, lost>>

(* A speaker with snippets and no profile is to be fitted, too. *)
Plan(n) ==
    /\ Looking("plan") /\ n \in scan.todo
    /\ scan' = [scan EXCEPT !.todo = @ \ {n}]
    /\ task' = IF RowsOf(store, n) # {} /\ ~Known(store, n)
               THEN [task EXCEPT !.targets = @ \cup {n}] ELSE task
    /\ UNCHANGED <<store, lost>>

(* The profile of a changed speaker is dropped before it is fitted. *)
FitNext(n) ==
    /\ Looking("plan") /\ scan.todo = {} /\ n \in task.targets
    /\ Become(IF n \in task.changed THEN DeleteProfile(store, n) ELSE store)
    /\ task' = [task EXCEPT !.targets = @ \ {n}, !.name = n, !.stage = "refine"]
    /\ UNCHANGED <<scan, lost>>

EndRescan ==
    /\ Looking("plan") /\ scan.todo = {} /\ task.targets = {}
    /\ task' = None /\ scan' = NoScan
    /\ UNCHANGED <<store, lost>>

RescanStep ==
    \/ BeginRescan
    \/ \E n \in Speakers : ListRows(n) \/ OpenDir(n) \/ MissDir(n) \/ Plan(n) \/ FitNext(n)
    \/ \E p \in scan.files : PassOver(p) \/ FindChanged(p) \/ LoadFile(p)
    \/ ListDirs \/ WriteBack \/ AdoptFile \/ PlanFits \/ EndRescan

----------------------------------------------------------------------------
(* What the library does not decide *)

Vanish(p) ==
    /\ Spend("mishaps")
    /\ Become([store EXCEPT !.disk = Unlink(@, {p})])
    /\ Noting(Ids({r \in store.rows : r.path = p}))
    /\ UNCHANGED <<emb, task, scan>>

SessionComesOrGoes ==
    /\ Spend("mishaps")
    /\ emb' = ~emb
    /\ UNCHANGED <<store, task, scan, lost>>

Mishap == SessionComesOrGoes \/ \E p \in DOMAIN store.disk : Vanish(p)

----------------------------------------------------------------------------

LibraryInit ==
    /\ store = Stocked
    /\ emb \in BOOLEAN
    /\ task = None
    /\ scan = NoScan
    /\ budget = [requests |-> Requests, tasks |-> Tasks, mishaps |-> Mishaps]
    /\ lost = {}

LibraryNext ==
    \/ UserAct
    \/ BeginTask \/ ThreadStep \/ RescanStep
    \/ Mishap

LibrarySpec == LibraryInit /\ [][LibraryNext]_libraryVars

----------------------------------------------------------------------------
(* Properties *)

(* No row loses its audio, whatever threads and requests do at once         *)
(* (_drop_source_snippets before the write, replace_source_contribution     *)
(* after it): a row without audio is one whose file disappeared from        *)
(* outside, was the file of two rows, or was not moved by a confirm, or one *)
(* that was made after its file had been taken away again.                  *)
RowsHaveAudio == \A r \in store.rows : Dead(store, r) => r.id \in lost

(* What the last of these excuses: add_snippet and rescan_voices_dir write   *)
(* the audio and then the row, but in between a request may move the file.   *)
RowsAreMadeWithAudio ==
    [][AddSpanRow \/ AdoptFile => \A r \in store'.rows \ store.rows : ~Dead(store', r)]_libraryVars

(* The acts of the user that name a speaker as the one to lose its profile,  *)
(* some of its snippets or its name *)
ActOn(n) ==
    \/ DropSpeaker(n) \/ DropFlagged(n)
    \/ \E r \in RowsOf(store, n) : DropOne(r)
    \/ \E m \in Speakers : Rename(n, m) \/ Merge(m, n) \/ Confirm(n, m)

(* A rescan takes the speaker's files for changed. *)
Invalidated(n) ==
    \/ task # None /\ task.kind = "rescan" /\ n \in task.changed /\ FitNext(n)
    \/ \E changed \in Rewritten(store) : n \in changed /\ RescanNow(changed)

(* No refit, merge or sweep makes a profile that waits for its name one     *)
(* that voices are matched with, or takes it away (VoiceprintDB.save): it   *)
(* waits until its user acts on that very speaker, or until a rescan finds   *)
(* its files changed, by the service's own writes as well, and fits it anew.  *)
PromotionIsTheUsersAct ==
    [][\A n \in Speakers :
        IsPending(store, n) /\ ~IsPending(store', n) => ActOn(n) \/ Invalidated(n)]_libraryVars

(* A thread that cuts snippets for one speaker removes no row and no file   *)
(* but what that speaker has from that recording (find_duplicate and        *)
(* replace_source_contribution are scoped to both).                         *)
OthersKeepTheirAudio ==
    [][(task # None /\ task.kind \in {"collect", "learn"} /\ task' # task) =>
        LET own == SourceRows(store, task.name, task.rec)
        IN  /\ store.rows \ store'.rows \subseteq own
            /\ DOMAIN store.disk \ DOMAIN store'.disk \subseteq {r.path : r \in own}]_libraryVars

(* Once a reprocess has replaced a speaker's previous take, the speaker has *)
(* no more snippets from that file than the budget, all cut by this run.    *)
ReprocessReplaces ==
    [][Replace =>
        LET left == SourceRows(store', task.name, task.rec)
        IN  /\ Cardinality(left) <= PerSource
            /\ Ids(left) \subseteq {f.id : f \in task.fresh}]_libraryVars

(* What a comment in auto_collect_from_diarization says of collecting       *)
(* first: if every span was rejected, the old snippets are still there.     *)
NothingIsLost ==
    (Cutting("refine") /\ task.kind = "collect" /\ task.fresh = {})
    => task.had \subseteq Ids(store.rows)

(* What confirm_pending_profile's docstring says: the only route that        *)
(* promotes a pending profile.  A merge into itself and a rescan do, too.    *)
OnlyConfirmPromotes ==
    [][\A n \in Speakers :
        IsPending(store, n) /\ Known(store', n) /\ ~IsPending(store', n)
        => \E m \in Speakers : Confirm(n, m)]_libraryVars

(* What is_pending_profile's docstring says: a name beginning with Pending  *)
(* is not matchable, whether or not the profile's row is flagged.           *)
PendingNamesNeverMatch ==
    task = None => Matchable(store) \cap Unnamed = {}

=============================================================================

--------------------------- MODULE VoiceprintStore ---------------------------
(***************************************************************************)
(* One user's voiceprint store and what each operation of                  *)
(* asr_mcp/voiceprint/service.py and asr_mcp/db/manager.py does to it.     *)
(*                                                                         *)
(* A store is a record: the voiceprint rows, the snippet rows, the FLAC    *)
(* files and directories under voices/<user>, and the next snippet id.     *)
(* Each operation is a function from stores to stores, so that a handler   *)
(* is the composition of the calls it makes.  An embedding is the set of   *)
(* clips it was fitted on.                                                 *)
(***************************************************************************)
EXTENDS Integers, FiniteSets, SequencesExt

CONSTANTS
    Named,       \* names a user may give a speaker
    Unnamed,     \* names beginning with PENDING_PREFIX
    Recordings,  \* recordings, by the hash of their file's stem
    Spans,       \* spans a snippet can be cut at
    Start,       \* [Spans -> Nat], start_sec
    Length,      \* [Spans -> Nat], the duration
    Slot,        \* [Spans -> ...], the time and duration part of the file name
    Unloadable,  \* spans whose audio is too short, or corrupt, to be embedded
    PerSource,   \* AUTO_COLLECT_MAX_PER_SOURCE
    Floor,       \* AUTO_COLLECT_MIN_DURATION
    ReportCap,   \* findings of one kind that an audit lists
    None

Speakers == Named \cup Unnamed

Clip == [rec : Recordings, span : Spans]
Path == [dir : Speakers, rec : Recordings, slot : {Slot[s] : s \in Spans}]
Profile == [pending : BOOLEAN, fitted : SUBSET Clip]
Snippet == [id : Nat, name : Speakers, path : Path, span : Spans,
            source : Recordings \cup {None}, flagged : BOOLEAN]

ASSUME StoreAssumption ==
    /\ Named \cap Unnamed = {}
    /\ None \notin Speakers \cup Recordings \cup Spans \cup Profile
    /\ Start \in [Spans -> Nat] /\ Length \in [Spans -> Nat]
    /\ Spans = DOMAIN Slot /\ Unloadable \subseteq Spans
    /\ PerSource \in Nat \ {0} /\ {Floor, ReportCap} \subseteq Nat

IsStore(st) ==
    /\ st \in [profile : [Speakers -> Profile \cup {None}], rows : SUBSET Snippet,
              disk : [DOMAIN st.disk -> Clip], dirs : SUBSET Speakers, next : Nat]
    /\ DOMAIN st.disk \subseteq Path

Ids(R) == {r.id : r \in R}

(* Rows whose file is another row's file, too *)
Shared(st) == Ids({r \in st.rows : \E q \in st.rows : q # r /\ q.path = r.path})

(* What the service keeps true of a store, whoever works on it: a row's     *)
(* file is in its speaker's directory and named after its recording and     *)
(* span, a file is in a directory that exists, and no id is used twice.      *)
AtHome(st) ==
    \A r \in st.rows :
        /\ r.path.dir = r.name /\ r.path.slot = Slot[r.span]
        /\ r.source # None => r.source = r.path.rec

FilesInPlace(st) ==
    \A p \in DOMAIN st.disk : p.dir \in st.dirs /\ p.slot = Slot[st.disk[p].span]

IdsAreUsedOnce(st) ==
    /\ \A r \in st.rows : r.id < st.next
    /\ \A r, q \in st.rows : r.id = q.id => r = q

WellKept(st) ==
    /\ IsStore(st)
    /\ IsFiniteSet(st.rows) /\ IsFiniteSet(DOMAIN st.disk)
    /\ AtHome(st) /\ FilesInPlace(st) /\ IdsAreUsedOnce(st)

EmptyStore == [profile |-> [n \in Speakers |-> None], rows |-> {},
               disk |-> <<>>, dirs |-> {}, next |-> 1]

----------------------------------------------------------------------------
(* The files *)

Write(disk, p, c) == [q \in DOMAIN disk \cup {p} |-> IF q = p THEN c ELSE disk[q]]
Unlink(disk, P) == [q \in DOMAIN disk \ P |-> disk[q]]

FilesOf(disk, n) == {p \in DOMAIN disk : p.dir = n}

InDir(p, n) == [p EXCEPT !.dir = n]

(* Files P of a directory moved to another, replacing what they land on *)
Move(disk, P, a, b) ==
    LET moved == {InDir(p, b) : p \in P}
    IN  [q \in (DOMAIN disk \ P) \cup moved |->
            disk[IF q \in moved THEN InDir(q, a) ELSE q]]

MoveFiles(st, P, a, b) ==
    [st EXCEPT !.disk = Move(@, P, a, b), !.dirs = @ \cup {b}]

MoveDir(st, a, b) ==
    [MoveFiles(st, FilesOf(st.disk, a), a, b) EXCEPT !.dirs = @ \ {a}]

CleanupSpeakerDir(st, n) ==
    IF FilesOf(st.disk, n) # {} THEN st ELSE [st EXCEPT !.dirs = @ \ {n}]

----------------------------------------------------------------------------
(* The voiceprints table *)

Known(st, n) == st.profile[n] # None

(* Mutant of Save: the flag is reset instead of preserved. *)
SaveUnflagged(st, n, clips) ==
    [st EXCEPT !.profile[n] = [pending |-> FALSE, fitted |-> clips]]

(* save, with pending=None: an existing row keeps its flag, a new one is   *)
(* not pending.                                                            *)
Save(st, n, clips) ==
    [st EXCEPT !.profile[n] =
        [pending |-> Known(st, n) /\ st.profile[n].pending, fitted |-> clips]]

SetPending(st, n, flag) ==
    IF Known(st, n) THEN [st EXCEPT !.profile[n].pending = flag] ELSE st

DeleteProfile(st, n) == [st EXCEPT !.profile[n] = None]

(* rename: refused when the new name has a row *)
RenameProfile(st, a, b) ==
    IF ~Known(st, a) \/ Known(st, b) THEN st
    ELSE DeleteProfile([st EXCEPT !.profile[b] = st.profile[a]], a)

(* _load_known_speakers: what matching compares a voice with *)
Matchable(st) == {n \in Speakers : Known(st, n) /\ ~st.profile[n].pending}

IsPendingProfile(st, n) ==
    n \in Unnamed \/ (Known(st, n) /\ st.profile[n].pending)

----------------------------------------------------------------------------
(* The snippets table *)

RowsOf(st, n) == {r \in st.rows : r.name = n}

Exists(st, n) == Known(st, n) \/ RowsOf(st, n) # {}

(* _source_snippet_rows: by the recording's hash, which the file name keeps *)
SourceRows(st, n, rec) == {r \in RowsOf(st, n) : r.path.rec = rec}

(* Mutant of FindDuplicate: not scoped to the speaker. *)
FindDuplicateOfAny(st, n, rec, s) ==
    {r \in st.rows : r.source = rec /\ Start[r.span] = Start[s]}

FindDuplicate(st, n, rec, s) ==
    {r \in RowsOf(st, n) : r.source = rec /\ Start[r.span] = Start[s]}

AddRow(st, n, p, source, s) ==
    [st EXCEPT !.rows = @ \cup {[id |-> st.next, name |-> n, path |-> p, span |-> s,
                                 source |-> source, flagged |-> FALSE]},
               !.next = @ + 1]

(* _delete_snippet_row, for each of some rows: the row and its file *)
DropSnippets(st, R) ==
    [st EXCEPT !.rows = @ \ R, !.disk = Unlink(@, {r.path : r \in R})]

Dead(st, r) == r.path \notin DOMAIN st.disk

(* SnippetDB.delete: the row alone *)
DeleteRow(st, i) == [st EXCEPT !.rows = {r \in @ : r.id # i}]

(* Mutant of ReplaceSource: the fresh files are not kept. *)
ReplaceSourceUnlinking(st, n, rec, fresh) ==
    DropSnippets(st, {r \in SourceRows(st, n, rec) : \A f \in fresh : f.id # r.id})

(* replace_source_contribution: every other row of that file goes, and its *)
(* audio too unless a fresh row, [id, path], was written there.            *)
ReplaceSource(st, n, rec, fresh) ==
    LET stale == {r \in SourceRows(st, n, rec) : \A f \in fresh : f.id # r.id}
    IN  [st EXCEPT !.rows = @ \ stale,
                   !.disk = Unlink(@, {r.path : r \in stale} \ {f.path : f \in fresh})]

PathOf(n, rec, s) == [dir |-> n, rec |-> rec, slot |-> Slot[s]]

(* add_snippet without replace_source, for audio long enough: the file and *)
(* then its row                                                            *)
WriteAudio(st, n, rec, s) ==
    [st EXCEPT !.dirs = @ \cup {n},
               !.disk = Write(@, PathOf(n, rec, s), [rec |-> rec, span |-> s])]

WriteSnippet(st, n, rec, s) ==
    AddRow(WriteAudio(st, n, rec, s), n, PathOf(n, rec, s), rec, s)

(* add_snippet: with replace_source, what the file contributed goes first. *)
AddSnippet(st, n, rec, s, replace) ==
    WriteSnippet(IF replace THEN DropSnippets(st, SourceRows(st, n, rec)) ELSE st,
                 n, rec, s)

(* add_snippet's refusal of a clip that is too short leaves a directory.   *)
AddTooShort(st, n) == [st EXCEPT !.dirs = @ \cup {n}]

----------------------------------------------------------------------------
(* Fitting a profile; `emb` tells whether the embedding session is loaded. *)

(* _embed_snippets: the audio of the rows whose file can be read *)
Readable(st, n) ==
    {st.disk[r.path] : r \in {x \in RowsOf(st, n) : ~Dead(st, x) /\ x.span \notin Unloadable}}

(* _auto_refine: silent when there is no session or nothing to read *)
AutoRefine(st, n, emb) ==
    IF ~emb \/ Readable(st, n) = {} THEN st ELSE Save(st, n, Readable(st, n))

RefineAll(st, names, emb) ==
    [st EXCEPT !.profile = [n \in Speakers |->
        IF n \in names THEN AutoRefine(st, n, emb).profile[n] ELSE st.profile[n]]]

(* When the last snippet of a speaker went, so does the speaker. *)
RefineOrRemove(st, n, emb) ==
    IF RowsOf(st, n) = {} THEN CleanupSpeakerDir(DeleteProfile(st, n), n)
    ELSE AutoRefine(st, n, emb)

DeleteSnippet(st, r, emb) == RefineOrRemove(DropSnippets(st, {r}), r.name, emb)

DeleteSpeaker(st, n) ==
    CleanupSpeakerDir(DeleteProfile(DropSnippets(st, RowsOf(st, n)), n), n)

(* consolidate_speaker, for the ids it scored: a kept row's mark is cleared, *)
(* an accused one's is set.                                                 *)
MarkOutliers(st, scored, accused) ==
    [st EXCEPT !.rows =
        {IF r.id \in scored THEN [r EXCEPT !.flagged = r.id \in accused] ELSE r : r \in @}]

(* keep_flagged_speaker *)
KeepFlagged(st, n) ==
    [st EXCEPT !.rows = {IF r.name = n THEN [r EXCEPT !.flagged = FALSE] ELSE r : r \in @}]

(* remove_flagged_snippets, applied *)
RemoveFlagged(st, n, emb) ==
    LET accused == {r \in RowsOf(st, n) : r.flagged}
    IN  IF accused = {} THEN st
        ELSE RefineOrRemove(DropSnippets(st, accused), n, emb)

----------------------------------------------------------------------------
(* Names *)

Repoint(r, a, b) == IF r.path.dir = a THEN [r EXCEPT !.path = InDir(@, b)] ELSE r

(* rename_speaker, for a free name: the new voiceprint row is not pending, *)
(* and the directory is moved, or emptied into the one that is there.      *)
RenameSpeaker(st, a, b) ==
    LET rows == {IF r.name = a THEN Repoint([r EXCEPT !.name = b], a, b) ELSE r : r \in st.rows}
        moved == IF a \in st.dirs THEN MoveDir(st, a, b) ELSE st
        saved == IF Known(st, a)
                 THEN DeleteProfile(Save(moved, b, st.profile[a].fitted), a) ELSE moved
    IN  [saved EXCEPT !.rows = rows]

(* Rows deleted and added again under a name, in the order of their ids *)
AddAgain(st, R, n, path) ==
    LET id == [r \in R |-> st.next + Cardinality({q \in R : q.id < r.id})]
    IN  [st EXCEPT !.rows = (@ \ R) \cup
                     {[id |-> id[r], name |-> n, path |-> path[r], span |-> r.span,
                       source |-> r.source, flagged |-> FALSE] : r \in R},
                   !.next = @ + Cardinality(R)]

(* The rows merge_speakers moves, one after the other: a row whose file is  *)
(* gone, or went with a row before it, stays where it was.                  *)
Movable(st, into, n) ==
    {r \in RowsOf(st, n) :
        /\ ~Dead(st, r)
        /\ into = n \/ \A q \in RowsOf(st, n) : q.path = r.path => r.id <= q.id}

(* Their files go to the other directory, over those of the same name.      *)
MoveSnippets(st, R, into, n) ==
    AddAgain(MoveFiles(st, {r.path : r \in R}, n, into), R, into,
             [r \in R |-> InDir(r.path, into)])

MergeSpeakers(st, into, n, emb) ==
    LET moved == MoveSnippets(st, Movable(st, into, n), into, n)
    IN  AutoRefine(CleanupSpeakerDir(DeleteProfile(moved, n), n), into, emb)

(* _rename_snippet_dir: the rows are pointed at the new directory whether  *)
(* or not the old one could be moved there.                                *)
RenameSnippetDir(st, a, b) ==
    LET moved == IF a \in st.dirs /\ b \notin st.dirs THEN MoveDir(st, a, b) ELSE st
    IN  AddAgain(moved, RowsOf(st, a), b, [r \in RowsOf(st, a) |-> Repoint(r, a, b).path])

(* confirm_pending, for a pending profile and a name not taken *)
ConfirmPending(st, a, b, emb) ==
    AutoRefine(SetPending(RenameProfile(RenameSnippetDir(st, a, b), a, b), b, FALSE), b, emb)

----------------------------------------------------------------------------
(* The audit and the repairs a user may ask for *)

(* audit_user: of two rows of one speaker with the same bytes, the one with *)
(* the higher id                                                            *)
Duplicates(st) ==
    {r \in st.rows : \E q \in RowsOf(st, r.name) :
        /\ q.id < r.id /\ ~Dead(st, q) /\ ~Dead(st, r)
        /\ st.disk[q.path] = st.disk[r.path]}

DeadRows(st) == {r \in st.rows : Dead(st, r)}

(* All of a set, or as many of it as a cap lets through *)
UpTo(cap, R) == {T \in SUBSET R : Cardinality(T) <= cap /\ (T = R \/ Cardinality(T) = cap)}

(* What a report lists of what the audit found *)
Listed(R) == UpTo(ReportCap, R)

(* rank_snippet_rows: longest first, then earliest, then lowest id *)
Better(q, r) ==
    \/ Length[q.span] > Length[r.span]
    \/ Length[q.span] = Length[r.span] /\ Start[q.span] < Start[r.span]
    \/ q.span = r.span /\ q.id < r.id

(* plan_source_trim: what is too short to be kept, and what of the rest     *)
(* exceeds a file's budget in a profile                                     *)
OverBudget(st) ==
    {r \in st.rows :
        \/ Length[r.span] < Floor
        \/ LET kept == {q \in SourceRows(st, r.name, r.path.rec) :
                            Length[q.span] >= Floor /\ Better(q, r)}
           IN  Cardinality(kept) >= PerSource}

(* What of the listed a cleanup takes, or none: the request chooses.        *)
MayTake(R) == {{}} \cup Listed(R)

(* cleanup_integrity, applied: the copies and the dead rows of the report,  *)
(* which is taken before the first of them goes, and then the budget.       *)
CleanupIntegrity(st, copies, dead, trim, emb) ==
    LET swept == DropSnippets(st, copies \cup dead)
        excess == IF trim THEN OverBudget(swept) ELSE {}
        trimmed == DropSnippets(swept, excess)
        touched == {r.name : r \in st.rows \ trimmed.rows}
    IN  RefineAll(trimmed, touched, emb)

(* audit_user: the findings a rebuild can act on, when the report lists     *)
(* some of the dead rows                                                    *)
Reasons(st, n, dead) ==
    {k \in {"no_profile", "no_snippets", "missing_files"} :
        \/ k = "no_profile" /\ RowsOf(st, n) # {} /\ ~Known(st, n)
        \/ k = "no_snippets" /\ RowsOf(st, n) = {} /\ Known(st, n)
        \/ k = "missing_files" /\ \E r \in dead : r.name = n}

(* A row for each of some files, with what their directory says *)
Adopt(st, files) ==
    [st EXCEPT !.rows = @ \cup {[id |-> st.next + i - 1, name |-> files[i].dir,
                                 path |-> files[i], span |-> st.disk[files[i]].span,
                                 source |-> None, flagged |-> FALSE] : i \in DOMAIN files},
               !.next = @ + Len(files)]

(* load_audio, for a file that is long enough *)
Loadable(st) == {p \in DOMAIN st.disk : st.disk[p].span \notin Unloadable}

(* The speakers that a rescan may find changed: a file's time or size is not *)
(* what its row remembers, because somebody edited it or the service wrote   *)
(* it again.                                                                 *)
Rewritten(st) == SUBSET {p.dir : p \in {r.path : r \in st.rows} \cap DOMAIN st.disk}

(* rescan_voices_dir, uninterrupted: a row for each file that no row claims *)
(* and that can be loaded; then the profiles of speakers whose files changed *)
(* are dropped, and theirs, the new ones and the missing ones are fitted.    *)
Rescan(st, changed, emb) ==
    LET found == Loadable(st) \ {r.path : r \in st.rows}
        adopted == Adopt(st, SetToSeq(found))
        dropped == [adopted EXCEPT !.profile =
                        [n \in Speakers |-> IF n \in changed THEN None ELSE @[n]]]
    IN  RefineAll(dropped,
                  {p.dir : p \in found} \cup changed \cup
                  {n \in st.dirs : RowsOf(adopted, n) # {} /\ ~Known(st, n)},
                  emb)

=============================================================================

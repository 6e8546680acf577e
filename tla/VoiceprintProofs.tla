------------------------- MODULE VoiceprintProofs -------------------------
(***************************************************************************)
(* Proofs about the voiceprint store, the library at work and its repairs, *)
(* for any speakers, recordings, spans and stores at the start.            *)
(***************************************************************************)
EXTENDS VoiceprintLibrary, VoiceprintRebuild, FiniteSetTheorems,
        SequenceTheorems, TLAPS

(***************************************************************************)
(* What an operation does to the rows and their audio.  It leaves the store *)
(* well kept, a row is new or has kept the name of its file, and a row      *)
(* without its audio had none before or is among the noted ones.            *)
(***************************************************************************)
Evolves(st, new, noted) ==
    /\ WellKept(new) /\ st.next <= new.next
    /\ \A r \in new.rows :
          \/ st.next <= r.id
          \/ \E q \in st.rows : /\ q.id = r.id
                                /\ q.path.slot = r.path.slot /\ q.path.rec = r.path.rec
    /\ \A r \in new.rows :
          Dead(new, r) => r.id \in noted \/ \E q \in st.rows : q.id = r.id /\ Dead(st, q)

(* Only the profiles differ. *)
SameShelf(st, new) ==
    /\ IsStore(new)
    /\ new.rows = st.rows /\ new.disk = st.disk /\ new.dirs = st.dirs /\ new.next = st.next

(* A profile that waits for its name waits on, but for those of some speakers. *)
WaitOn(st, new, who) ==
    \A n \in Speakers \ who : IsPending(st, n) => IsPending(new, n)

(***************************************************************************)
(* Of the rows of a file, which a purge may have taken for dead one by one: *)
(* whoever still has a file there after an operation had it before, and so  *)
(* has every row of that file yet; or a new row has the file, too.          *)
(***************************************************************************)
KeepsFile(st, new, p) ==
    \/ \E q \in new.rows : st.next <= q.id /\ q.path = p
    \/ /\ p \in DOMAIN st.disk
       /\ \A q \in st.rows : q.path = p => \E y \in new.rows : y.id = q.id /\ y.path = p

KeepsFiles(st, new) ==
    \A r \in st.rows, x \in new.rows :
        r.id = x.id /\ r.path = x.path /\ ~Dead(new, x) => KeepsFile(st, new, x.path)

(* The same of an operation that alters no row, and therefore of several *)
Clear(st, new) ==
    /\ \A x \in new.rows : \/ st.next <= x.id
                          \/ \E r \in st.rows : r.id = x.id /\ r.path = x.path
    /\ \A x \in new.rows : x.id < st.next /\ ~Dead(new, x) => KeepsFile(st, new, x.path)

----------------------------------------------------------------------------
(* The parts of a store *)

LEMMA StoreFields ==
  ASSUME NEW st, IsStore(st)
  PROVE  /\ st = [profile |-> st.profile, rows |-> st.rows, disk |-> st.disk,
                  dirs |-> st.dirs, next |-> st.next]
         /\ st.profile \in [Speakers -> Profile \cup {None}]
         /\ st.rows \subseteq Snippet /\ st.dirs \subseteq Speakers /\ st.next \in Nat
         /\ st.disk \in [DOMAIN st.disk -> Clip] /\ DOMAIN st.disk \subseteq Path
BY DEF IsStore

LEMMA StoreOf ==
  ASSUME NEW st,
         st = [profile |-> st.profile, rows |-> st.rows, disk |-> st.disk,
               dirs |-> st.dirs, next |-> st.next],
         st.profile \in [Speakers -> Profile \cup {None}],
         st.rows \subseteq Snippet, st.dirs \subseteq Speakers, st.next \in Nat,
         st.disk \in [DOMAIN st.disk -> Clip], DOMAIN st.disk \subseteq Path
  PROVE  IsStore(st)
BY DEF IsStore

LEMMA SnippetFields ==
  ASSUME NEW r \in Snippet
  PROVE  /\ r = [id |-> r.id, name |-> r.name, path |-> r.path, span |-> r.span,
                 source |-> r.source, flagged |-> r.flagged]
         /\ r.id \in Nat /\ r.name \in Speakers /\ r.path \in Path /\ r.span \in Spans
         /\ r.source \in Recordings \cup {None} /\ r.flagged \in BOOLEAN
BY DEF Snippet

LEMMA PathFields ==
  ASSUME NEW p \in Path
  PROVE  /\ p = [dir |-> p.dir, rec |-> p.rec, slot |-> p.slot]
         /\ p.dir \in Speakers /\ p.rec \in Recordings
         /\ p.slot \in {Slot[s] : s \in Spans}
BY DEF Path

LEMMA InDirFields ==
  ASSUME NEW p \in Path, NEW n \in Speakers
  PROVE  /\ InDir(p, n) \in Path /\ InDir(p, n).dir = n
         /\ InDir(p, n).rec = p.rec /\ InDir(p, n).slot = p.slot
         /\ InDir(InDir(p, n), p.dir) = p
BY DEF Path, InDir

LEMMA SpanFields ==
  ASSUME NEW n \in Speakers, NEW rec \in Recordings, NEW s \in Spans
  PROVE  /\ PathOf(n, rec, s) \in Path
         /\ PathOf(n, rec, s).dir = n /\ PathOf(n, rec, s).rec = rec
         /\ PathOf(n, rec, s).slot = Slot[s]
         /\ [rec |-> rec, span |-> s] \in Clip
BY DEF PathOf, Path, Clip

----------------------------------------------------------------------------
(* Evolving *)

LEMMA EvolvesMore ==
  ASSUME NEW st, NEW new, NEW A, NEW B, Evolves(st, new, A), A \subseteq B
  PROVE  Evolves(st, new, B)
BY DEF Evolves

LEMMA EvolvesTwice ==
  ASSUME NEW st, NEW mid, NEW new, NEW A, WellKept(st),
         Evolves(st, mid, A), Evolves(mid, new, A)
  PROVE  Evolves(st, new, A)
<1>1. st.next \in Nat /\ mid.next \in Nat /\ new.next \in Nat /\ st.next <= new.next
  BY StoreFields DEF Evolves, WellKept
<1>2. ASSUME NEW r \in new.rows
      PROVE  \/ st.next <= r.id
             \/ \E q \in st.rows : /\ q.id = r.id
                                   /\ q.path.slot = r.path.slot /\ q.path.rec = r.path.rec
  <2>1. r.id \in Nat
    BY StoreFields, SnippetFields DEF Evolves, WellKept
  <2>2. CASE mid.next <= r.id
    BY <1>1, <2>1, <2>2 DEF Evolves
  <2>3. CASE \E q \in mid.rows : /\ q.id = r.id
                                 /\ q.path.slot = r.path.slot /\ q.path.rec = r.path.rec
    BY <2>3 DEF Evolves
  <2> QED
    BY <2>2, <2>3 DEF Evolves
<1>3. ASSUME NEW r \in new.rows, Dead(new, r)
      PROVE  r.id \in A \/ \E q \in st.rows : q.id = r.id /\ Dead(st, q)
  BY <1>3 DEF Evolves
<1> QED
  BY <1>1, <1>2, <1>3 DEF Evolves

LEMMA ShelfEvolves ==
  ASSUME NEW st, NEW new, WellKept(st), SameShelf(st, new)
  PROVE  Evolves(st, new, {}) /\ Shared(new) = Shared(st)
<1>1. WellKept(new)
  BY DEF WellKept, SameShelf, AtHome, FilesInPlace, IdsAreUsedOnce
<1>2. st.next <= new.next
  BY StoreFields DEF WellKept, SameShelf
<1> QED
  BY <1>1, <1>2 DEF Evolves, SameShelf, Dead, Shared, Ids

LEMMA ShelfTwice ==
  ASSUME NEW st, NEW mid, NEW new, SameShelf(st, mid), SameShelf(mid, new)
  PROVE  SameShelf(st, new)
BY DEF SameShelf

LEMMA WaitTwice ==
  ASSUME NEW st, NEW mid, NEW new, NEW who, WaitOn(st, mid, who), WaitOn(mid, new, who)
  PROVE  WaitOn(st, new, who)
BY DEF WaitOn

LEMMA WaitLess ==
  ASSUME NEW st, NEW new, NEW few, NEW many, WaitOn(st, new, few), few \subseteq many
  PROVE  WaitOn(st, new, many)
BY DEF WaitOn

LEMMA SameProfilesWait ==
  ASSUME NEW st, NEW new, NEW who, new.profile = st.profile
  PROVE  WaitOn(st, new, who)
BY DEF WaitOn, IsPending, Known

LEMMA ClearTwice ==
  ASSUME NEW st, NEW mid, NEW new, WellKept(st), WellKept(mid), WellKept(new),
         st.next <= mid.next, Clear(st, mid), Clear(mid, new)
  PROVE  Clear(st, new)
<1>1. /\ st.next \in Nat /\ mid.next \in Nat
      /\ \A x \in mid.rows : x.id \in Nat
      /\ \A x \in new.rows : x.id \in Nat
  BY StoreFields, SnippetFields DEF WellKept
<1>2. ASSUME NEW x \in new.rows
      PROVE  st.next <= x.id \/ \E r \in st.rows : r.id = x.id /\ r.path = x.path
  <2>1. CASE mid.next <= x.id
    BY <1>1, <2>1
  <2>2. CASE \E r \in mid.rows : r.id = x.id /\ r.path = x.path
    BY <2>2 DEF Clear
  <2> QED
    BY <2>1, <2>2 DEF Clear
<1>3. ASSUME NEW x \in new.rows, x.id < st.next, ~Dead(new, x)
      PROVE  KeepsFile(st, new, x.path)
  <2>1. x.id < mid.next
    BY <1>1, <1>3
  <2>2. KeepsFile(mid, new, x.path)
    BY <1>3, <2>1 DEF Clear
  <2>3. CASE \E q \in new.rows : mid.next <= q.id /\ q.path = x.path
    BY <1>1, <2>3 DEF KeepsFile
  <2>4. CASE /\ x.path \in DOMAIN mid.disk
             /\ \A q \in mid.rows : q.path = x.path =>
                   \E y \in new.rows : y.id = q.id /\ y.path = x.path
    <3>1. PICK r \in mid.rows : r.id = x.id /\ r.path = x.path
      BY <1>1, <2>1 DEF Clear
    <3>2. KeepsFile(st, mid, x.path)
      BY <1>3, <2>4, <3>1 DEF Clear, Dead
    <3>3. CASE \E q \in mid.rows : st.next <= q.id /\ q.path = x.path
      BY <2>4, <3>3 DEF KeepsFile
    <3>4. CASE /\ x.path \in DOMAIN st.disk
               /\ \A q \in st.rows : q.path = x.path =>
                     \E y \in mid.rows : y.id = q.id /\ y.path = x.path
      <4>1. ASSUME NEW q \in st.rows, q.path = x.path
            PROVE  \E y \in new.rows : y.id = q.id /\ y.path = x.path
        BY <2>4, <3>4, <4>1
      <4> QED
        BY <3>4, <4>1 DEF KeepsFile
    <3> QED
      BY <3>2, <3>3, <3>4 DEF KeepsFile
  <2> QED
    BY <2>2, <2>3, <2>4 DEF KeepsFile
<1> QED
  BY <1>2, <1>3 DEF Clear

LEMMA ClearShelf ==
  ASSUME NEW st, NEW mid, NEW new, Clear(st, mid), new.rows = mid.rows, new.disk = mid.disk
  PROVE  Clear(st, new)
BY DEF Clear, KeepsFile, Dead

LEMMA ClearIsKept ==
  ASSUME NEW st, NEW new, WellKept(st), Clear(st, new)
  PROVE  KeepsFiles(st, new)
BY DEF Clear, KeepsFiles, WellKept, IdsAreUsedOnce

(* Rows of which nothing but flags changed, or that are gone *)
LEMMA SharedShrinks ==
  ASSUME NEW st, NEW new, new.rows \subseteq st.rows
  PROVE  Shared(new) \subseteq Shared(st)
BY DEF Shared, Ids

----------------------------------------------------------------------------
(* The profiles *)

LEMMA SaveShelf ==
  ASSUME NEW st, IsStore(st), NEW n \in Speakers, NEW clips \in SUBSET Clip
  PROVE  /\ SameShelf(st, Save(st, n, clips)) /\ WaitOn(st, Save(st, n, clips), {})
         /\ \A m \in Speakers \ {n} : Save(st, n, clips).profile[m] = st.profile[m]
<1> DEFINE new == Save(st, n, clips)
           p == [pending |-> Known(st, n) /\ st.profile[n].pending, fitted |-> clips]
<1>1. (Known(st, n) /\ st.profile[n].pending) \in BOOLEAN
  BY StoreFields DEF Known, Profile
<1>2. p \in Profile
  BY <1>1 DEF Profile
<1>3. /\ new.profile = [st.profile EXCEPT ![n] = p]
      /\ new.rows = st.rows /\ new.disk = st.disk /\ new.dirs = st.dirs /\ new.next = st.next
      /\ new = [profile |-> new.profile, rows |-> new.rows, disk |-> new.disk,
                dirs |-> new.dirs, next |-> new.next]
  BY StoreFields DEF Save
<1> HIDE DEF new
<1>4. new.profile \in [Speakers -> Profile \cup {None}]
  BY <1>2, <1>3, StoreFields
<1>5. IsStore(new)
  BY <1>3, <1>4, StoreFields, StoreOf
<1>6. \A m \in Speakers : new.profile[m] = IF m = n THEN p ELSE st.profile[m]
  BY <1>3, StoreFields
<1>7. WaitOn(st, new, {})
  <2> SUFFICES ASSUME NEW m \in Speakers, IsPending(st, m)
               PROVE  IsPending(new, m)
    BY DEF WaitOn
  <2>1. CASE m = n
    <3>1. new.profile[m] = p /\ p.pending = (Known(st, n) /\ st.profile[n].pending)
      BY <1>6, <2>1
    <3>2. Known(st, n) /\ st.profile[n].pending
      BY <2>1 DEF IsPending
    <3> QED
      BY <1>2, <3>1, <3>2, StoreAssumption DEF IsPending, Known
  <2>2. CASE m # n
    BY <1>6, <2>2 DEF IsPending, Known
  <2> QED
    BY <2>1, <2>2
<1> QED
  BY <1>3, <1>5, <1>6, <1>7 DEF SameShelf, new

LEMMA ReadableClips ==
  ASSUME NEW st, IsStore(st), NEW n
  PROVE  Readable(st, n) \subseteq Clip
BY StoreFields DEF Readable, RowsOf, Dead

LEMMA AutoRefineShelf ==
  ASSUME NEW st, IsStore(st), NEW n \in Speakers, NEW e
  PROVE  /\ SameShelf(st, AutoRefine(st, n, e)) /\ WaitOn(st, AutoRefine(st, n, e), {})
         /\ \A m \in Speakers \ {n} : AutoRefine(st, n, e).profile[m] = st.profile[m]
<1>1. CASE AutoRefine(st, n, e) = st
  BY <1>1 DEF SameShelf, WaitOn
<1>2. CASE AutoRefine(st, n, e) = Save(st, n, Readable(st, n))
  BY <1>2, ReadableClips, SaveShelf
<1> QED
  BY <1>1, <1>2 DEF AutoRefine

LEMMA RefineAllShelf ==
  ASSUME NEW st, IsStore(st), NEW names, NEW e
  PROVE  SameShelf(st, RefineAll(st, names, e)) /\ WaitOn(st, RefineAll(st, names, e), {})
<1> DEFINE new == RefineAll(st, names, e)
<1>1. /\ new.profile = [n \in Speakers |-> IF n \in names THEN AutoRefine(st, n, e).profile[n]
                                           ELSE st.profile[n]]
      /\ new.rows = st.rows /\ new.disk = st.disk /\ new.dirs = st.dirs /\ new.next = st.next
      /\ new = [profile |-> new.profile, rows |-> new.rows, disk |-> new.disk,
                dirs |-> new.dirs, next |-> new.next]
  BY StoreFields DEF RefineAll
<1> HIDE DEF new
<1>2. ASSUME NEW n \in Speakers
      PROVE  /\ AutoRefine(st, n, e).profile[n] \in Profile \cup {None}
             /\ WaitOn(st, AutoRefine(st, n, e), {})
  BY AutoRefineShelf, StoreFields DEF SameShelf
<1>3. new.profile \in [Speakers -> Profile \cup {None}]
  <2>1. \A n \in Speakers : st.profile[n] \in Profile \cup {None}
    BY StoreFields
  <2> QED
    BY <1>1, <1>2, <2>1
<1>4. IsStore(new)
  BY <1>1, <1>3, StoreFields, StoreOf
<1>5. WaitOn(st, new, {})
  <2> SUFFICES ASSUME NEW n \in Speakers, IsPending(st, n)
               PROVE  IsPending(new, n)
    BY DEF WaitOn
  <2>1. CASE n \in names
    <3>1. new.profile[n] = AutoRefine(st, n, e).profile[n]
      BY <1>1, <2>1
    <3> QED
      BY <1>2, <3>1 DEF WaitOn, IsPending, Known
  <2>2. CASE n \notin names
    BY <1>1, <2>2 DEF IsPending, Known
  <2> QED
    BY <2>1, <2>2
<1> QED
  BY <1>1, <1>4, <1>5 DEF SameShelf, new

LEMMA DeleteProfileShelf ==
  ASSUME NEW st, IsStore(st), NEW n \in Speakers
  PROVE  /\ SameShelf(st, DeleteProfile(st, n)) /\ WaitOn(st, DeleteProfile(st, n), {n})
         /\ ~Known(DeleteProfile(st, n), n)
         /\ \A m \in Speakers \ {n} : DeleteProfile(st, n).profile[m] = st.profile[m]
<1> DEFINE new == DeleteProfile(st, n)
<1>1. /\ new.profile = [st.profile EXCEPT ![n] = None]
      /\ new.rows = st.rows /\ new.disk = st.disk /\ new.dirs = st.dirs /\ new.next = st.next
      /\ new = [profile |-> new.profile, rows |-> new.rows, disk |-> new.disk,
                dirs |-> new.dirs, next |-> new.next]
  BY StoreFields DEF DeleteProfile
<1> HIDE DEF new
<1>2. new.profile \in [Speakers -> Profile \cup {None}]
  BY <1>1, StoreFields
<1>3. \A m \in Speakers : new.profile[m] = IF m = n THEN None ELSE st.profile[m]
  BY <1>1, StoreFields
<1>4. IsStore(new)
  BY <1>1, <1>2, StoreFields, StoreOf
<1>5. WaitOn(st, new, {n}) /\ ~Known(new, n)
  BY <1>3 DEF WaitOn, IsPending, Known
<1> QED
  BY <1>1, <1>3, <1>4, <1>5 DEF SameShelf, new

LEMMA SetPendingShelf ==
  ASSUME NEW st, IsStore(st), NEW n \in Speakers, NEW flag \in BOOLEAN
  PROVE  /\ SameShelf(st, SetPending(st, n, flag))
         /\ WaitOn(st, SetPending(st, n, flag), IF flag THEN {} ELSE {n})
         /\ \A m \in Speakers \ {n} : SetPending(st, n, flag).profile[m] = st.profile[m]
<1> DEFINE new == SetPending(st, n, flag)
<1>1. CASE Known(st, n)
  <2>1. /\ new.profile = [st.profile EXCEPT ![n].pending = flag]
        /\ new.rows = st.rows /\ new.disk = st.disk /\ new.dirs = st.dirs /\ new.next = st.next
        /\ new = [profile |-> new.profile, rows |-> new.rows, disk |-> new.disk,
                  dirs |-> new.dirs, next |-> new.next]
    BY <1>1, StoreFields DEF SetPending
  <2> HIDE DEF new
  <2>2. /\ [st.profile[n] EXCEPT !.pending = flag] \in Profile
        /\ [st.profile[n] EXCEPT !.pending = flag].pending = flag
    BY <1>1, StoreFields DEF Known, Profile
  <2>3. \A m \in Speakers :
           new.profile[m] = IF m = n THEN [st.profile[n] EXCEPT !.pending = flag]
                            ELSE st.profile[m]
    BY <2>1, StoreFields
  <2>4. new.profile \in [Speakers -> Profile \cup {None}]
    BY <2>1, <2>2, StoreFields
  <2>5. IsStore(new)
    BY <2>1, <2>4, StoreFields, StoreOf
  <2>6. WaitOn(st, new, IF flag THEN {} ELSE {n})
    <3>1. new.profile[n].pending = flag /\ new.profile[n] # None
      BY <2>2, <2>3, StoreAssumption
    <3>2. \A m \in Speakers \ {n} : new.profile[m] = st.profile[m]
      BY <2>3
    <3> QED
      BY <3>1, <3>2 DEF WaitOn, IsPending, Known
  <2> QED
    BY <2>1, <2>3, <2>5, <2>6 DEF SameShelf, new
<1>2. CASE ~Known(st, n)
  <2>1. new = st
    BY <1>2 DEF SetPending
  <2> QED
    BY <2>1 DEF SameShelf, WaitOn
<1> QED
  BY <1>1, <1>2

LEMMA RenameProfileShelf ==
  ASSUME NEW st, IsStore(st), NEW a \in Speakers, NEW b \in Speakers, a # b, ~Known(st, b)
  PROVE  /\ SameShelf(st, RenameProfile(st, a, b)) /\ WaitOn(st, RenameProfile(st, a, b), {a})
         /\ ~Known(RenameProfile(st, a, b), a)
         /\ \A m \in Speakers \ {a, b} : RenameProfile(st, a, b).profile[m] = st.profile[m]
<1> DEFINE new == RenameProfile(st, a, b)
<1>1. CASE Known(st, a)
  <2> DEFINE mid == [st EXCEPT !.profile[b] = st.profile[a]]
  <2>5. /\ mid.profile = [st.profile EXCEPT ![b] = st.profile[a]]
        /\ mid.rows = st.rows /\ mid.disk = st.disk /\ mid.dirs = st.dirs /\ mid.next = st.next
        /\ mid = [profile |-> mid.profile, rows |-> mid.rows, disk |-> mid.disk,
                  dirs |-> mid.dirs, next |-> mid.next]
    BY StoreFields
  <2>6. new = DeleteProfile(mid, a)
    BY <1>1 DEF RenameProfile
  <2> HIDE DEF mid, new
  <2>7. mid.profile \in [Speakers -> Profile \cup {None}]
    BY <2>5, StoreFields
  <2>8. IsStore(mid) /\ SameShelf(st, mid)
    BY <2>5, <2>7, StoreFields, StoreOf DEF SameShelf
  <2>9. /\ SameShelf(mid, new) /\ ~Known(new, a)
        /\ \A m \in Speakers \ {a} : new.profile[m] = mid.profile[m]
    BY <2>6, <2>8, DeleteProfileShelf
  <2>1. \A m \in Speakers \ {a} : new.profile[m] = IF m = b THEN st.profile[a] ELSE st.profile[m]
    BY <2>5, <2>9, StoreFields
  <2>2. SameShelf(st, new)
    BY <2>8, <2>9, ShelfTwice
  <2>3. WaitOn(st, new, {a})
    BY <2>1, <2>9 DEF WaitOn, IsPending, Known
  <2> QED
    BY <2>1, <2>2, <2>3, <2>9 DEF new
<1>2. CASE ~Known(st, a)
  <2>1. new = st
    BY <1>2 DEF RenameProfile
  <2> QED
    BY <1>2, <2>1 DEF SameShelf, WaitOn
<1> QED
  BY <1>1, <1>2

----------------------------------------------------------------------------
(* Rows and files that go *)

(* A store of which only some rows and files are left *)
Remains(st, new) ==
    /\ IsStore(new) /\ new.dirs = st.dirs /\ new.next = st.next
    /\ new.rows \subseteq st.rows
    /\ DOMAIN new.disk \subseteq DOMAIN st.disk
    /\ \A p \in DOMAIN new.disk : new.disk[p] = st.disk[p]

LEMMA RemainsEvolves ==
  ASSUME NEW st, NEW new, NEW noted, WellKept(st), Remains(st, new),
         \A r \in new.rows : r.path \in DOMAIN st.disk /\ Dead(new, r) => r.id \in noted
  PROVE  Evolves(st, new, noted)
<1>1. IsFiniteSet(new.rows) /\ IsFiniteSet(DOMAIN new.disk)
  BY FS_Subset DEF WellKept, Remains
<1>2. AtHome(new) /\ IdsAreUsedOnce(new)
  BY DEF WellKept, Remains, AtHome, IdsAreUsedOnce
<1>3. FilesInPlace(new)
  BY DEF WellKept, Remains, FilesInPlace
<1>4. st.next <= new.next
  BY StoreFields DEF WellKept, Remains
<1> QED
  BY <1>1, <1>2, <1>3, <1>4 DEF Evolves, WellKept, Remains, Dead

LEMMA DropRemains ==
  ASSUME NEW st, IsStore(st), NEW R
  PROVE  LET new == DropSnippets(st, R) IN
         /\ Remains(st, new) /\ new.profile = st.profile /\ new.rows = st.rows \ R
         /\ DOMAIN new.disk = DOMAIN st.disk \ {r.path : r \in R}
<1> DEFINE new == DropSnippets(st, R)
           gone == {r.path : r \in R}
           rest == st.rows \ R
           files == Unlink(st.disk, gone)
           mid == [st EXCEPT !.rows = rest]
<1>4. new = [st EXCEPT !.rows = rest, !.disk = files]
  BY DEF DropSnippets
<1> HIDE DEF new, gone, rest, files
<1>5. new = [mid EXCEPT !.disk = files]
  BY <1>4, StoreFields
<1>6. /\ mid = [profile |-> mid.profile, rows |-> mid.rows, disk |-> mid.disk,
                dirs |-> mid.dirs, next |-> mid.next]
      /\ mid.rows = rest /\ mid.profile = st.profile /\ mid.dirs = st.dirs
      /\ mid.next = st.next
  BY StoreFields
<1> HIDE DEF mid
<1>1. /\ new.rows = rest /\ new.disk = files
      /\ new.profile = st.profile /\ new.dirs = st.dirs /\ new.next = st.next
      /\ new = [profile |-> new.profile, rows |-> new.rows, disk |-> new.disk,
                dirs |-> new.dirs, next |-> new.next]
  BY <1>5, <1>6
<1>2. /\ DOMAIN new.disk = DOMAIN st.disk \ gone
      /\ \A p \in DOMAIN new.disk : new.disk[p] = st.disk[p]
      /\ new.disk \in [DOMAIN new.disk -> Clip]
  BY <1>1, StoreFields DEF Unlink, files
<1>3. IsStore(new)
  BY <1>1, <1>2, StoreFields, StoreOf DEF rest
<1> QED
  BY <1>1, <1>2, <1>3 DEF Remains, new, gone, rest

LEMMA DropEvolves ==
  ASSUME NEW st, WellKept(st), NEW R \in SUBSET st.rows
  PROVE  Evolves(st, DropSnippets(st, R), Shared(st))
<1> DEFINE new == DropSnippets(st, R)
<1>1. IsStore(st)
  BY DEF WellKept
<1>2. /\ Remains(st, new) /\ new.rows = st.rows \ R
      /\ DOMAIN new.disk = DOMAIN st.disk \ {r.path : r \in R}
  BY <1>1, DropRemains
<1> HIDE DEF new
<1>3. ASSUME NEW r \in new.rows, r.path \in DOMAIN st.disk, Dead(new, r)
      PROVE  r.id \in Shared(st)
  <2>1. PICK q \in R : q.path = r.path
    BY <1>2, <1>3 DEF Dead
  <2>2. q \in st.rows /\ r \in st.rows /\ q # r
    BY <1>2, <2>1
  <2> QED
    BY <2>1, <2>2 DEF Shared, Ids
<1>4. Evolves(st, new, Shared(st))
  BY <1>2, <1>3, RemainsEvolves
<1> QED
  BY <1>4 DEF new

LEMMA ReplaceRemains ==
  ASSUME NEW st, IsStore(st), NEW n, NEW rec, NEW fresh
  PROVE  LET new == ReplaceSource(st, n, rec, fresh)
             stale == {r \in SourceRows(st, n, rec) : \A f \in fresh : f.id # r.id}
         IN  /\ Remains(st, new) /\ new.rows = st.rows \ stale /\ new.profile = st.profile
             /\ DOMAIN new.disk =
                   DOMAIN st.disk \ ({r.path : r \in stale} \ {f.path : f \in fresh})
<1> DEFINE new == ReplaceSource(st, n, rec, fresh)
           stale == {r \in SourceRows(st, n, rec) : \A f \in fresh : f.id # r.id}
           gone == {r.path : r \in stale} \ {f.path : f \in fresh}
           rest == st.rows \ stale
           files == Unlink(st.disk, gone)
           mid == [st EXCEPT !.rows = rest]
<1>4. new = [st EXCEPT !.rows = rest, !.disk = files]
  BY DEF ReplaceSource
<1> HIDE DEF new, stale, gone, rest, files
<1>5. new = [mid EXCEPT !.disk = files]
  BY <1>4, StoreFields
<1>6. /\ mid = [profile |-> mid.profile, rows |-> mid.rows, disk |-> mid.disk,
                dirs |-> mid.dirs, next |-> mid.next]
      /\ mid.rows = rest /\ mid.profile = st.profile /\ mid.dirs = st.dirs
      /\ mid.next = st.next
  BY StoreFields
<1> HIDE DEF mid
<1>1. /\ new.rows = rest /\ new.disk = files
      /\ new.profile = st.profile /\ new.dirs = st.dirs /\ new.next = st.next
      /\ new = [profile |-> new.profile, rows |-> new.rows, disk |-> new.disk,
                dirs |-> new.dirs, next |-> new.next]
  BY <1>5, <1>6
<1>2. /\ DOMAIN new.disk = DOMAIN st.disk \ gone
      /\ \A p \in DOMAIN new.disk : new.disk[p] = st.disk[p]
      /\ new.disk \in [DOMAIN new.disk -> Clip]
  BY <1>1, StoreFields DEF Unlink, files
<1>3. IsStore(new)
  BY <1>1, <1>2, StoreFields, StoreOf DEF rest
<1> QED
  BY <1>1, <1>2, <1>3 DEF Remains, new, stale, gone, rest

LEMMA VanishRemains ==
  ASSUME NEW st, IsStore(st), NEW p
  PROVE  LET new == [st EXCEPT !.disk = Unlink(@, {p})] IN
         /\ Remains(st, new) /\ new.profile = st.profile /\ new.rows = st.rows
         /\ DOMAIN new.disk = DOMAIN st.disk \ {p}
<1> DEFINE new == [st EXCEPT !.disk = Unlink(@, {p})]
<1>1. /\ new.rows = st.rows /\ new.disk = Unlink(st.disk, {p})
      /\ new.profile = st.profile /\ new.dirs = st.dirs /\ new.next = st.next
      /\ new = [profile |-> new.profile, rows |-> new.rows, disk |-> new.disk,
                dirs |-> new.dirs, next |-> new.next]
  BY StoreFields
<1> HIDE DEF new
<1>2. /\ DOMAIN new.disk = DOMAIN st.disk \ {p}
      /\ \A q \in DOMAIN new.disk : new.disk[q] = st.disk[q]
      /\ new.disk \in [DOMAIN new.disk -> Clip]
  BY <1>1, StoreFields DEF Unlink
<1>3. IsStore(new)
  BY <1>1, <1>2, StoreFields, StoreOf
<1> QED
  BY <1>1, <1>2, <1>3 DEF Remains, new

LEMMA DeleteRowRemains ==
  ASSUME NEW st, IsStore(st), NEW i
  PROVE  LET new == DeleteRow(st, i) IN
         /\ Remains(st, new) /\ new.profile = st.profile /\ new.disk = st.disk
         /\ new.rows = {r \in st.rows : r.id # i}
<1> DEFINE new == DeleteRow(st, i)
           rest == {r \in st.rows : r.id # i}
<1>0. new = [st EXCEPT !.rows = rest]
  BY DEF DeleteRow
<1>3. rest \subseteq st.rows
  OBVIOUS
<1> HIDE DEF new, rest
<1>1. /\ new.rows = rest /\ new.disk = st.disk
      /\ new.profile = st.profile /\ new.dirs = st.dirs /\ new.next = st.next
      /\ new = [profile |-> new.profile, rows |-> new.rows, disk |-> new.disk,
                dirs |-> new.dirs, next |-> new.next]
  BY <1>0, StoreFields
<1>2. IsStore(new)
  BY <1>1, <1>3, StoreFields, StoreOf
<1> QED
  BY <1>1, <1>2, <1>3 DEF Remains, new, rest

----------------------------------------------------------------------------
(* Directories *)

LEMMA DirsKept ==
  ASSUME NEW st, WellKept(st), NEW D \in SUBSET Speakers,
         \A p \in DOMAIN st.disk : p.dir \in D
  PROVE  LET new == [st EXCEPT !.dirs = D] IN
         /\ Evolves(st, new, {}) /\ Shared(new) = Shared(st)
         /\ new.profile = st.profile /\ new.rows = st.rows /\ new.disk = st.disk
         /\ new.next = st.next
<1> DEFINE new == [st EXCEPT !.dirs = D]
<1>1. /\ new.rows = st.rows /\ new.disk = st.disk
      /\ new.profile = st.profile /\ new.dirs = D /\ new.next = st.next
      /\ new = [profile |-> new.profile, rows |-> new.rows, disk |-> new.disk,
                dirs |-> new.dirs, next |-> new.next]
  BY StoreFields DEF WellKept
<1> HIDE DEF new
<1>2. IsStore(new) /\ st.next <= new.next
  BY <1>1, StoreFields, StoreOf DEF WellKept
<1>3. WellKept(new)
  BY <1>1, <1>2 DEF WellKept, AtHome, FilesInPlace, IdsAreUsedOnce
<1> QED
  BY <1>1, <1>2, <1>3 DEF Evolves, Dead, Shared, Ids, new

LEMMA CleanupDirKeeps ==
  ASSUME NEW st, WellKept(st), NEW n
  PROVE  LET new == CleanupSpeakerDir(st, n) IN
         /\ Evolves(st, new, {}) /\ Shared(new) = Shared(st)
         /\ new.profile = st.profile /\ new.rows = st.rows /\ new.disk = st.disk
         /\ new.next = st.next
<1>1. CASE FilesOf(st.disk, n) # {}
  <2>1. CleanupSpeakerDir(st, n) = st
    BY <1>1 DEF CleanupSpeakerDir
  <2>2. SameShelf(st, st)
    BY DEF SameShelf, WellKept
  <2> QED
    BY <2>1, <2>2, ShelfEvolves
<1>2. CASE FilesOf(st.disk, n) = {}
  <2> DEFINE D == st.dirs \ {n}
  <2>1. CleanupSpeakerDir(st, n) = [st EXCEPT !.dirs = D]
    BY <1>2 DEF CleanupSpeakerDir
  <2>2. D \in SUBSET Speakers /\ \A p \in DOMAIN st.disk : p.dir \in D
    BY <1>2, StoreFields DEF WellKept, FilesInPlace, FilesOf
  <2> HIDE DEF D
  <2> QED
    BY <2>1, <2>2, DirsKept
<1> QED
  BY <1>1, <1>2

LEMMA TooShortKeeps ==
  ASSUME NEW st, WellKept(st), NEW n \in Speakers
  PROVE  LET new == AddTooShort(st, n) IN
         Evolves(st, new, {}) /\ new.profile = st.profile
<1> DEFINE D == st.dirs \cup {n}
<1>1. AddTooShort(st, n) = [st EXCEPT !.dirs = D]
  BY DEF AddTooShort
<1>2. D \in SUBSET Speakers /\ \A p \in DOMAIN st.disk : p.dir \in D
  BY StoreFields DEF WellKept, FilesInPlace
<1> HIDE DEF D
<1> QED
  BY <1>1, <1>2, DirsKept

----------------------------------------------------------------------------
(* Rows and files that come *)

LEMMA WriteKeeps ==
  ASSUME NEW st, WellKept(st), NEW n \in Speakers, NEW rec \in Recordings, NEW s \in Spans
  PROVE  LET new == WriteAudio(st, n, rec, s) IN
         /\ Evolves(st, new, {}) /\ new.profile = st.profile /\ new.rows = st.rows
         /\ new.next = st.next /\ DOMAIN new.disk = DOMAIN st.disk \cup {PathOf(n, rec, s)}
<1> DEFINE new == WriteAudio(st, n, rec, s)
           p == PathOf(n, rec, s)
           clip == [rec |-> rec, span |-> s]
           homes == st.dirs \cup {n}
           files == Write(st.disk, p, clip)
           mid == [st EXCEPT !.dirs = homes]
<1>0. IsStore(st)
  BY DEF WellKept
<1>1. p \in Path /\ p.dir = n /\ p.slot = Slot[s] /\ clip \in Clip /\ clip.span = s
  BY SpanFields
<1>2. new = [st EXCEPT !.dirs = homes, !.disk = files]
  BY DEF WriteAudio
<1> HIDE DEF new, homes, files, p, clip
<1>3. new = [mid EXCEPT !.disk = files]
  BY <1>0, <1>2, StoreFields
<1>4. /\ mid = [profile |-> mid.profile, rows |-> mid.rows, disk |-> mid.disk,
                dirs |-> mid.dirs, next |-> mid.next]
      /\ mid.dirs = homes /\ mid.profile = st.profile /\ mid.rows = st.rows
      /\ mid.next = st.next
  BY <1>0, StoreFields
<1> HIDE DEF mid
<1>5. /\ new = [profile |-> new.profile, rows |-> new.rows, disk |-> new.disk,
                dirs |-> new.dirs, next |-> new.next]
      /\ new.dirs = homes /\ new.profile = st.profile /\ new.rows = st.rows
      /\ new.next = st.next /\ new.disk = files
  BY <1>3, <1>4
<1>6. /\ DOMAIN files = DOMAIN st.disk \cup {p}
      /\ \A q \in DOMAIN files : files[q] = IF q = p THEN clip ELSE st.disk[q]
      /\ files \in [DOMAIN files -> Clip]
  BY <1>0, <1>1, StoreFields DEF files, Write
<1>7. IsStore(new)
  BY <1>0, <1>1, <1>5, <1>6, StoreFields, StoreOf DEF homes
<1>8. IsFiniteSet(DOMAIN new.disk)
  BY <1>5, <1>6, FS_AddElement DEF WellKept
<1>9. FilesInPlace(new)
  BY <1>0, <1>1, <1>5, <1>6 DEF FilesInPlace, WellKept, homes
<1>10. WellKept(new)
  BY <1>5, <1>7, <1>8, <1>9 DEF WellKept, AtHome, IdsAreUsedOnce
<1>11. st.next <= new.next
  BY <1>0, <1>5, StoreFields
<1> QED
  BY <1>5, <1>6, <1>10, <1>11 DEF Evolves, Dead, new, p

(* A file that is written again, where it was or may have been *)
LEMMA WriteBackKeeps ==
  ASSUME NEW st, WellKept(st), NEW p \in Path, NEW clip \in Clip,
         p.dir \in st.dirs, p.slot = Slot[clip.span]
  PROVE  LET new == [st EXCEPT !.disk = Write(@, p, clip)] IN
         /\ Evolves(st, new, {}) /\ new.profile = st.profile /\ new.rows = st.rows
<1> DEFINE files == Write(st.disk, p, clip)
           new == [st EXCEPT !.disk = files]
<1>0. IsStore(st)
  BY DEF WellKept
<1>1. /\ DOMAIN files = DOMAIN st.disk \cup {p}
      /\ \A q \in DOMAIN files : files[q] = IF q = p THEN clip ELSE st.disk[q]
      /\ files \in [DOMAIN files -> Clip]
  BY <1>0, StoreFields DEF Write
<1> HIDE DEF files
<1>2. /\ new = [profile |-> new.profile, rows |-> new.rows, disk |-> new.disk,
                dirs |-> new.dirs, next |-> new.next]
      /\ new.dirs = st.dirs /\ new.profile = st.profile /\ new.rows = st.rows
      /\ new.next = st.next /\ new.disk = files
  BY <1>0, StoreFields
<1> HIDE DEF new
<1>3. IsStore(new)
  BY <1>0, <1>1, <1>2, StoreFields, StoreOf, SMTT(30)
<1>4. IsFiniteSet(DOMAIN new.disk)
  BY <1>1, <1>2, FS_AddElement DEF WellKept
<1>5. FilesInPlace(new)
  BY <1>1, <1>2 DEF FilesInPlace, WellKept
<1>6. WellKept(new)
  BY <1>2, <1>3, <1>4, <1>5 DEF WellKept, AtHome, IdsAreUsedOnce
<1>7. st.next <= new.next
  BY <1>0, <1>2, StoreFields
<1>8. Evolves(st, new, {})
  BY <1>1, <1>2, <1>6, <1>7 DEF Evolves, Dead
<1> QED
  BY <1>2, <1>8 DEF new, files

LEMMA AddRowKeeps ==
  ASSUME NEW st, WellKept(st), NEW n \in Speakers, NEW p \in Path,
         NEW source \in Recordings \cup {None}, NEW s \in Spans,
         p.dir = n, p.slot = Slot[s], source # None => source = p.rec,
         NEW noted, p \notin DOMAIN st.disk => st.next \in noted
  PROVE  LET new == AddRow(st, n, p, source, s)
             row == [id |-> st.next, name |-> n, path |-> p, span |-> s,
                     source |-> source, flagged |-> FALSE]
         IN  /\ Evolves(st, new, noted) /\ new.profile = st.profile
             /\ new.rows = st.rows \cup {row} /\ new.disk = st.disk
             /\ new.next = st.next + 1
<1> DEFINE new == AddRow(st, n, p, source, s)
           row == [id |-> st.next, name |-> n, path |-> p, span |-> s,
                   source |-> source, flagged |-> FALSE]
           all == st.rows \cup {row}
           last == st.next + 1
           mid == [st EXCEPT !.rows = all]
<1>0. IsStore(st) /\ st.next \in Nat
  BY StoreFields DEF WellKept
<1>1. row \in Snippet /\ row.id = st.next /\ row.name = n /\ row.path = p /\ row.span = s
      /\ row.source = source
  BY <1>0 DEF Snippet
<1>2. new = [st EXCEPT !.rows = all, !.next = last]
  BY DEF AddRow
<1> HIDE DEF new, row, all, last
<1>3. new = [mid EXCEPT !.next = last]
  BY <1>0, <1>2, StoreFields
<1>4. /\ mid = [profile |-> mid.profile, rows |-> mid.rows, disk |-> mid.disk,
                dirs |-> mid.dirs, next |-> mid.next]
      /\ mid.rows = all /\ mid.profile = st.profile /\ mid.disk = st.disk
      /\ mid.dirs = st.dirs
  BY <1>0, StoreFields
<1> HIDE DEF mid
<1>5. /\ new = [profile |-> new.profile, rows |-> new.rows, disk |-> new.disk,
                dirs |-> new.dirs, next |-> new.next]
      /\ new.rows = all /\ new.profile = st.profile /\ new.disk = st.disk
      /\ new.dirs = st.dirs /\ new.next = last
  BY <1>3, <1>4
<1>6. last \in Nat /\ last = st.next + 1
  BY <1>0 DEF last
<1>7. all \subseteq Snippet
  BY <1>0, <1>1, StoreFields DEF all
<1>8. IsStore(new)
  BY <1>0, <1>5, <1>6, <1>7, StoreFields, StoreOf
<1>9. IsFiniteSet(new.rows)
  BY <1>5, FS_AddElement DEF WellKept, all
<1>10. AtHome(new) /\ FilesInPlace(new)
  BY <1>1, <1>5 DEF AtHome, FilesInPlace, WellKept, all
<1>11. \A r \in st.rows : r.id \in Nat /\ r.id < st.next
  BY <1>0, StoreFields, SnippetFields DEF WellKept, IdsAreUsedOnce
<1>12. IdsAreUsedOnce(new)
  <2>1. \A r \in new.rows : r.id < new.next
    BY <1>0, <1>1, <1>5, <1>6, <1>11 DEF all
  <2>2. \A r \in st.rows : r.id # row.id
    BY <1>0, <1>1, <1>11
  <2>3. \A r, q \in new.rows : r.id = q.id => r = q
    BY <1>5, <2>2 DEF all, WellKept, IdsAreUsedOnce
  <2> QED
    BY <2>1, <2>3 DEF IdsAreUsedOnce
<1>13. WellKept(new)
  BY <1>5, <1>8, <1>9, <1>10, <1>12 DEF WellKept
<1>14. ASSUME NEW r \in new.rows
       PROVE  \/ st.next <= r.id
              \/ \E q \in st.rows : /\ q.id = r.id
                                    /\ q.path.slot = r.path.slot /\ q.path.rec = r.path.rec
  BY <1>0, <1>1, <1>5 DEF all
<1>15. ASSUME NEW r \in new.rows, Dead(new, r)
       PROVE  r.id \in noted \/ \E q \in st.rows : q.id = r.id /\ Dead(st, q)
  BY <1>1, <1>5, <1>15 DEF all, Dead
<1>16. Evolves(st, new, noted)
  BY <1>0, <1>5, <1>6, <1>13, <1>14, <1>15 DEF Evolves
<1> QED
  BY <1>5, <1>16 DEF new, row, all, last

LEMMA AddSnippetKeeps ==
  ASSUME NEW st, WellKept(st), NEW n \in Speakers, NEW rec \in Recordings, NEW s \in Spans,
         NEW replace \in BOOLEAN
  PROVE  LET new == AddSnippet(st, n, rec, s, replace) IN
         Evolves(st, new, Shared(st)) /\ new.profile = st.profile
<1> DEFINE own == SourceRows(st, n, rec)
           base == IF replace THEN DropSnippets(st, own) ELSE st
           wrote == WriteAudio(base, n, rec, s)
           p == PathOf(n, rec, s)
           new == AddRow(wrote, n, p, rec, s)
<1>0. IsStore(st) /\ own \in SUBSET st.rows
  BY DEF WellKept, SourceRows, RowsOf
<1>1. AddSnippet(st, n, rec, s, replace) = new
  BY DEF AddSnippet, WriteSnippet
<1>2. Evolves(st, base, Shared(st)) /\ base.profile = st.profile
  <2>1. CASE replace
    BY <1>0, <2>1, DropEvolves, DropRemains
  <2>2. CASE ~replace
    <3>1. SameShelf(st, st)
      BY <1>0 DEF SameShelf
    <3>2. Evolves(st, st, Shared(st))
      BY <3>1, ShelfEvolves, EvolvesMore
    <3> QED
      BY <2>2, <3>2
  <2> QED
    BY <2>1, <2>2
<1> HIDE DEF base
<1>3. WellKept(base)
  BY <1>2 DEF Evolves
<1>4. /\ Evolves(base, wrote, {}) /\ wrote.profile = base.profile
      /\ DOMAIN wrote.disk = DOMAIN base.disk \cup {p}
  BY <1>3, WriteKeeps
<1> HIDE DEF wrote
<1>5. WellKept(wrote) /\ p \in DOMAIN wrote.disk
  <2> HIDE DEF p, base
  <2>1. p \in DOMAIN wrote.disk
    BY <1>4
  <2>2. WellKept(wrote)
    BY <1>4 DEF Evolves
  <2> QED
    BY <2>1, <2>2
<1>6. p \in Path /\ p.dir = n /\ p.rec = rec /\ p.slot = Slot[s]
  <2> HIDE DEF own, base, wrote, new
  <2>1. /\ PathOf(n, rec, s) \in Path /\ PathOf(n, rec, s).dir = n
        /\ PathOf(n, rec, s).rec = rec /\ PathOf(n, rec, s).slot = Slot[s]
    BY DEF PathOf, Path
  <2> QED
    BY <2>1
<1> HIDE DEF p
<1>7. Evolves(wrote, new, {}) /\ new.profile = wrote.profile
  BY <1>5, <1>6, AddRowKeeps
<1> HIDE DEF new
<1>8. Evolves(base, wrote, Shared(st)) /\ Evolves(wrote, new, Shared(st))
  BY <1>4, <1>7, EvolvesMore
<1>9. Evolves(st, wrote, Shared(st))
  BY <1>2, <1>8, EvolvesTwice
<1>10. Evolves(st, new, Shared(st))
  BY <1>8, <1>9, EvolvesTwice
<1> QED
  BY <1>1, <1>2, <1>4, <1>7, <1>10

----------------------------------------------------------------------------
(* Rows that are deleted and added again *)

LEMMA ImageIsFinite ==
  ASSUME NEW f, IsFiniteSet(DOMAIN f)
  PROVE  IsFiniteSet({f[x] : x \in DOMAIN f})
<1> DEFINE T == {f[x] : x \in DOMAIN f}
           g == [x \in DOMAIN f |-> f[x]]
<1>1. g \in Surjection(DOMAIN f, T)
  BY DEF Surjection
<1> HIDE DEF g, T
<1>2. IsFiniteSet(T)
  BY <1>1, FS_Surjection
<1> QED
  BY <1>2 DEF T

LEMMA UnionIsFinite ==
  ASSUME NEW S, NEW T, IsFiniteSet(S), IsFiniteSet(T)
  PROVE  IsFiniteSet(S \cup T)
BY FS_Union

(* Rows in the order of their ids *)
LEMMA RanksDiffer ==
  ASSUME NEW R, IsFiniteSet(R), \A r \in R : r.id \in Nat,
         \A r, q \in R : r.id = q.id => r = q
  PROVE  LET rank(r) == Cardinality({q \in R : q.id < r.id}) IN
         /\ Cardinality(R) \in Nat
         /\ \A r \in R : rank(r) \in Nat /\ rank(r) < Cardinality(R)
         /\ \A r, q \in R : rank(r) = rank(q) => r = q
<1> DEFINE below(r) == {q \in R : q.id < r.id}
<1>1. Cardinality(R) \in Nat
  BY FS_CardinalityType
<1>2. ASSUME NEW r \in R
      PROVE  /\ IsFiniteSet(below(r)) /\ Cardinality(below(r)) \in Nat
             /\ Cardinality(below(r)) < Cardinality(R)
  <2>1. IsFiniteSet(R \ {r}) /\ Cardinality(R \ {r}) = Cardinality(R) - 1
    BY FS_RemoveElement
  <2>2. below(r) \subseteq R \ {r}
    OBVIOUS
  <2> HIDE DEF below
  <2>3. IsFiniteSet(below(r)) /\ Cardinality(below(r)) <= Cardinality(R \ {r})
    BY <2>1, <2>2, FS_Subset
  <2>4. Cardinality(below(r)) \in Nat
    BY <2>3, FS_CardinalityType
  <2> QED
    BY <1>1, <2>1, <2>3, <2>4
<1>3. ASSUME NEW r \in R, NEW q \in R, r.id < q.id
      PROVE  Cardinality(below(r)) < Cardinality(below(q))
  <2>1. IsFiniteSet(below(q)) /\ r \in below(q)
    BY <1>2, <1>3
  <2>2. IsFiniteSet(below(q) \ {r}) /\ Cardinality(below(q) \ {r}) = Cardinality(below(q)) - 1
    <3> HIDE DEF below
    <3> QED
      BY <2>1, FS_RemoveElement
  <2>3. below(r) \subseteq below(q) \ {r}
    BY <1>3
  <2> HIDE DEF below
  <2>4. Cardinality(below(r)) <= Cardinality(below(q) \ {r})
    BY <2>2, <2>3, FS_Subset
  <2>5. Cardinality(below(r)) \in Nat /\ Cardinality(below(q)) \in Nat
    BY <1>2
  <2> QED
    BY <2>2, <2>4, <2>5
<1>4. ASSUME NEW r \in R, NEW q \in R, Cardinality(below(r)) = Cardinality(below(q))
      PROVE  r = q
  <2>1. ~(r.id < q.id) /\ ~(q.id < r.id)
    <3>1. Cardinality(below(r)) \in Nat /\ Cardinality(below(q)) \in Nat
      BY <1>2
    <3> HIDE DEF below
    <3> QED
      BY <1>3, <1>4, <3>1
  <2>2. r.id = q.id
    BY <2>1
  <2> QED
    BY <2>2
<1> QED
  BY <1>1, <1>2, <1>4

(* Paths for rows that go to a directory *)
Rehomes(R, path, n) ==
    /\ path \in [R -> Path]
    /\ \A r \in R : /\ path[r].dir = n
                    /\ path[r].slot = r.path.slot /\ path[r].rec = r.path.rec

(* ... and what there is after they came: their rows are new. *)
Readded(st, new, R, n, path) ==
    /\ WellKept(new) /\ st.next <= new.next
    /\ new.profile = st.profile /\ new.disk = st.disk /\ new.dirs = st.dirs
    /\ st.rows \ R \subseteq new.rows
    /\ \A x \in new.rows \ (st.rows \ R) :
          /\ st.next <= x.id /\ x.name = n
          /\ \E r \in R : x.path = path[r]
    /\ \A r \in R : \E x \in new.rows : st.next <= x.id /\ x.path = path[r]
    /\ \A x, y \in new.rows \ (st.rows \ R) :
          x # y /\ x.path = y.path => \E r, q \in R : r # q /\ path[r] = path[q]

LEMMA AddAgainKeeps ==
  ASSUME NEW st, WellKept(st), NEW R \in SUBSET st.rows, NEW n \in Speakers,
         NEW path, Rehomes(R, path, n)
  PROVE  Readded(st, AddAgain(st, R, n, path), R, n, path)
<1> DEFINE new == AddAgain(st, R, n, path)
           rank(r) == Cardinality({q \in R : q.id < r.id})
           again(r) == [id |-> st.next + rank(r), name |-> n, path |-> path[r],
                        span |-> r.span, source |-> r.source, flagged |-> FALSE]
           added == {again(r) : r \in R}
           all == (st.rows \ R) \cup added
           last == st.next + Cardinality(R)
           mid == [st EXCEPT !.rows = all]
<1> USE DEF Rehomes
<1>0. IsStore(st) /\ st.next \in Nat /\ st.rows \subseteq Snippet /\ IsFiniteSet(R)
  BY StoreFields, FS_Subset DEF WellKept
<1>1. /\ Cardinality(R) \in Nat
      /\ \A r \in R : rank(r) \in Nat /\ rank(r) < Cardinality(R)
      /\ \A r, q \in R : rank(r) = rank(q) => r = q
  <2>1. (\A r \in R : r.id \in Nat) /\ \A r, q \in R : r.id = q.id => r = q
    BY <1>0, SnippetFields DEF WellKept, IdsAreUsedOnce
  <2> QED
    BY <1>0, <2>1, RanksDiffer
<1>2. new = [st EXCEPT !.rows = all, !.next = last]
  <2> DEFINE id == [r \in R |-> st.next + Cardinality({q \in R : q.id < r.id})]
             again2(r) == [id |-> id[r], name |-> n, path |-> path[r], span |-> r.span,
                           source |-> r.source, flagged |-> FALSE]
  <2>1. \A r \in R : again2(r) = again(r)
    OBVIOUS
  <2>2. {again2(r) : r \in R} = added
    <3> HIDE DEF again, again2
    <3> QED
      BY <2>1
  <2>3. new = [st EXCEPT !.rows = (st.rows \ R) \cup {again2(r) : r \in R}, !.next = last]
    BY DEF AddAgain
  <2> HIDE DEF again2, added, again, new, last
  <2> QED
    BY <2>2, <2>3
<1> HIDE DEF new, rank
<1>3. ASSUME NEW r \in R
      PROVE  /\ again(r) \in Snippet /\ again(r).id = st.next + rank(r) /\ again(r).name = n
             /\ again(r).path = path[r] /\ again(r).span = r.span
             /\ again(r).source = r.source
  <2>1. r \in Snippet /\ rank(r) \in Nat /\ st.next + rank(r) \in Nat
    BY <1>0, <1>1
  <2>2. path[r] \in Path
    OBVIOUS
  <2> QED
    BY <2>1, <2>2, SnippetFields DEF Snippet
<1> HIDE DEF again
<1>4. /\ \A x \in added : \E r \in R : x = again(r)
      /\ \A r \in R : again(r) \in added
  OBVIOUS
<1> HIDE DEF added
<1>13. last = st.next + Cardinality(R)
  OBVIOUS
<1> HIDE DEF all, last
<1>5. new = [mid EXCEPT !.next = last]
  BY <1>0, <1>2, StoreFields
<1>6. /\ mid = [profile |-> mid.profile, rows |-> mid.rows, disk |-> mid.disk,
                dirs |-> mid.dirs, next |-> mid.next]
      /\ mid.rows = all /\ mid.profile = st.profile /\ mid.disk = st.disk
      /\ mid.dirs = st.dirs
  BY <1>0, StoreFields
<1> HIDE DEF mid
<1>7. /\ new = [profile |-> new.profile, rows |-> new.rows, disk |-> new.disk,
                dirs |-> new.dirs, next |-> new.next]
      /\ new.rows = all /\ new.profile = st.profile /\ new.disk = st.disk
      /\ new.dirs = st.dirs /\ new.next = last
  BY <1>5, <1>6
<1>8. last \in Nat /\ st.next <= last
  BY <1>0, <1>1, <1>13
<1>9. IsStore(new)
  <2>1. all \subseteq Snippet
    BY <1>0, <1>3, <1>4 DEF all
  <2> QED
    BY <1>0, <1>7, <1>8, <2>1, StoreFields, StoreOf
<1>10. IsFiniteSet(new.rows)
  <2>1. IsFiniteSet(added)
    <3> DEFINE f == [r \in R |-> again(r)]
    <3>1. DOMAIN f = R /\ {f[r] : r \in DOMAIN f} = added
      BY DEF added
    <3> HIDE DEF f
    <3> QED
      BY <1>0, <3>1, ImageIsFinite
  <2>2. IsFiniteSet(st.rows \ R)
    BY FS_Subset DEF WellKept
  <2> QED
    BY <1>7, <2>1, <2>2, UnionIsFinite DEF all
<1>11. AtHome(new)
  <2>1. ASSUME NEW x \in added
        PROVE  /\ x.path.dir = x.name /\ x.path.slot = Slot[x.span]
               /\ x.source # None => x.source = x.path.rec
    BY <1>3, <1>4, <2>1 DEF WellKept, AtHome
  <2> QED
    BY <1>7, <2>1 DEF AtHome, WellKept, all
<1>12. IdsAreUsedOnce(new)
  <2>1. \A r \in st.rows : r.id \in Nat /\ r.id < st.next
    BY <1>0, SnippetFields DEF WellKept, IdsAreUsedOnce
  <2>2. \A x \in added : st.next <= x.id /\ x.id < last
    <3> SUFFICES ASSUME NEW r \in R
                 PROVE  st.next <= again(r).id /\ again(r).id < last
      BY <1>4
    <3> QED
      BY <1>0, <1>1, <1>3, <1>13
  <2>3. \A x \in new.rows : x.id < new.next
    BY <1>0, <1>7, <1>8, <2>1, <2>2 DEF all
  <2>4. ASSUME NEW r \in R, NEW q \in R, again(r).id = again(q).id
        PROVE  again(r) = again(q)
    <3>1. rank(r) \in Nat /\ rank(q) \in Nat
      BY <1>1
    <3>2. again(r).id = st.next + rank(r) /\ again(q).id = st.next + rank(q)
      BY <1>3
    <3>3. \A i, j \in Nat : st.next + i = st.next + j => i = j
      BY <1>0
    <3>4. st.next + rank(r) = st.next + rank(q)
      BY <2>4, <3>2
    <3>5. rank(r) = rank(q)
      <4> HIDE DEF rank, again
      <4> QED
        BY <3>1, <3>3, <3>4
    <3> QED
      BY <1>1, <3>5
  <2>5. \A x, y \in added : x.id = y.id => x = y
    BY <1>4, <2>4
  <2>8. \A x \in new.rows, y \in new.rows : x.id = y.id => x = y
    <3> SUFFICES ASSUME NEW x \in new.rows, NEW y \in new.rows, x.id = y.id
                 PROVE  x = y
      OBVIOUS
    <3>1. CASE x \in added /\ y \in added
      BY <2>5, <3>1
    <3>2. CASE x \in st.rows /\ y \in st.rows
      BY <3>2 DEF WellKept, IdsAreUsedOnce
    <3>3. ~(x \in added /\ y \in st.rows) /\ ~(x \in st.rows /\ y \in added)
      <4>1. \A u \in added, v \in st.rows : u.id # v.id
        BY <1>0, <2>1, <2>2
      <4> QED
        BY <4>1
    <3> QED
      BY <1>7, <3>1, <3>2, <3>3 DEF all
  <2> QED
    BY <2>3, <2>8 DEF IdsAreUsedOnce
<1>14. WellKept(new)
  BY <1>7, <1>9, <1>10, <1>11, <1>12 DEF WellKept, FilesInPlace
<1>15. \A x \in new.rows \ (st.rows \ R) : x \in added
  BY <1>7 DEF all
<1>16. ASSUME NEW r \in R
       PROVE  st.next <= again(r).id /\ again(r).name = n /\ again(r).path = path[r]
  BY <1>0, <1>1, <1>3
<1>17. st.rows \ R \subseteq new.rows
  BY <1>7 DEF all
<1>18. \A x \in new.rows \ (st.rows \ R) :
          st.next <= x.id /\ x.name = n /\ \E r \in R : x.path = path[r]
  BY <1>4, <1>15, <1>16
<1>19. ASSUME NEW x \in new.rows \ (st.rows \ R), NEW y \in new.rows \ (st.rows \ R),
              x # y, x.path = y.path
       PROVE  \E r, q \in R : r # q /\ path[r] = path[q]
  <2>1. PICK r \in R : x = again(r)
    BY <1>4, <1>15
  <2>2. PICK q \in R : y = again(q)
    BY <1>4, <1>15
  <2>3. r # q
    BY <1>19, <2>1, <2>2
  <2>4. path[r] = path[q]
    BY <1>16, <1>19, <2>1, <2>2
  <2> QED
    BY <2>3, <2>4
<1>20. \A r \in R : \E x \in new.rows : st.next <= x.id /\ x.path = path[r]
  BY <1>4, <1>7, <1>16 DEF all
<1> QED
  BY <1>7, <1>8, <1>14, <1>17, <1>18, <1>19, <1>20 DEF new, Readded

(* Files of one directory that go to another *)
LEMMA MoveFields ==
  ASSUME NEW st, IsStore(st), NEW P, NEW a, NEW b
  PROVE  LET new == MoveFiles(st, P, a, b) IN
         /\ new = [profile |-> new.profile, rows |-> new.rows, disk |-> new.disk,
                   dirs |-> new.dirs, next |-> new.next]
         /\ new.dirs = st.dirs \cup {b} /\ new.profile = st.profile /\ new.rows = st.rows
         /\ new.next = st.next /\ new.disk = Move(st.disk, P, a, b)
<1> DEFINE new == MoveFiles(st, P, a, b)
           files == Move(st.disk, P, a, b)
           D == st.dirs \cup {b}
           mid == [st EXCEPT !.dirs = D]
<1>1. new = [st EXCEPT !.disk = files, !.dirs = D]
  BY DEF MoveFiles
<1> HIDE DEF new, files, D
<1>2. new = [mid EXCEPT !.disk = files]
  BY <1>1, StoreFields
<1>3. /\ mid = [profile |-> mid.profile, rows |-> mid.rows, disk |-> mid.disk,
                dirs |-> mid.dirs, next |-> mid.next]
      /\ mid.dirs = D /\ mid.profile = st.profile /\ mid.rows = st.rows
      /\ mid.next = st.next
  BY StoreFields
<1> HIDE DEF mid
<1>4. /\ new = [profile |-> new.profile, rows |-> new.rows, disk |-> new.disk,
                dirs |-> new.dirs, next |-> new.next]
      /\ new.dirs = D /\ new.profile = st.profile /\ new.rows = st.rows
      /\ new.next = st.next /\ new.disk = files
  BY <1>2, <1>3
<1> QED
  BY <1>4 DEF new, files, D

LEMMA MoveKeeps ==
  ASSUME NEW st, WellKept(st), NEW a \in Speakers, NEW b \in Speakers,
         NEW P \in SUBSET FilesOf(st.disk, a)
  PROVE  LET new == MoveFiles(st, P, a, b) IN
         /\ WellKept(new) /\ new.profile = st.profile /\ new.rows = st.rows
         /\ new.next = st.next /\ new.dirs = st.dirs \cup {b}
         /\ DOMAIN new.disk = (DOMAIN st.disk \ P) \cup {InDir(p, b) : p \in P}
<1> DEFINE new == MoveFiles(st, P, a, b)
           files == Move(st.disk, P, a, b)
           shifted == {InDir(p, b) : p \in P}
           D == st.dirs \cup {b}
<1>0. /\ IsStore(st) /\ P \subseteq DOMAIN st.disk /\ DOMAIN st.disk \subseteq Path
      /\ \A p \in P : p.dir = a
      /\ st.disk \in [DOMAIN st.disk -> Clip]
      /\ D \subseteq Speakers /\ b \in D /\ \A p \in DOMAIN st.disk : p.dir \in D
  BY StoreFields DEF WellKept, FilesOf, FilesInPlace
<1>1. /\ DOMAIN files = (DOMAIN st.disk \ P) \cup shifted
      /\ \A q \in shifted : files[q] = st.disk[InDir(q, a)]
      /\ \A q \in DOMAIN files : q \notin shifted => files[q] = st.disk[q]
  BY DEF Move
<1>2. ASSUME NEW q \in shifted
      PROVE  \E p \in P : /\ InDir(q, a) = p /\ q \in Path
                          /\ q.dir = b /\ q.slot = p.slot
  <2>1. PICK p \in P : q = InDir(p, b)
    OBVIOUS
  <2>2. p \in Path /\ p.dir = a
    BY <1>0
  <2>3. q \in Path /\ q.dir = b /\ q.slot = p.slot /\ InDir(q, p.dir) = p
    BY <2>1, <2>2, InDirFields
  <2> QED
    BY <2>2, <2>3
<1>3. IsFiniteSet(shifted)
  <2>1. IsFiniteSet(P)
    BY <1>0, FS_Subset DEF WellKept
  <2> DEFINE f == [p \in P |-> InDir(p, b)]
  <2>2. DOMAIN f = P /\ {f[p] : p \in DOMAIN f} = shifted
    OBVIOUS
  <2> HIDE DEF f, shifted
  <2> QED
    BY <2>1, <2>2, ImageIsFinite
<1> HIDE DEF shifted
<1>4. /\ new = [profile |-> new.profile, rows |-> new.rows, disk |-> new.disk,
                dirs |-> new.dirs, next |-> new.next]
      /\ new.dirs = D /\ new.profile = st.profile /\ new.rows = st.rows
      /\ new.next = st.next /\ new.disk = files
  BY <1>0, MoveFields
<1>5. files = [q \in DOMAIN files |-> files[q]]
  BY DEF Move
<1> HIDE DEF new, files, D
<1>9. ASSUME NEW q \in DOMAIN files
      PROVE  q \in Path /\ files[q] \in Clip /\ q.dir \in D /\ q.slot = Slot[files[q].span]
  <2>1. CASE q \in shifted
    BY <1>0, <1>1, <1>2, <2>1 DEF WellKept, FilesInPlace
  <2>2. CASE q \notin shifted
    BY <1>0, <1>1, <2>2 DEF WellKept, FilesInPlace
  <2> QED
    BY <2>1, <2>2
<1>10. files \in [DOMAIN files -> Clip]
  BY <1>5, <1>9
<1>11. IsStore(new)
  BY <1>0, <1>4, <1>9, <1>10, StoreFields, StoreOf
<1>12. IsFiniteSet(DOMAIN new.disk)
  <2>1. IsFiniteSet(DOMAIN st.disk \ P)
    BY FS_Subset DEF WellKept
  <2> QED
    BY <1>1, <1>3, <1>4, <2>1, UnionIsFinite
<1>13. WellKept(new)
  BY <1>4, <1>9, <1>11, <1>12 DEF WellKept, AtHome, FilesInPlace, IdsAreUsedOnce
<1> QED
  BY <1>1, <1>4, <1>13 DEF new, shifted, D

----------------------------------------------------------------------------
(* Rows that change *)

LEMMA RowsMapped ==
  ASSUME NEW st, WellKept(st), NEW g, DOMAIN g = st.rows,
         \A r \in st.rows : /\ g[r] \in Snippet /\ g[r].id = r.id
                            /\ g[r].path.dir = g[r].name /\ g[r].path.slot = r.path.slot
                            /\ g[r].path.rec = r.path.rec
                            /\ g[r].span = r.span /\ g[r].source = r.source
  PROVE  LET new == [st EXCEPT !.rows = {g[r] : r \in DOMAIN g}] IN
         /\ WellKept(new) /\ new.profile = st.profile /\ new.disk = st.disk
         /\ new.rows = {g[r] : r \in DOMAIN g} /\ new.next = st.next
<1> DEFINE all == {g[r] : r \in DOMAIN g}
           new == [st EXCEPT !.rows = all]
<1>1. IsFiniteSet(all)
  BY ImageIsFinite DEF WellKept
<1>2. /\ new = [profile |-> new.profile, rows |-> new.rows, disk |-> new.disk,
                dirs |-> new.dirs, next |-> new.next]
      /\ new.rows = all /\ new.profile = st.profile /\ new.disk = st.disk
      /\ new.dirs = st.dirs /\ new.next = st.next
  <2> HIDE DEF all
  <2> QED
    BY StoreFields DEF WellKept
<1>3. \A x \in all : \E r \in st.rows : x = g[r]
  OBVIOUS
<1> HIDE DEF new, all
<1>4. IsStore(new)
  <2>1. new.rows \subseteq Snippet
    BY <1>2, <1>3
  <2> QED
    BY <1>2, <2>1, StoreFields, StoreOf DEF WellKept
<1>5. AtHome(new)
  BY <1>2, <1>3 DEF AtHome, WellKept
<1>6. IdsAreUsedOnce(new)
  BY <1>2, <1>3 DEF IdsAreUsedOnce, WellKept
<1>7. WellKept(new)
  BY <1>1, <1>2, <1>4, <1>5, <1>6 DEF WellKept, FilesInPlace
<1> QED
  BY <1>2, <1>7 DEF new, all

(* No rows share a file that did not before. *)
SharesNoMore(st, new) ==
    \A x, y \in new.rows :
        x # y /\ x.path = y.path =>
            \E r, q \in st.rows : r # q /\ r.path = q.path /\ r.id = x.id /\ q.id = y.id

LEMMA FlagsKeep ==
  ASSUME NEW st, WellKept(st), NEW h \in [st.rows -> BOOLEAN]
  PROVE  LET new == [st EXCEPT !.rows = {[r EXCEPT !.flagged = h[r]] : r \in st.rows}] IN
         /\ Evolves(st, new, {}) /\ SharesNoMore(st, new) /\ new.profile = st.profile
<1> DEFINE g == [r \in st.rows |-> [r EXCEPT !.flagged = h[r]]]
           all == {g[r] : r \in DOMAIN g}
           new == [st EXCEPT !.rows = all]
<1>1. all = {[r EXCEPT !.flagged = h[r]] : r \in st.rows}
  OBVIOUS
<1>2. ASSUME NEW r \in st.rows
      PROVE  /\ g[r] \in Snippet /\ g[r].id = r.id /\ g[r].name = r.name /\ g[r].path = r.path
             /\ g[r].span = r.span /\ g[r].source = r.source
  <2>1. r \in Snippet /\ h[r] \in BOOLEAN
    BY StoreFields DEF WellKept
  <2>2. g[r] = [r EXCEPT !.flagged = h[r]]
    OBVIOUS
  <2> HIDE DEF g
  <2> QED
    BY <2>1, <2>2, SnippetFields DEF Snippet
<1>3. DOMAIN g = st.rows
  OBVIOUS
<1>4. \A r \in st.rows : r.path.dir = r.name
  BY DEF WellKept, AtHome
<1> HIDE DEF g
<1>5. /\ WellKept(new) /\ new.profile = st.profile /\ new.disk = st.disk
      /\ new.rows = all /\ new.next = st.next
  BY <1>2, <1>3, <1>4, RowsMapped
<1>6. \A x \in all : \E r \in st.rows : x = g[r]
  BY <1>3
<1> HIDE DEF new, all
<1>7. st.next <= new.next
  BY <1>5, StoreFields DEF WellKept
<1>8. Evolves(st, new, {})
  BY <1>2, <1>5, <1>6, <1>7 DEF Evolves, Dead
<1>9. SharesNoMore(st, new)
  BY <1>2, <1>5, <1>6 DEF SharesNoMore
<1> QED
  BY <1>1, <1>5, <1>8, <1>9 DEF new

LEMMA KeepFlaggedKeeps ==
  ASSUME NEW st, WellKept(st), NEW n
  PROVE  Evolves(st, KeepFlagged(st, n), {}) /\ KeepFlagged(st, n).profile = st.profile
<1> DEFINE h == [r \in st.rows |-> IF r.name = n THEN FALSE ELSE r.flagged]
           marked(r) == IF r.name = n THEN [r EXCEPT !.flagged = FALSE] ELSE r
<1>1. ASSUME NEW r \in st.rows
      PROVE  h[r] \in BOOLEAN /\ [r EXCEPT !.flagged = h[r]] = marked(r)
  <2>1. r \in Snippet
    BY StoreFields DEF WellKept
  <2> QED
    BY <2>1, SnippetFields
<1>2. h \in [st.rows -> BOOLEAN]
  BY <1>1
<1>3. {[r EXCEPT !.flagged = h[r]] : r \in st.rows} = {marked(r) : r \in st.rows}
  <2> DEFINE f(r) == [r EXCEPT !.flagged = h[r]]
  <2>1. \A r \in st.rows : f(r) = marked(r)
    BY <1>1
  <2> HIDE DEF f, marked
  <2>2. {f(r) : r \in st.rows} = {marked(r) : r \in st.rows}
    BY <2>1
  <2> QED
    BY <2>2 DEF f
<1>4. KeepFlagged(st, n) = [st EXCEPT !.rows = {marked(r) : r \in st.rows}]
  BY DEF KeepFlagged
<1> HIDE DEF h, marked
<1> QED
  <2> DEFINE new == [st EXCEPT !.rows = {[r EXCEPT !.flagged = h[r]] : r \in st.rows}]
  <2>1. Evolves(st, new, {}) /\ new.profile = st.profile
    BY <1>2, FlagsKeep
  <2>2. new = KeepFlagged(st, n)
    BY <1>3, <1>4
  <2> QED
    BY <2>1, <2>2

LEMMA MarkOutliersKeeps ==
  ASSUME NEW st, WellKept(st), NEW scored, NEW accused
  PROVE  LET new == MarkOutliers(st, scored, accused) IN
         Evolves(st, new, {}) /\ SharesNoMore(st, new) /\ new.profile = st.profile
<1> DEFINE h == [r \in st.rows |-> IF r.id \in scored THEN r.id \in accused ELSE r.flagged]
           mark(r) == IF r.id \in scored THEN [r EXCEPT !.flagged = r.id \in accused] ELSE r
<1>1. ASSUME NEW r \in st.rows
      PROVE  h[r] \in BOOLEAN /\ [r EXCEPT !.flagged = h[r]] = mark(r)
  <2>1. r \in Snippet /\ r = [r EXCEPT !.flagged = r.flagged] /\ r.flagged \in BOOLEAN
    BY StoreFields, SnippetFields DEF WellKept
  <2>2. (r.id \in accused) \in BOOLEAN
    OBVIOUS
  <2>3. CASE r.id \in scored
    <3>1. h[r] = (r.id \in accused) /\ mark(r) = [r EXCEPT !.flagged = r.id \in accused]
      BY <2>3
    <3> HIDE DEF h, mark
    <3> QED
      BY <2>2, <3>1
  <2>4. CASE r.id \notin scored
    <3>1. h[r] = r.flagged /\ mark(r) = r
      BY <2>4
    <3> HIDE DEF h, mark
    <3> QED
      BY <2>1, <3>1
  <2> QED
    BY <2>3, <2>4
<1>2. h \in [st.rows -> BOOLEAN]
  BY <1>1
<1>3. {[r EXCEPT !.flagged = h[r]] : r \in st.rows} = {mark(r) : r \in st.rows}
  <2> DEFINE f(r) == [r EXCEPT !.flagged = h[r]]
  <2>1. \A r \in st.rows : f(r) = mark(r)
    BY <1>1
  <2> HIDE DEF f, mark
  <2>2. {f(r) : r \in st.rows} = {mark(r) : r \in st.rows}
    BY <2>1
  <2> QED
    BY <2>2 DEF f
<1>4. MarkOutliers(st, scored, accused) = [st EXCEPT !.rows = {mark(r) : r \in st.rows}]
  BY DEF MarkOutliers
<1> HIDE DEF h, mark
<1> QED
  <2> DEFINE new == [st EXCEPT !.rows = {[r EXCEPT !.flagged = h[r]] : r \in st.rows}]
  <2>1. Evolves(st, new, {}) /\ SharesNoMore(st, new) /\ new.profile = st.profile
    BY <1>2, FlagsKeep
  <2>2. new = MarkOutliers(st, scored, accused)
    BY <1>3, <1>4
  <2> QED
    BY <2>1, <2>2

----------------------------------------------------------------------------
(* Names *)

LEMMA Repointed ==
  ASSUME NEW r \in Snippet, NEW a \in Speakers, NEW b \in Speakers, r.path.dir = a
  PROVE  /\ Repoint(r, a, b) \in Snippet /\ Repoint(r, a, b).id = r.id
         /\ Repoint(r, a, b).name = r.name /\ Repoint(r, a, b).span = r.span
         /\ Repoint(r, a, b).source = r.source
         /\ Repoint(r, a, b).path = InDir(r.path, b)
<1>1. Repoint(r, a, b) = [r EXCEPT !.path = InDir(r.path, b)]
  BY SnippetFields DEF Repoint
<1> DEFINE p == InDir(r.path, b)
<1>2. p \in Path
  BY SnippetFields, InDirFields
<1> HIDE DEF p
<1>3. Repoint(r, a, b) = [r EXCEPT !.path = p]
  BY <1>1 DEF p
<1>4. [r EXCEPT !.path = p] = [id |-> r.id, name |-> r.name, path |-> p, span |-> r.span,
                               source |-> r.source, flagged |-> r.flagged]
  BY SnippetFields
<1>5. [r EXCEPT !.path = p] \in Snippet
  BY <1>2, <1>4, SnippetFields DEF Snippet
<1> QED
  BY <1>3, <1>4, <1>5 DEF p

(* A directory that moves, with all its files *)
LEMMA DirMoves ==
  ASSUME NEW st, WellKept(st), NEW a \in Speakers, NEW b \in Speakers, a # b
  PROVE  LET new == MoveDir(st, a, b) IN
         /\ WellKept(new) /\ new.profile = st.profile /\ new.rows = st.rows
         /\ new.next = st.next
         /\ \A p \in DOMAIN st.disk :
               IF p.dir = a THEN InDir(p, b) \in DOMAIN new.disk
               ELSE p \in DOMAIN new.disk
         /\ \A p \in DOMAIN new.disk : p.dir = b \/ p \in DOMAIN st.disk
<1> DEFINE P == FilesOf(st.disk, a)
           mid == MoveFiles(st, P, a, b)
           D == mid.dirs \ {a}
           new == [mid EXCEPT !.dirs = D]
<1>1. MoveDir(st, a, b) = new
  BY DEF MoveDir
<1>2. \A p \in DOMAIN st.disk : p \in P <=> p.dir = a
  BY DEF FilesOf
<1>3. P \in SUBSET FilesOf(st.disk, a) /\ P \subseteq DOMAIN st.disk
  BY DEF FilesOf
<1> HIDE DEF P
<1>4. /\ WellKept(mid) /\ mid.profile = st.profile /\ mid.rows = st.rows
      /\ mid.next = st.next /\ mid.dirs = st.dirs \cup {b}
      /\ DOMAIN mid.disk = (DOMAIN st.disk \ P) \cup {InDir(p, b) : p \in P}
  BY <1>3, MoveKeeps
<1> HIDE DEF mid
<1>5. \A p \in P : p \in Path /\ InDir(p, b).dir = b
  BY <1>3, StoreFields, InDirFields DEF WellKept
<1>6. D \in SUBSET Speakers /\ \A p \in DOMAIN mid.disk : p.dir \in D
  <2>1. mid.dirs \in SUBSET Speakers /\ \A p \in DOMAIN mid.disk : p.dir \in mid.dirs
    BY <1>4, StoreFields DEF WellKept, FilesInPlace
  <2>2. \A p \in DOMAIN mid.disk : p.dir # a
    BY <1>2, <1>4, <1>5
  <2> QED
    BY <2>1, <2>2
<1> HIDE DEF D
<1>7. /\ Evolves(mid, new, {}) /\ new.profile = mid.profile /\ new.rows = mid.rows
      /\ new.disk = mid.disk /\ new.next = mid.next
  BY <1>4, <1>6, DirsKept
<1> HIDE DEF new
<1>8. \A p \in DOMAIN st.disk :
         IF p.dir = a THEN InDir(p, b) \in DOMAIN new.disk
         ELSE p \in DOMAIN new.disk
  BY <1>2, <1>4, <1>7
<1>9. \A p \in DOMAIN new.disk : p.dir = b \/ p \in DOMAIN st.disk
  BY <1>4, <1>5, <1>7
<1> QED
  BY <1>1, <1>4, <1>7, <1>8, <1>9 DEF Evolves

LEMMA RenameSpeakerKeeps ==
  ASSUME NEW st, WellKept(st), NEW a \in Speakers, NEW b \in Speakers, a # b, ~Exists(st, b)
  PROVE  LET new == RenameSpeaker(st, a, b) IN
         Evolves(st, new, {}) /\ WaitOn(st, new, {a}) /\ KeepsFiles(st, new)
<1> DEFINE move(r) == IF r.name = a THEN Repoint([r EXCEPT !.name = b], a, b) ELSE r
           g == [r \in st.rows |-> move(r)]
           shifted == IF a \in st.dirs THEN MoveDir(st, a, b) ELSE st
           saved == IF Known(st, a)
                    THEN DeleteProfile(Save(shifted, b, st.profile[a].fitted), a) ELSE shifted
           all == {g[r] : r \in DOMAIN g}
           new == [saved EXCEPT !.rows = all]
<1>0. RenameSpeaker(st, a, b) = new
  <2>1. {move(r) : r \in st.rows} = all
    <3> HIDE DEF move
    <3> QED
      OBVIOUS
  <2>2. RenameSpeaker(st, a, b) = [saved EXCEPT !.rows = {move(r) : r \in st.rows}]
    BY DEF RenameSpeaker
  <2> HIDE DEF all, saved, move
  <2> QED
    BY <2>1, <2>2
<1>1. /\ WellKept(shifted) /\ shifted.profile = st.profile /\ shifted.rows = st.rows
      /\ shifted.next = st.next
      /\ \A p \in DOMAIN st.disk :
            IF p.dir = a THEN InDir(p, b) \in DOMAIN shifted.disk
            ELSE p \in DOMAIN shifted.disk
      /\ \A p \in DOMAIN shifted.disk : p.dir = b \/ p \in DOMAIN st.disk
  <2>1. CASE a \notin st.dirs
    <3>1. shifted = st
      BY <2>1
    <3>2. \A p \in DOMAIN st.disk : p.dir # a
      BY <2>1 DEF WellKept, FilesInPlace
    <3>3. \A p \in DOMAIN st.disk :
              IF p.dir = a THEN InDir(p, b) \in DOMAIN st.disk
              ELSE p \in DOMAIN st.disk
      BY <3>2
    <3> HIDE DEF shifted
    <3> QED
      BY <3>1, <3>3
  <2>2. CASE a \in st.dirs
    <3>1. shifted = MoveDir(st, a, b)
      BY <2>2
    <3> QED
      BY <3>1, DirMoves
  <2> HIDE DEF shifted
  <2> QED
    BY <2>1, <2>2
<1> HIDE DEF shifted
<1>2. IsStore(shifted) /\ IsStore(st)
  BY <1>1 DEF WellKept
<1>3. SameShelf(shifted, saved) /\ WaitOn(shifted, saved, {a})
  <2>1. CASE Known(st, a)
    <3> DEFINE mid == Save(shifted, b, st.profile[a].fitted)
    <3>1. st.profile[a].fitted \in SUBSET Clip
      BY <1>2, <2>1, StoreFields DEF Known, Profile
    <3>2. /\ SameShelf(shifted, mid) /\ WaitOn(shifted, mid, {})
          /\ \A m \in Speakers \ {b} : mid.profile[m] = shifted.profile[m]
      BY <1>2, <3>1, SaveShelf
    <3>3. saved = DeleteProfile(mid, a)
      BY <2>1
    <3> HIDE DEF mid, saved
    <3>4. IsStore(mid)
      BY <3>2 DEF SameShelf
    <3>5. SameShelf(mid, saved) /\ WaitOn(mid, saved, {a})
      BY <3>3, <3>4, DeleteProfileShelf
    <3>6. WaitOn(shifted, saved, {a})
      BY <3>2, <3>5 DEF WaitOn
    <3> QED
      BY <3>2, <3>5, <3>6, ShelfTwice
  <2>2. CASE ~Known(st, a)
    <3>1. saved = shifted
      BY <2>2
    <3> QED
      BY <1>2, <3>1 DEF SameShelf, WaitOn
  <2> QED
    BY <2>1, <2>2
<1> HIDE DEF saved
<1>4. ASSUME NEW r \in st.rows
      PROVE  /\ g[r] \in Snippet /\ g[r].id = r.id /\ g[r].path.dir = g[r].name
             /\ g[r].path.slot = r.path.slot /\ g[r].path.rec = r.path.rec
             /\ g[r].span = r.span /\ g[r].source = r.source
             /\ g[r].path = IF r.path.dir = a THEN InDir(r.path, b) ELSE r.path
  <2>1. r \in Snippet /\ r.path.dir = r.name
    BY <1>2, StoreFields DEF WellKept, AtHome
  <2>2. CASE r.name = a
    <3> DEFINE r2 == [r EXCEPT !.name = b]
    <3>1. /\ r2 \in Snippet /\ r2.id = r.id /\ r2.name = b /\ r2.path = r.path
          /\ r2.span = r.span /\ r2.source = r.source
      BY <2>1, SnippetFields DEF Snippet
    <3>2. g[r] = Repoint(r2, a, b)
      BY <2>2
    <3> HIDE DEF r2, g
    <3>3. /\ g[r] \in Snippet /\ g[r].id = r.id /\ g[r].name = b /\ g[r].span = r.span
          /\ g[r].source = r.source /\ g[r].path = InDir(r.path, b)
      BY <2>1, <2>2, <3>1, <3>2, Repointed
    <3>4. /\ InDir(r.path, b).dir = b /\ InDir(r.path, b).rec = r.path.rec
          /\ InDir(r.path, b).slot = r.path.slot
      BY <2>1, SnippetFields, InDirFields
    <3> QED
      BY <2>1, <2>2, <3>3, <3>4
  <2>3. CASE r.name # a
    <3>1. g[r] = r
      BY <2>3
    <3> HIDE DEF g
    <3> QED
      BY <2>1, <2>3, <3>1
  <2> QED
    BY <2>2, <2>3
<1>5. DOMAIN g = st.rows
  OBVIOUS
<1> HIDE DEF g
<1>6. WellKept(saved) /\ saved.rows = st.rows /\ saved.next = st.next
      /\ saved.disk = shifted.disk
  BY <1>1, <1>3, ShelfEvolves DEF Evolves, SameShelf
<1>7. /\ WellKept(new) /\ new.profile = saved.profile /\ new.disk = saved.disk
      /\ new.rows = all /\ new.next = saved.next
  <2>1. \A r \in saved.rows : /\ g[r] \in Snippet /\ g[r].id = r.id
                              /\ g[r].path.dir = g[r].name /\ g[r].path.slot = r.path.slot
                              /\ g[r].path.rec = r.path.rec
                              /\ g[r].span = r.span /\ g[r].source = r.source
    BY <1>4, <1>6
  <2>2. DOMAIN g = saved.rows
    BY <1>5, <1>6
  <2> QED
    BY <1>6, <2>1, <2>2, RowsMapped
<1>8. \A x \in all : \E r \in st.rows : x = g[r]
  BY <1>5
<1>12. \A r \in st.rows : g[r] \in all
  BY <1>5
<1> HIDE DEF all, new
<1>9. Evolves(st, new, {})
  <2>1. st.next <= new.next
    BY <1>2, <1>6, <1>7, StoreFields
  <2>2. ASSUME NEW x \in new.rows, Dead(new, x)
        PROVE  \E q \in st.rows : q.id = x.id /\ Dead(st, q)
    <3>1. PICK r \in st.rows : x = g[r]
      BY <1>7, <1>8
    <3>2. r.path \notin DOMAIN st.disk
      BY <1>1, <1>4, <1>6, <1>7, <2>2, <3>1 DEF Dead
    <3> QED
      BY <1>4, <3>1, <3>2 DEF Dead
  <2>3. \A x \in new.rows : \E q \in st.rows : /\ q.id = x.id /\ q.path.slot = x.path.slot
                                               /\ q.path.rec = x.path.rec
    <3> SUFFICES ASSUME NEW x \in new.rows
                 PROVE  \E q \in st.rows : /\ q.id = x.id /\ q.path.slot = x.path.slot
                                            /\ q.path.rec = x.path.rec
      OBVIOUS
    <3>1. PICK r \in st.rows : x = g[r]
      BY <1>7, <1>8
    <3> QED
      BY <1>4, <3>1
  <2> QED
    BY <1>7, <2>1, <2>2, <2>3 DEF Evolves
<1>10. WaitOn(st, new, {a})
  BY <1>1, <1>3, <1>7 DEF WaitOn, IsPending, Known
<1>11. ASSUME NEW r \in st.rows, NEW x \in new.rows,
              r.id = x.id, r.path = x.path, ~Dead(new, x)
       PROVE  KeepsFile(st, new, x.path)
  <2>1. PICK q \in st.rows : x = g[q]
    BY <1>7, <1>8
  <2>2. q = r
    BY <1>4, <1>11, <2>1 DEF WellKept, IdsAreUsedOnce
  <2>3. ASSUME NEW y \in st.rows
        PROVE  /\ y.path \in Path /\ y.path.dir = y.name /\ y.path.dir # b
    BY <1>2, StoreFields, SnippetFields DEF WellKept, AtHome, Exists, RowsOf
  <2>4. x.path = r.path /\ x.path.dir # a /\ x.path.dir # b
    <3>1. r.path.dir = a => x.path = InDir(r.path, b) /\ InDir(r.path, b).dir = b
      BY <1>4, <2>1, <2>2, <2>3, InDirFields
    <3> QED
      BY <1>11, <2>3, <3>1
  <2>5. x.path \in DOMAIN st.disk
    BY <1>1, <1>6, <1>7, <1>11, <2>4 DEF Dead
  <2>6. ASSUME NEW y \in st.rows, y.path = x.path
        PROVE  \E z \in new.rows : z.id = y.id /\ z.path = x.path
    <3>1. g[y] \in new.rows
      BY <1>5, <1>7, <1>12
    <3> QED
      BY <1>4, <2>4, <2>6, <3>1
  <2> QED
    BY <2>5, <2>6 DEF KeepsFile
<1> QED
  BY <1>0, <1>9, <1>10, <1>11 DEF KeepsFiles

(* Rows of a speaker pointed at another directory, whose audio came along   *)
(* if there was such a directory to move and none to move it into           *)
LEMMA SnippetDirKeeps ==
  ASSUME NEW st, WellKept(st), NEW a \in Speakers, NEW b \in Speakers,
         a = b \/ ~Exists(st, b), NEW noted,
         ((a # b /\ b \in st.dirs) \/ \E r \in RowsOf(st, a) : Dead(st, r)) =>
             Ids(RowsOf(RenameSnippetDir(st, a, b), b)) \subseteq noted
  PROVE  LET new == RenameSnippetDir(st, a, b) IN
         /\ Evolves(st, new, noted) /\ new.profile = st.profile /\ Clear(st, new)
         /\ \A x, y \in new.rows :
               x # y /\ x.path = y.path =>
                  \/ x \in st.rows /\ y \in st.rows
                  \/ /\ x \in RowsOf(new, b) /\ y \in RowsOf(new, b)
                     /\ Ids(RowsOf(st, a)) \cap Shared(st) # {}
<1> DEFINE R == RowsOf(st, a)
           shifted == IF a \in st.dirs /\ b \notin st.dirs THEN MoveDir(st, a, b) ELSE st
           path == [r \in R |-> Repoint(r, a, b).path]
           new == RenameSnippetDir(st, a, b)
<1>0. new = AddAgain(shifted, R, b, path)
  BY DEF RenameSnippetDir
<1>1. IsStore(st) /\ R \in SUBSET st.rows /\ st.next \in Nat
  BY StoreFields DEF WellKept, RowsOf
<1>2. /\ WellKept(shifted) /\ shifted.profile = st.profile /\ shifted.rows = st.rows
      /\ shifted.next = st.next
      /\ \A p \in DOMAIN st.disk : p.dir # a => p \in DOMAIN shifted.disk
      /\ a = b \/ b \notin st.dirs =>
            \A p \in DOMAIN st.disk : p.dir = a => InDir(p, b) \in DOMAIN shifted.disk
      /\ \A p \in DOMAIN shifted.disk : p \in DOMAIN st.disk \/ (a # b /\ p.dir = b)
  <2>1. CASE a \in st.dirs /\ b \notin st.dirs
    <3>1. shifted = MoveDir(st, a, b) /\ a # b
      BY <2>1
    <3> HIDE DEF shifted
    <3> QED
      BY <3>1, DirMoves
  <2>2. CASE ~(a \in st.dirs /\ b \notin st.dirs)
    <3>1. shifted = st
      BY <2>2
    <3> HIDE DEF shifted
    <3>2. a # b /\ b \notin st.dirs => \A p \in DOMAIN st.disk : p.dir # a
      BY <2>2 DEF WellKept, FilesInPlace
    <3>3. ASSUME a = b, NEW p \in DOMAIN st.disk, p.dir = a
          PROVE  InDir(p, b) = p
      <4>1. p \in Path
        BY <1>1, StoreFields
      <4> QED
        BY <3>3, <4>1 DEF Path, InDir
    <3> QED
      BY <3>1, <3>2, <3>3
  <2> QED
    BY <2>1, <2>2
<1> HIDE DEF shifted
<1>3. ASSUME NEW r \in R
      PROVE  /\ r.path \in Path /\ r.path.dir = a /\ path[r] = InDir(r.path, b)
             /\ path[r] \in Path /\ path[r].dir = b
             /\ path[r].slot = r.path.slot /\ path[r].rec = r.path.rec
  <2>1. r \in Snippet /\ r.path \in Path /\ r.path.dir = a
    BY <1>1, StoreFields, SnippetFields DEF WellKept, AtHome, RowsOf
  <2>2. path[r] = Repoint(r, a, b).path /\ Repoint(r, a, b).path = InDir(r.path, b)
    BY <2>1, Repointed
  <2> HIDE DEF path
  <2> QED
    BY <2>1, <2>2, InDirFields
<1>4. path \in [R -> Path]
  BY <1>3
<1>5. ASSUME NEW r \in R, NEW q \in R, path[r] = path[q]
      PROVE  r.path = q.path
  <2>1. InDir(InDir(r.path, b), a) = r.path
    BY <1>3, InDirFields
  <2>2. InDir(InDir(q.path, b), a) = q.path
    BY <1>3, InDirFields
  <2> QED
    BY <1>3, <1>5, <2>1, <2>2
<1> HIDE DEF path
<1>6. /\ WellKept(new) /\ shifted.next <= new.next
      /\ new.profile = shifted.profile /\ new.disk = shifted.disk
      /\ shifted.rows \ R \subseteq new.rows
      /\ \A x \in new.rows \ (shifted.rows \ R) :
            /\ shifted.next <= x.id /\ x.name = b
            /\ \E r \in R : x.path = path[r]
      /\ \A r \in R : \E x \in new.rows : shifted.next <= x.id /\ x.path = path[r]
      /\ \A x, y \in new.rows \ (shifted.rows \ R) :
            x # y /\ x.path = y.path => \E r, q \in R : r # q /\ path[r] = path[q]
  <2>1. R \in SUBSET shifted.rows
    BY <1>1, <1>2
  <2>2. Rehomes(R, path, b)
    BY <1>3, <1>4 DEF Rehomes
  <2> HIDE DEF R, new
  <2> QED
    <3>1. Readded(shifted, new, R, b, path)
      BY <1>0, <1>2, <2>1, <2>2, AddAgainKeeps
    <3> QED
      BY <3>1 DEF Readded
<1>7. \A r \in R : r \in RowsOf(st, a)
  OBVIOUS
<1>8. ((a # b /\ b \in st.dirs) \/ \E r \in R : Dead(st, r)) => Ids(RowsOf(new, b)) \subseteq noted
  OBVIOUS
<1> HIDE DEF R, new
<1>9. Evolves(st, new, noted)
  <2>1. ASSUME NEW x \in new.rows
        PROVE  x \in st.rows \/ st.next <= x.id
    BY <1>2, <1>6
  <2>2. ASSUME NEW x \in new.rows, Dead(new, x)
        PROVE  x.id \in noted \/ \E q \in st.rows : q.id = x.id /\ Dead(st, q)
    <3>1. CASE x \in st.rows \ R
      <4>1. x.path.dir # a
        BY <3>1 DEF RowsOf, WellKept, AtHome, R
      <4>2. Dead(st, x)
        BY <1>2, <1>6, <2>2, <4>1 DEF Dead
      <4> QED
        BY <3>1, <4>2
    <3>2. CASE x \notin st.rows \ R
      <4>1. PICK r \in R : x.path = path[r]
        BY <1>2, <1>6, <3>2
      <4>2. x \in RowsOf(new, b)
        BY <1>2, <1>6, <3>2 DEF RowsOf
      <4>3. (a # b /\ b \in st.dirs) \/ Dead(st, r)
        <5> SUFFICES ASSUME a = b \/ b \notin st.dirs, r.path \in DOMAIN st.disk
                     PROVE  FALSE
          BY DEF Dead
        <5>1. InDir(r.path, b) \in DOMAIN shifted.disk
          BY <1>2, <1>3
        <5> QED
          BY <1>3, <1>6, <2>2, <4>1, <5>1 DEF Dead
      <4> QED
        BY <1>8, <4>2, <4>3 DEF Ids
    <3> QED
      BY <3>1, <3>2
  <2>3. st.next <= new.next
    BY <1>2, <1>6
  <2> QED
    BY <1>6, <2>1, <2>2, <2>3 DEF Evolves
<1>10. ASSUME NEW x \in new.rows, NEW y \in new.rows, x # y, x.path = y.path
       PROVE  \/ x \in st.rows /\ y \in st.rows
              \/ /\ x \in RowsOf(new, b) /\ y \in RowsOf(new, b)
                 /\ Ids(RowsOf(st, a)) \cap Shared(st) # {}
  <2>1. \A u \in new.rows : u.path.dir = u.name
    BY <1>6 DEF WellKept, AtHome
  <2>2. \A u \in st.rows \ R : u.name # b
    BY DEF Exists, RowsOf, R
  <2>3. \A u \in new.rows : u \notin st.rows \ R => u.name = b
    BY <1>2, <1>6
  <2>4. x.name = y.name
    BY <1>10, <2>1
  <2>5. CASE x \notin st.rows \ R
    <3>1. y \notin st.rows \ R /\ x.name = b /\ y.name = b
      BY <2>2, <2>3, <2>4, <2>5
    <3>2. PICK r \in R, q \in R : r # q /\ path[r] = path[q]
      BY <1>2, <1>6, <1>10, <2>5, <3>1
    <3>3. r.path = q.path
      BY <1>5, <3>2
    <3>4. r \in st.rows /\ q \in st.rows
      BY <1>1
    <3>5. r.id \in Ids(RowsOf(st, a)) /\ r.id \in Shared(st)
      BY <1>7, <3>2, <3>3, <3>4 DEF Ids, Shared
    <3> QED
      BY <3>1, <3>5 DEF RowsOf
  <2>6. CASE x \in st.rows \ R
    <3>1. y \in st.rows
      BY <2>2, <2>3, <2>4, <2>6
    <3> QED
      BY <2>6, <3>1
  <2> QED
    BY <2>5, <2>6
<1>11. Clear(st, new)
  <2>1. ASSUME NEW x \in new.rows
        PROVE  x \in st.rows \ R \/ st.next <= x.id
    BY <1>2, <1>6
  <2>2. ASSUME NEW x \in new.rows, x.id < st.next, ~Dead(new, x)
        PROVE  KeepsFile(st, new, x.path)
    <3>1. x \in st.rows \ R
      <4>1. x.id \in Nat
        BY <1>6, StoreFields, SnippetFields DEF WellKept
      <4> QED
        BY <1>1, <2>1, <2>2, <4>1
    <3>2. x.path.dir = x.name /\ x.name # a /\ (a # b => x.name # b)
      BY <3>1 DEF R, RowsOf, Exists, WellKept, AtHome
    <3>3. x.path \in DOMAIN st.disk
      BY <1>2, <1>6, <2>2, <3>2 DEF Dead
    <3>4. ASSUME NEW q \in st.rows, q.path = x.path
          PROVE  q \in new.rows
      BY <1>2, <1>6, <3>2, <3>4 DEF R, RowsOf, WellKept, AtHome
    <3> QED
      BY <3>3, <3>4 DEF KeepsFile
  <2> QED
    BY <2>1, <2>2 DEF Clear
<1> QED
  BY <1>2, <1>6, <1>9, <1>10, <1>11 DEF new

LEMMA ConfirmKeeps ==
  ASSUME NEW st, WellKept(st), NEW a \in Speakers, NEW b \in Speakers,
         a = b \/ ~Exists(st, b), NEW noted, NEW e,
         ((a # b /\ b \in st.dirs) \/ \E r \in RowsOf(st, a) : Dead(st, r)) =>
             Ids(RowsOf(ConfirmPending(st, a, b, e), b)) \subseteq noted
  PROVE  LET new == ConfirmPending(st, a, b, e) IN
         /\ Evolves(st, new, noted) /\ WaitOn(st, new, {a}) /\ Clear(st, new)
         /\ \A x, y \in new.rows :
               x # y /\ x.path = y.path =>
                  \/ x \in st.rows /\ y \in st.rows
                  \/ /\ x \in RowsOf(new, b) /\ y \in RowsOf(new, b)
                     /\ Ids(RowsOf(st, a)) \cap Shared(st) # {}
<1> DEFINE there == RenameSnippetDir(st, a, b)
           named == RenameProfile(there, a, b)
           flag == SetPending(named, b, FALSE)
           new == AutoRefine(flag, b, e)
<1>0. ConfirmPending(st, a, b, e) = new
  BY DEF ConfirmPending
<1>1. a # b => ~Known(st, b)
  BY DEF Exists
<1> DEFINE doubtful == (a # b /\ b \in st.dirs) \/ \E r \in RowsOf(st, a) : Dead(st, r)
           noted2 == noted \cup (IF doubtful THEN Ids(RowsOf(there, b)) ELSE {})
<1>2. /\ Evolves(st, there, noted2) /\ there.profile = st.profile /\ Clear(st, there)
      /\ \A x, y \in there.rows :
            x # y /\ x.path = y.path =>
               \/ x \in st.rows /\ y \in st.rows
               \/ /\ x \in RowsOf(there, b) /\ y \in RowsOf(there, b)
                  /\ Ids(RowsOf(st, a)) \cap Shared(st) # {}
  <2>1. ((a # b /\ b \in st.dirs) \/ \E r \in RowsOf(st, a) : Dead(st, r)) =>
            Ids(RowsOf(there, b)) \subseteq noted2
    OBVIOUS
  <2> HIDE DEF noted2
  <2> QED
    BY <2>1, SnippetDirKeeps
<1>3. noted2 = noted \cup (IF doubtful THEN Ids(RowsOf(there, b)) ELSE {})
  OBVIOUS
<1>15. doubtful => Ids(RowsOf(new, b)) \subseteq noted
  BY <1>0
<1> HIDE DEF noted2, there, doubtful
<1>4. IsStore(there) /\ WellKept(there) /\ (a # b => ~Known(there, b))
  BY <1>1, <1>2 DEF Evolves, WellKept, Known
<1>5. /\ SameShelf(there, named)
      /\ \A m \in Speakers \ {a, b} : named.profile[m] = there.profile[m]
  <2>1. CASE a # b
    BY <1>4, <2>1, RenameProfileShelf
  <2>2. CASE a = b
    <3>1. named = there
      BY <2>2 DEF RenameProfile
    <3> QED
      BY <1>4, <3>1 DEF SameShelf
  <2> QED
    BY <2>1, <2>2
<1> HIDE DEF named
<1>6. /\ SameShelf(named, flag)
      /\ \A m \in Speakers \ {b} : flag.profile[m] = named.profile[m]
  BY <1>5, SetPendingShelf DEF SameShelf
<1> HIDE DEF flag
<1>7. /\ SameShelf(flag, new)
      /\ \A m \in Speakers \ {b} : new.profile[m] = flag.profile[m]
  BY <1>6, AutoRefineShelf DEF SameShelf
<1> HIDE DEF new
<1>8. SameShelf(there, new)
  BY <1>5, <1>6, <1>7, ShelfTwice
<1>9. noted2 \subseteq noted
  <2>1. RowsOf(new, b) = RowsOf(there, b)
    BY <1>8 DEF SameShelf, RowsOf
  <2> QED
    BY <1>3, <1>15, <2>1
<1>10. Evolves(there, new, {}) /\ Evolves(there, new, noted)
  BY <1>4, <1>8, ShelfEvolves, EvolvesMore
<1>11. Evolves(st, there, noted)
  BY <1>2, <1>9, EvolvesMore
<1>12. Evolves(st, new, noted)
  BY <1>10, <1>11, EvolvesTwice
<1>13. WaitOn(st, new, {a})
  <2>1. \A m \in Speakers \ {a, b} : new.profile[m] = st.profile[m]
    BY <1>2, <1>5, <1>6, <1>7
  <2> QED
    BY <1>1, <2>1 DEF WaitOn, IsPending, Known
<1>14. new.rows = there.rows /\ Clear(st, new)
  BY <1>2, <1>8, ClearShelf DEF SameShelf
<1> QED
  BY <1>0, <1>2, <1>12, <1>13, <1>14 DEF RowsOf

LEMMA MergeKeeps ==
  ASSUME NEW st, WellKept(st), NEW into \in Speakers, NEW n \in Speakers, NEW e
  PROVE  LET new == MergeSpeakers(st, into, n, e) IN
         Evolves(st, new, Shared(st)) /\ WaitOn(st, new, {n}) /\ Clear(st, new)
<1> DEFINE R == Movable(st, into, n)
           P == {r.path : r \in R}
           there == MoveFiles(st, P, n, into)
           path == [r \in R |-> InDir(r.path, into)]
           shifted == AddAgain(there, R, into, path)
           gone == DeleteProfile(shifted, n)
           clean == CleanupSpeakerDir(gone, n)
           new == AutoRefine(clean, into, e)
<1>0. MergeSpeakers(st, into, n, e) = new
  BY DEF MergeSpeakers, MoveSnippets
<1>1. /\ IsStore(st) /\ R \in SUBSET st.rows
      /\ \A r \in R : r.path \in DOMAIN st.disk /\ r.path.dir = n
  BY DEF WellKept, Movable, RowsOf, Dead, AtHome
<1>2. P \in SUBSET FilesOf(st.disk, n)
  BY <1>1 DEF FilesOf
<1> HIDE DEF R
<1>3. \A r \in R : r.path \in P
  OBVIOUS
<1>4. \A p \in P : \E r \in R : p = r.path
  OBVIOUS
<1> HIDE DEF P
<1>5. /\ WellKept(there) /\ there.profile = st.profile /\ there.rows = st.rows
      /\ there.next = st.next
      /\ DOMAIN there.disk = (DOMAIN st.disk \ P) \cup {InDir(p, into) : p \in P}
  BY <1>2, MoveKeeps
<1> HIDE DEF there
<1>6. ASSUME NEW r \in R
      PROVE  /\ path[r] = InDir(r.path, into) /\ path[r] \in Path
             /\ path[r].dir = into
             /\ path[r].slot = r.path.slot /\ path[r].rec = r.path.rec
  <2>1. r.path \in Path
    BY <1>1, StoreFields
  <2>2. path[r] = InDir(r.path, into)
    OBVIOUS
  <2> HIDE DEF path
  <2> QED
    BY <2>1, <2>2, InDirFields
<1>7. path \in [R -> Path]
  BY <1>6
<1> HIDE DEF path
<1>8. /\ WellKept(shifted) /\ there.next <= shifted.next
      /\ shifted.profile = there.profile /\ shifted.disk = there.disk
      /\ \A x \in shifted.rows \ (there.rows \ R) :
            /\ there.next <= x.id
            /\ \E r \in R : x.path = path[r]
      /\ there.rows \ R \subseteq shifted.rows
      /\ \A r \in R : \E x \in shifted.rows : there.next <= x.id /\ x.path = path[r]
  <2>1. R \in SUBSET there.rows
    BY <1>1, <1>5
  <2>2. Rehomes(R, path, into)
    BY <1>6, <1>7 DEF Rehomes
  <2>3. Readded(there, shifted, R, into, path)
    BY <1>5, <2>1, <2>2, AddAgainKeeps
  <2> HIDE DEF shifted
  <2> QED
    BY <2>3 DEF Readded
<1> HIDE DEF shifted
<1>9. Evolves(st, shifted, Shared(st))
  <2>1. \A x \in shifted.rows : x \in st.rows \ R \/ st.next <= x.id
    BY <1>5, <1>8
  <2>2. ASSUME NEW x \in shifted.rows, Dead(shifted, x)
        PROVE  x.id \in Shared(st) \/ \E q \in st.rows : q.id = x.id /\ Dead(st, q)
    <3>1. CASE x \in st.rows \ R
      <4>1. CASE x.path \in P
        <5>1. PICK r \in R : x.path = r.path
          BY <1>4, <4>1
        <5>2. r \in st.rows /\ r # x
          BY <1>1, <3>1
        <5> QED
          BY <3>1, <5>1, <5>2 DEF Shared, Ids
      <4>2. CASE x.path \notin P
        <5>1. Dead(st, x)
          BY <1>5, <1>8, <2>2, <4>2 DEF Dead
        <5> QED
          BY <3>1, <5>1
      <4> QED
        BY <4>1, <4>2
    <3>2. CASE x \notin st.rows \ R
      <4>1. PICK r \in R : x.path = path[r]
        BY <1>5, <1>8, <3>2
      <4>2. x.path \in DOMAIN shifted.disk
        BY <1>3, <1>5, <1>6, <1>8, <4>1
      <4> QED
        BY <2>2, <4>2 DEF Dead
    <3> QED
      BY <3>1, <3>2
  <2>3. st.next <= shifted.next
    BY <1>5, <1>8
  <2> QED
    BY <1>8, <2>1, <2>2, <2>3 DEF Evolves
<1>18. Clear(st, shifted)
  <2>1. ASSUME NEW x \in shifted.rows
        PROVE  x \in st.rows \ R \/ st.next <= x.id
    BY <1>5, <1>8
  <2>2. ASSUME NEW x \in shifted.rows, x.id < st.next, ~Dead(shifted, x)
        PROVE  KeepsFile(st, shifted, x.path)
    <3>1. CASE x.path \in DOMAIN st.disk \ P
      <4>1. ASSUME NEW q \in st.rows, q.path = x.path
            PROVE  q \in shifted.rows
        BY <1>3, <1>5, <1>8, <3>1, <4>1
      <4> QED
        BY <3>1, <4>1 DEF KeepsFile
    <3>2. CASE x.path \notin DOMAIN st.disk \ P
      <4>1. PICK p \in P : x.path = InDir(p, into)
        BY <1>5, <1>8, <2>2, <3>2 DEF Dead
      <4>2. PICK r \in R : p = r.path
        BY <1>4
      <4>3. PICK y \in shifted.rows : st.next <= y.id /\ y.path = path[r]
        BY <1>5, <1>8
      <4> QED
        BY <1>6, <4>1, <4>2, <4>3 DEF KeepsFile
    <3> QED
      BY <3>1, <3>2
  <2> QED
    BY <2>1, <2>2 DEF Clear
<1>10. SameShelf(shifted, gone) /\ ~Known(gone, n)
       /\ \A m \in Speakers \ {n} : gone.profile[m] = shifted.profile[m]
  BY <1>8, DeleteProfileShelf DEF WellKept
<1> HIDE DEF gone
<1>11. Evolves(shifted, gone, {}) /\ WellKept(gone)
  BY <1>8, <1>10, ShelfEvolves DEF Evolves
<1>12. /\ Evolves(gone, clean, {}) /\ clean.profile = gone.profile /\ WellKept(clean)
       /\ clean.rows = gone.rows /\ clean.disk = gone.disk
  BY <1>11, CleanupDirKeeps DEF Evolves
<1> HIDE DEF clean
<1>13. SameShelf(clean, new)
       /\ WaitOn(clean, new, {})
       /\ \A m \in Speakers \ {into} : new.profile[m] = clean.profile[m]
  BY <1>12, AutoRefineShelf DEF WellKept
<1> HIDE DEF new
<1>14. Evolves(clean, new, {})
  BY <1>12, <1>13, ShelfEvolves
<1>15. Evolves(shifted, new, {})
  BY <1>8, <1>11, <1>12, <1>14, EvolvesTwice
<1>16. Evolves(st, new, Shared(st))
  <2>1. Evolves(shifted, new, Shared(st))
    BY <1>15, EvolvesMore
  <2> QED
    BY <1>9, <2>1, EvolvesTwice
<1>17. WaitOn(st, new, {n})
  <2>1. WaitOn(st, clean, {n})
    BY <1>5, <1>8, <1>10, <1>12 DEF WaitOn, IsPending, Known
  <2> QED
    BY <1>13, <2>1 DEF WaitOn
<1>19. Clear(st, new)
  <2>1. new.rows = shifted.rows /\ new.disk = shifted.disk
    BY <1>10, <1>12, <1>13 DEF SameShelf
  <2> QED
    BY <1>18, <2>1, ClearShelf
<1> QED
  BY <1>0, <1>16, <1>17, <1>19

----------------------------------------------------------------------------
(* Files that are adopted *)

LEMMA SequenceOfSet ==
  ASSUME NEW S, IsFiniteSet(S)
  PROVE  /\ Cardinality(S) \in Nat /\ SetToSeq(S) \in [1 .. Cardinality(S) -> S]
         /\ Len(SetToSeq(S)) = Cardinality(S)
<1>1. Cardinality(S) \in Nat /\ ExistsBijection(1 .. Cardinality(S), S)
  BY FS_CardinalityType
<1>2. \E f \in [1 .. Cardinality(S) -> S] : IsInjective(f)
  BY <1>1 DEF ExistsBijection, Bijection, Injection, IsInjective
<1>3. SetToSeq(S) \in [1 .. Cardinality(S) -> S]
  BY <1>2 DEF SetToSeq
<1> QED
  BY <1>1, <1>3

LEMMA AdoptKeeps ==
  ASSUME NEW st, WellKept(st), NEW k \in Nat, NEW files \in [1 .. k -> DOMAIN st.disk],
         Len(files) = k
  PROVE  LET new == Adopt(st, files) IN
         Evolves(st, new, {}) /\ new.profile = st.profile /\ Clear(st, new)
<1> DEFINE new == Adopt(st, files)
           row(i) == [id |-> st.next + i - 1, name |-> files[i].dir, path |-> files[i],
                      span |-> st.disk[files[i]].span, source |-> None, flagged |-> FALSE]
           added == {row(i) : i \in 1 .. k}
           all == st.rows \cup added
           last == st.next + k
           mid == [st EXCEPT !.rows = all]
<1>0. IsStore(st) /\ st.next \in Nat /\ st.rows \subseteq Snippet
  BY StoreFields DEF WellKept
<1>1. ASSUME NEW i \in 1 .. k
      PROVE  /\ row(i) \in Snippet /\ row(i).id = st.next + i - 1
             /\ row(i).path = files[i] /\ row(i).name = files[i].dir
             /\ row(i).span = st.disk[files[i]].span /\ row(i).source = None
             /\ files[i] \in DOMAIN st.disk
             /\ files[i].slot = Slot[st.disk[files[i]].span]
  <2>1. files[i] \in DOMAIN st.disk
    OBVIOUS
  <2>2. files[i] \in Path /\ st.disk[files[i]] \in Clip
    BY <1>0, <2>1, StoreFields
  <2>3. files[i].dir \in Speakers /\ st.disk[files[i]].span \in Spans
    BY <2>2, PathFields DEF Clip
  <2>4. st.next + i - 1 \in Nat
    BY <1>0
  <2>5. files[i].slot = Slot[st.disk[files[i]].span]
    BY <2>1 DEF WellKept, FilesInPlace
  <2> QED
    BY <2>1, <2>2, <2>3, <2>4, <2>5 DEF Snippet
<1>2. new = [st EXCEPT !.rows = all, !.next = last]
  <2>1. DOMAIN files = 1 .. k
    OBVIOUS
  <2> QED
    BY <2>1 DEF Adopt
<1> HIDE DEF new, row
<1>3. \A x \in added : \E i \in 1 .. k : x = row(i)
  OBVIOUS
<1>4. IsFiniteSet(added)
  <2> DEFINE f == [i \in 1 .. k |-> row(i)]
  <2>1. IsFiniteSet(1 .. k)
    BY FS_Interval
  <2>2. DOMAIN f = 1 .. k /\ {f[i] : i \in DOMAIN f} = added
    OBVIOUS
  <2> HIDE DEF f, added
  <2> QED
    BY <2>1, <2>2, ImageIsFinite
<1>5. last \in Nat /\ st.next <= last /\ last = st.next + k
  BY <1>0
<1> HIDE DEF added, all, last
<1>6. new = [mid EXCEPT !.next = last]
  BY <1>0, <1>2, StoreFields
<1>7. /\ mid = [profile |-> mid.profile, rows |-> mid.rows, disk |-> mid.disk,
                dirs |-> mid.dirs, next |-> mid.next]
      /\ mid.rows = all /\ mid.profile = st.profile /\ mid.disk = st.disk
      /\ mid.dirs = st.dirs
  BY <1>0, StoreFields
<1> HIDE DEF mid
<1>8. /\ new = [profile |-> new.profile, rows |-> new.rows, disk |-> new.disk,
                dirs |-> new.dirs, next |-> new.next]
      /\ new.rows = all /\ new.profile = st.profile /\ new.disk = st.disk
      /\ new.dirs = st.dirs /\ new.next = last
  BY <1>6, <1>7
<1>9. IsStore(new)
  <2>1. all \subseteq Snippet
    BY <1>0, <1>1, <1>3 DEF all
  <2> QED
    BY <1>0, <1>5, <1>8, <2>1, StoreFields, StoreOf
<1>10. IsFiniteSet(new.rows)
  BY <1>4, <1>8, UnionIsFinite DEF all, WellKept
<1>11. AtHome(new)
  <2>1. ASSUME NEW x \in added
        PROVE  /\ x.path.dir = x.name /\ x.path.slot = Slot[x.span]
               /\ x.source # None => x.source = x.path.rec
    BY <1>1, <1>3
  <2> QED
    BY <1>8, <2>1 DEF AtHome, WellKept, all
<1>12. IdsAreUsedOnce(new)
  <2>1. \A r \in st.rows : r.id \in Nat /\ r.id < st.next
    BY <1>0, SnippetFields DEF WellKept, IdsAreUsedOnce
  <2>2. \A x \in added : x.id \in Nat /\ st.next <= x.id /\ x.id < last
    <3> SUFFICES ASSUME NEW i \in 1 .. k
                 PROVE  row(i).id \in Nat /\ st.next <= row(i).id /\ row(i).id < last
      BY <1>3
    <3> QED
      BY <1>0, <1>1, <1>5
  <2>3. ASSUME NEW i \in 1 .. k, NEW j \in 1 .. k, row(i).id = row(j).id
        PROVE  row(i) = row(j)
    <3>1. i = j
      BY <1>0, <1>1, <2>3
    <3> QED
      BY <3>1
  <2>4. \A x, y \in added : x.id = y.id => x = y
    BY <1>3, <2>3
  <2>5. \A u \in added, v \in st.rows : u.id # v.id
    BY <1>0, <2>1, <2>2
  <2>6. \A x, y \in st.rows : x.id = y.id => x = y
    BY DEF WellKept, IdsAreUsedOnce
  <2>7. \A x, y \in new.rows : x.id = y.id => x = y
    BY <1>8, <2>4, <2>5, <2>6 DEF all
  <2>8. \A x \in new.rows : x.id < new.next
    BY <1>0, <1>5, <1>8, <2>1, <2>2 DEF all
  <2> QED
    BY <2>7, <2>8 DEF IdsAreUsedOnce
<1>13. WellKept(new)
  BY <1>8, <1>9, <1>10, <1>11, <1>12 DEF WellKept, FilesInPlace
<1>14. ASSUME NEW x \in new.rows
       PROVE  /\ x \in st.rows \/ st.next <= x.id
              /\ x \notin st.rows => ~Dead(new, x)
  <2>1. CASE x \in added
    <3>1. PICK i \in 1 .. k : x = row(i)
      BY <1>3, <2>1
    <3>2. st.next <= row(i).id
      BY <1>0, <1>1
    <3> QED
      BY <1>1, <1>8, <3>1, <3>2 DEF Dead
  <2>2. CASE x \in st.rows
    BY <2>2
  <2> QED
    BY <1>8, <2>1, <2>2 DEF all
<1>15. Evolves(st, new, {})
  BY <1>5, <1>8, <1>13, <1>14 DEF Evolves, Dead
<1>16. Clear(st, new)
  <2>1. ASSUME NEW x \in new.rows, x.id < st.next, ~Dead(new, x)
        PROVE  KeepsFile(st, new, x.path)
    BY <1>8, <2>1 DEF KeepsFile, Dead, all
  <2> QED
    BY <1>14, <2>1 DEF Clear
<1> QED
  BY <1>8, <1>15, <1>16 DEF new

LEMMA RescanKeeps ==
  ASSUME NEW st, WellKept(st), NEW changed, NEW e
  PROVE  LET new == Rescan(st, changed, e) IN
         Evolves(st, new, {}) /\ WaitOn(st, new, changed) /\ Clear(st, new)
<1> DEFINE found == Loadable(st) \ {r.path : r \in st.rows}
           files == SetToSeq(found)
           adopted == Adopt(st, files)
           profiles == [n \in Speakers |-> IF n \in changed THEN None ELSE adopted.profile[n]]
           dropped == [adopted EXCEPT !.profile = profiles]
           names == {p.dir : p \in found} \cup changed \cup
                    {n \in st.dirs : RowsOf(adopted, n) # {} /\ ~Known(st, n)}
           new == RefineAll(dropped, names, e)
<1>0. Rescan(st, changed, e) = new
  BY DEF Rescan
<1>1. found \subseteq DOMAIN st.disk /\ IsFiniteSet(found)
  BY FS_Subset DEF WellKept, Loadable
<1>2. /\ Cardinality(found) \in Nat /\ files \in [1 .. Cardinality(found) -> found]
      /\ Len(files) = Cardinality(found)
  <2> HIDE DEF found
  <2> QED
    BY <1>1, SequenceOfSet
<1>3. files \in [1 .. Cardinality(found) -> DOMAIN st.disk]
  <2> HIDE DEF found
  <2> QED
    BY <1>1, <1>2
<1> HIDE DEF files, found
<1>4. Evolves(st, adopted, {}) /\ adopted.profile = st.profile /\ Clear(st, adopted)
  BY <1>2, <1>3, AdoptKeeps
<1> HIDE DEF adopted
<1>5. IsStore(adopted) /\ WellKept(adopted)
  BY <1>4 DEF Evolves, WellKept
<1>6. profiles \in [Speakers -> Profile \cup {None}]
  BY <1>5, StoreFields
<1>7. \A n \in Speakers \ changed : profiles[n] = st.profile[n]
  BY <1>4
<1> HIDE DEF profiles
<1>8. SameShelf(adopted, dropped) /\ dropped.profile = profiles
  <2>1. /\ dropped = [profile |-> dropped.profile, rows |-> dropped.rows,
                      disk |-> dropped.disk, dirs |-> dropped.dirs, next |-> dropped.next]
        /\ dropped.rows = adopted.rows /\ dropped.profile = profiles
        /\ dropped.disk = adopted.disk /\ dropped.dirs = adopted.dirs
        /\ dropped.next = adopted.next
    BY <1>5, StoreFields
  <2> HIDE DEF dropped
  <2>2. IsStore(dropped)
    BY <1>5, <1>6, <2>1, StoreFields, StoreOf
  <2> QED
    BY <2>1, <2>2 DEF SameShelf
<1> HIDE DEF dropped, names
<1>9. SameShelf(dropped, new) /\ WaitOn(dropped, new, {})
  BY <1>8, RefineAllShelf DEF SameShelf
<1> HIDE DEF new
<1>10. Evolves(adopted, new, {})
  BY <1>5, <1>8, <1>9, ShelfTwice, ShelfEvolves
<1>11. Evolves(st, new, {})
  BY <1>4, <1>10, EvolvesTwice
<1>12. WaitOn(st, new, changed)
  BY <1>7, <1>8, <1>9 DEF WaitOn, IsPending, Known
<1>13. Clear(st, new)
  <2>1. new.rows = adopted.rows /\ new.disk = adopted.disk
    BY <1>8, <1>9 DEF SameShelf
  <2> QED
    BY <1>4, <2>1, ClearShelf
<1> QED
  BY <1>0, <1>11, <1>12, <1>13

----------------------------------------------------------------------------
(* Snippets that are dropped, and the profiles they leave *)

LEMMA RefineOrRemoveKeeps ==
  ASSUME NEW st, WellKept(st), NEW n \in Speakers, NEW e
  PROVE  LET new == RefineOrRemove(st, n, e) IN
         Evolves(st, new, {}) /\ WaitOn(st, new, {n})
<1>1. IsStore(st)
  BY DEF WellKept
<1>2. CASE RowsOf(st, n) = {}
  <2> DEFINE gone == DeleteProfile(st, n)
             new == CleanupSpeakerDir(gone, n)
  <2>1. RefineOrRemove(st, n, e) = new
    BY <1>2 DEF RefineOrRemove
  <2>2. SameShelf(st, gone) /\ WaitOn(st, gone, {n})
    BY <1>1, DeleteProfileShelf
  <2> HIDE DEF gone
  <2>3. Evolves(st, gone, {})
    BY <2>2, ShelfEvolves
  <2>4. Evolves(gone, new, {}) /\ new.profile = gone.profile
    BY <2>3, CleanupDirKeeps DEF Evolves
  <2> HIDE DEF new
  <2>5. Evolves(st, new, {})
    BY <2>3, <2>4, EvolvesTwice
  <2>6. WaitOn(st, new, {n})
    BY <2>2, <2>4 DEF WaitOn, IsPending, Known
  <2> QED
    BY <2>1, <2>5, <2>6
<1>3. CASE RowsOf(st, n) # {}
  <2>1. RefineOrRemove(st, n, e) = AutoRefine(st, n, e)
    BY <1>3 DEF RefineOrRemove
  <2> QED
    BY <1>1, <2>1, AutoRefineShelf, ShelfEvolves DEF WaitOn
<1> QED
  BY <1>2, <1>3

(* Rows are dropped and the rest is fitted again. *)
LEMMA DropAndRefineKeeps ==
  ASSUME NEW st, WellKept(st), NEW R \in SUBSET st.rows, NEW n \in Speakers, NEW e
  PROVE  LET new == RefineOrRemove(DropSnippets(st, R), n, e) IN
         Evolves(st, new, Shared(st)) /\ WaitOn(st, new, {n})
<1> DEFINE mid == DropSnippets(st, R)
           new == RefineOrRemove(mid, n, e)
<1>1. Evolves(st, mid, Shared(st)) /\ mid.profile = st.profile
  BY DropEvolves, DropRemains DEF WellKept
<1> HIDE DEF mid
<1>2. Evolves(mid, new, {}) /\ WaitOn(mid, new, {n})
  BY <1>1, RefineOrRemoveKeeps DEF Evolves
<1> HIDE DEF new
<1>3. Evolves(mid, new, Shared(st))
  BY <1>2, EvolvesMore
<1>4. Evolves(st, new, Shared(st))
  BY <1>1, <1>3, EvolvesTwice
<1>5. WaitOn(st, new, {n})
  BY <1>1, <1>2 DEF WaitOn, IsPending, Known
<1> QED
  BY <1>4, <1>5 DEF new, mid

LEMMA DeleteSnippetKeeps ==
  ASSUME NEW st, WellKept(st), NEW r \in st.rows, NEW e
  PROVE  LET new == DeleteSnippet(st, r, e) IN
         Evolves(st, new, Shared(st)) /\ WaitOn(st, new, {r.name})
<1>1. r.name \in Speakers /\ {r} \in SUBSET st.rows
  BY StoreFields, SnippetFields DEF WellKept
<1> QED
  BY <1>1, DropAndRefineKeeps DEF DeleteSnippet

LEMMA RemoveFlaggedKeeps ==
  ASSUME NEW st, WellKept(st), NEW n \in Speakers, NEW e
  PROVE  LET new == RemoveFlagged(st, n, e) IN
         Evolves(st, new, Shared(st)) /\ WaitOn(st, new, {n})
<1> DEFINE accused == {r \in RowsOf(st, n) : r.flagged}
<1>1. CASE accused = {}
  <2>1. RemoveFlagged(st, n, e) = st
    BY <1>1 DEF RemoveFlagged
  <2>2. SameShelf(st, st) /\ WaitOn(st, st, {n})
    BY DEF SameShelf, WellKept, WaitOn
  <2> QED
    BY <2>1, <2>2, ShelfEvolves, EvolvesMore
<1>2. CASE accused # {}
  <2>1. RemoveFlagged(st, n, e) = RefineOrRemove(DropSnippets(st, accused), n, e)
    BY <1>2 DEF RemoveFlagged
  <2>2. accused \in SUBSET st.rows
    BY DEF RowsOf
  <2> HIDE DEF accused
  <2> QED
    BY <2>1, <2>2, DropAndRefineKeeps
<1> QED
  BY <1>1, <1>2

LEMMA DeleteSpeakerKeeps ==
  ASSUME NEW st, WellKept(st), NEW n \in Speakers
  PROVE  LET new == DeleteSpeaker(st, n) IN
         Evolves(st, new, Shared(st)) /\ WaitOn(st, new, {n})
<1> DEFINE R == RowsOf(st, n)
           mid == DropSnippets(st, R)
           gone == DeleteProfile(mid, n)
           new == CleanupSpeakerDir(gone, n)
<1>0. DeleteSpeaker(st, n) = new
  BY DEF DeleteSpeaker
<1>1. R \in SUBSET st.rows
  BY DEF RowsOf
<1> HIDE DEF R
<1>2. Evolves(st, mid, Shared(st)) /\ mid.profile = st.profile
  BY <1>1, DropEvolves, DropRemains DEF WellKept
<1> HIDE DEF mid
<1>3. SameShelf(mid, gone) /\ WaitOn(mid, gone, {n})
  BY <1>2, DeleteProfileShelf DEF Evolves, WellKept
<1> HIDE DEF gone
<1>4. Evolves(mid, gone, {})
  BY <1>2, <1>3, ShelfEvolves DEF Evolves
<1>5. Evolves(gone, new, {}) /\ new.profile = gone.profile
  BY <1>4, CleanupDirKeeps DEF Evolves
<1> HIDE DEF new
<1>6. Evolves(mid, gone, Shared(st)) /\ Evolves(gone, new, Shared(st))
  BY <1>4, <1>5, EvolvesMore
<1>7. Evolves(st, new, Shared(st))
  BY <1>2, <1>6, EvolvesTwice
<1>8. WaitOn(st, new, {n})
  BY <1>2, <1>3, <1>5 DEF WaitOn, IsPending, Known
<1> QED
  BY <1>0, <1>7, <1>8

LEMMA CleanupKeeps ==
  ASSUME NEW st, WellKept(st), NEW copies \in SUBSET st.rows, NEW mute \in SUBSET st.rows,
         NEW trim \in BOOLEAN, NEW e
  PROVE  LET new == CleanupIntegrity(st, copies, mute, trim, e) IN
         Evolves(st, new, Shared(st)) /\ WaitOn(st, new, {})
<1> DEFINE found == copies \cup mute
           swept == DropSnippets(st, found)
           excess == IF trim THEN OverBudget(swept) ELSE {}
           trimmed == DropSnippets(swept, excess)
           touched == {r.name : r \in st.rows \ trimmed.rows}
           new == RefineAll(trimmed, touched, e)
<1>0. CleanupIntegrity(st, copies, mute, trim, e) = new
  BY DEF CleanupIntegrity
<1>1. found \in SUBSET st.rows
  OBVIOUS
<1> HIDE DEF found
<1>2. Evolves(st, swept, Shared(st)) /\ swept.profile = st.profile
      /\ swept.rows = st.rows \ found
  BY <1>1, DropEvolves, DropRemains DEF WellKept
<1> HIDE DEF swept
<1>3. WellKept(swept) /\ excess \in SUBSET swept.rows
  BY <1>2 DEF Evolves, OverBudget
<1>4. Evolves(swept, trimmed, Shared(swept)) /\ trimmed.profile = swept.profile
  BY <1>3, DropEvolves, DropRemains DEF WellKept
<1> HIDE DEF trimmed
<1>5. Shared(swept) \subseteq Shared(st)
  BY <1>2, SharedShrinks
<1>6. SameShelf(trimmed, new) /\ WaitOn(trimmed, new, {})
  BY <1>4, RefineAllShelf DEF Evolves, WellKept
<1> HIDE DEF new, touched
<1>7. Evolves(trimmed, new, {})
  BY <1>4, <1>6, ShelfEvolves DEF Evolves
<1>8. Evolves(swept, trimmed, Shared(st)) /\ Evolves(trimmed, new, Shared(st))
  BY <1>4, <1>5, <1>7, EvolvesMore
<1>9. Evolves(st, new, Shared(st))
  BY <1>2, <1>3, <1>8, EvolvesTwice
<1>10. WaitOn(st, new, {})
  BY <1>2, <1>4, <1>6 DEF WaitOn, IsPending, Known
<1> QED
  BY <1>0, <1>9, <1>10

----------------------------------------------------------------------------
(***************************************************************************)
(* The library at work.  RowsHaveAudio is not inductive: a step that drops  *)
(* rows with their files takes away what another row shares, so the rows of  *)
(* one file must be accounted for before one of them goes; a thread shares  *)
(* files of its own take without saying so, which is right because what it  *)
(* cuts does not overlap and its last step keeps the files of its take.     *)
(***************************************************************************)
(* Two spans that do not overlap *)
Apart(a, b) == Start[a] + Length[a] <= Start[b] \/ Start[b] + Length[b] <= Start[a]

Cutter == task # None /\ task.kind \in {"collect", "learn"}

(* The spans a thread still has to cut, and the one without its row *)
Uncut == task.todo \cup ({task.written} \ {None})

(* What a thread has cut: its rows may have been renamed since, or are gone; *)
(* their spans and those to cut do not overlap.                              *)
TakeIsInPlace ==
    Cutter =>
        /\ \A f \in task.fresh :
              /\ f.id < store.next
              /\ f.path.dir = task.name
              /\ \A r \in store.rows :
                    r.id = f.id => r.path.slot = f.path.slot /\ r.path.rec = f.path.rec
              /\ \E t \in Spans : f.path.slot = Slot[t] /\ \A s \in Uncut : Apart(t, s)
        /\ \A a, b \in Uncut : a # b => Apart(a, b)
        /\ task.written \notin task.todo

(* ... and it has cut no more than the file's budget allows. *)
TakeIsInBudget ==
    Cutter =>
        /\ IsFiniteSet(task.fresh) /\ Cardinality(task.fresh) <= PerSource
        /\ task.written # None => Cardinality(task.fresh) < PerSource

(* Two rows of one file are accounted for, but for those the thread at work *)
(* has just made: its last step, that replaces the previous take, sees them. *)
InTake(id) == Cutter /\ task.stage = "spans" /\ \E f \in task.fresh : f.id = id

SharedIsNoted ==
    \A r, q \in store.rows :
        r # q /\ r.path = q.path =>
            {r.id, q.id} \subseteq lost \/ InTake(r.id) \/ InTake(q.id)

(* What a rescan holds bears the name of its audio, and it fits a speaker.   *)
Scanning == task # None /\ task.kind = "rescan"

ScanIsSound ==
    /\ scan.held # None => scan.held.path.slot = Slot[scan.held.clip.span]
    /\ Scanning => /\ task.stage \in {"write", "row"} => scan.held # None
                   /\ task.stage \in {"refine", "save"} => task.name \in Speakers

LibraryInv ==
    /\ LibraryTypeOK
    /\ WellKept(store)
    /\ ScanIsSound
    /\ TakeIsInPlace /\ TakeIsInBudget
    /\ SharedIsNoted
    /\ RowsHaveAudio

----------------------------------------------------------------------------
(* Parts of the invariant *)

LEMMA TaskFields ==
  ASSUME LibraryTypeOK, Cutter
  PROVE  /\ task \in Task
         /\ task = [kind |-> task.kind, name |-> task.name, rec |-> task.rec,
                    todo |-> task.todo, written |-> task.written, fresh |-> task.fresh,
                    had |-> task.had, clips |-> task.clips, stage |-> task.stage]
         /\ task.kind \in {"collect", "learn"} /\ task.name \in Speakers
         /\ task.rec \in Recordings /\ task.todo \subseteq Spans
         /\ task.written \in Spans \cup {None}
         /\ task.fresh \subseteq [id : Nat, path : Path] /\ task.had \subseteq Nat
         /\ task.clips \subseteq Clip /\ task.stage \in {"spans", "refine", "save", "flag"}
<1>1. task \in Task
  BY DEF LibraryTypeOK, Cutter, Task, Rescanning, Consolidating
<1> QED
  BY <1>1 DEF Task

LEMMA RescanFields ==
  ASSUME LibraryTypeOK, Scanning
  PROVE  /\ task \in Rescanning
         /\ task = [kind |-> "rescan", stage |-> task.stage, changed |-> task.changed,
                    targets |-> task.targets, name |-> task.name, clips |-> task.clips]
         /\ task.stage \in {"list", "scan", "write", "row", "plan", "refine", "save"}
         /\ task.changed \subseteq Speakers /\ task.targets \subseteq Speakers
         /\ task.name \in Speakers \cup {None} /\ task.clips \subseteq Clip
<1>1. task \in Rescanning
  BY DEF LibraryTypeOK, Scanning, Task, Rescanning, Consolidating
<1> QED
  BY <1>1 DEF Rescanning

LEMMA ScanFields ==
  ASSUME LibraryTypeOK
  PROVE  /\ scan = [claimed |-> scan.claimed, todo |-> scan.todo, found |-> scan.found,
                    files |-> scan.files, held |-> scan.held]
         /\ scan.claimed \subseteq Path /\ scan.files \subseteq Path
         /\ scan.todo \subseteq Speakers /\ scan.found \subseteq Speakers
         /\ scan.held # None => scan.held \in [path : Path, clip : Clip]
         /\ scan.held \in [path : Path, clip : Clip] \cup {None}
BY DEF LibraryTypeOK, Scan

(* Whoever does not scan leaves what was scanned alone. *)
LEMMA ScanStays ==
  ASSUME LibraryInv, scan' = scan, task' = task \/ ~Scanning'
  PROVE  scan' \in Scan /\ ScanIsSound'
<1>1. CASE task' = task
  BY <1>1 DEF LibraryInv, LibraryTypeOK, ScanIsSound, Scanning
<1>2. CASE ~Scanning'
  BY <1>2 DEF LibraryInv, LibraryTypeOK, ScanIsSound, Scanning
<1> QED
  BY <1>1, <1>2

LEMMA SharedIsIds ==
  ASSUME NEW st, IsStore(st)
  PROVE  Shared(st) \subseteq Nat
BY StoreFields, SnippetFields DEF Shared, Ids

(* A thread goes on with what it has cut, over a store that evolves. *)
LEMMA TakeKept ==
  ASSUME LibraryInv, NEW noted, Evolves(store, store', noted),
         Cutter' => /\ Cutter
                    /\ task'.fresh = task.fresh /\ task'.name = task.name
                    /\ task'.todo \subseteq task.todo /\ task'.written = task.written
  PROVE  TakeIsInPlace' /\ TakeIsInBudget'
<1> SUFFICES ASSUME Cutter'
             PROVE  TakeIsInPlace' /\ TakeIsInBudget'
  BY DEF TakeIsInPlace, TakeIsInBudget
<1>1. /\ Cutter /\ task'.fresh = task.fresh /\ task'.name = task.name
      /\ task'.todo \subseteq task.todo /\ task'.written = task.written
  OBVIOUS
<1>2. TakeIsInPlace /\ TakeIsInBudget /\ IsStore(store)
      /\ store.next \in Nat /\ store'.next \in Nat /\ store.next <= store'.next
  BY StoreFields DEF LibraryInv, Evolves, WellKept
<1>3. Uncut' \subseteq Uncut
  BY <1>1 DEF Uncut
<1>4. task.fresh \subseteq [id : Nat, path : Path]
  BY <1>1, TaskFields DEF LibraryInv
<1>5. ASSUME NEW f \in task.fresh
      PROVE  /\ f.id < store'.next
             /\ f.path.dir = task.name
             /\ \A r \in store'.rows :
                   r.id = f.id => r.path.slot = f.path.slot /\ r.path.rec = f.path.rec
             /\ \E t \in Spans : f.path.slot = Slot[t] /\ \A s \in Uncut' : Apart(t, s)
  <2>1. f.id \in Nat /\ f.id < store.next
    BY <1>1, <1>2, <1>4 DEF TakeIsInPlace
  <2>2. ASSUME NEW r \in store'.rows, r.id = f.id
        PROVE  r.path.slot = f.path.slot /\ r.path.rec = f.path.rec
    <3>1. PICK q \in store.rows : /\ q.id = r.id
                                  /\ q.path.slot = r.path.slot /\ q.path.rec = r.path.rec
      BY <1>2, <2>1, <2>2 DEF Evolves
    <3> QED
      BY <1>1, <1>2, <2>2, <3>1 DEF TakeIsInPlace
  <2>3. PICK t \in Spans : f.path.slot = Slot[t] /\ \A s \in Uncut : Apart(t, s)
    BY <1>1, <1>2 DEF TakeIsInPlace
  <2>4. f.path.dir = task.name
    BY <1>1, <1>2 DEF TakeIsInPlace
  <2> QED
    BY <1>2, <1>3, <2>1, <2>2, <2>3, <2>4
<1>6. (\A a, b \in Uncut' : a # b => Apart(a, b)) /\ task'.written \notin task'.todo
  BY <1>1, <1>2, <1>3 DEF TakeIsInPlace
<1>7. TakeIsInPlace'
  BY <1>1, <1>5, <1>6 DEF TakeIsInPlace, Apart
<1>8. TakeIsInBudget'
  BY <1>1, <1>2 DEF TakeIsInBudget
<1> QED
  BY <1>7, <1>8

(* What is left to show of a step *)
LEMMA InvKept ==
  ASSUME LibraryInv, LibraryTypeOK', NEW noted, Evolves(store, store', noted),
         lost \cup noted \subseteq lost', ScanIsSound', TakeIsInPlace', TakeIsInBudget',
         SharedIsNoted'
  PROVE  LibraryInv'
<1>1. RowsHaveAudio'
  <2> SUFFICES ASSUME NEW r \in store'.rows, Dead(store', r)
               PROVE  r.id \in lost'
    BY DEF RowsHaveAudio, Dead
  <2>1. CASE r.id \in noted
    BY <2>1
  <2>2. CASE \E q \in store.rows : q.id = r.id /\ Dead(store, q)
    BY <2>2 DEF LibraryInv, RowsHaveAudio
  <2> QED
    BY <2>1, <2>2 DEF Evolves
<1>2. WellKept(store')
  BY DEF Evolves
<1>3. WellKept(store)'
  BY <1>2
<1> QED
  BY <1>1, <1>3 DEF LibraryInv

(* A step that leaves the thread's take as it is *)
LEMMA StepKeepsInv ==
  ASSUME LibraryInv, NEW noted, Evolves(store, store', noted), lost \cup noted \subseteq lost',
         Cutter' => /\ Cutter
                    /\ task'.fresh = task.fresh /\ task'.name = task.name
                    /\ task'.todo \subseteq task.todo /\ task'.written = task.written,
         emb' \in BOOLEAN, scan' \in Scan, ScanIsSound',
         task' = None \/ task' \in Task \cup Rescanning \cup Consolidating,
         budget' \in [requests : 0 .. Requests, tasks : 0 .. Tasks, mishaps : 0 .. Mishaps],
         lost' \subseteq Nat, SharedIsNoted'
  PROVE  LibraryInv'
<1>1. TakeIsInPlace' /\ TakeIsInBudget'
  BY TakeKept
<1>2. IsStore(store')
  BY DEF Evolves, WellKept
<1>3. LibraryTypeOK'
  BY <1>2 DEF LibraryTypeOK
<1> QED
  BY <1>1, <1>3, InvKept

(* Rows of one file are no more than they were, and the thread's take, if   *)
(* it was why some of them were not accounted for, is what it was.          *)
LEMMA NotedKept ==
  ASSUME LibraryInv, SharesNoMore(store, store'), lost \subseteq lost',
         Cutter /\ task.stage = "spans" /\ task.fresh # {} =>
            Cutter' /\ task'.stage = "spans" /\ task.fresh \subseteq task'.fresh
  PROVE  SharedIsNoted'
<1>1. ASSUME NEW id, InTake(id)
      PROVE  InTake(id)'
  BY <1>1 DEF InTake
<1> SUFFICES ASSUME NEW x \in store'.rows, NEW y \in store'.rows, x # y, x.path = y.path
             PROVE  {x.id, y.id} \subseteq lost' \/ InTake(x.id)' \/ InTake(y.id)'
  BY DEF SharedIsNoted, InTake
<1>2. PICK r \in store.rows, q \in store.rows :
          r # q /\ r.path = q.path /\ r.id = x.id /\ q.id = y.id
  BY DEF SharesNoMore
<1>3. {r.id, q.id} \subseteq lost \/ InTake(r.id) \/ InTake(q.id)
  BY <1>2 DEF LibraryInv, SharedIsNoted
<1> QED
  BY <1>1, <1>2, <1>3

LEMMA NoTakeNoSharing ==
  ASSUME LibraryInv, NEW r \in store.rows, NEW q \in store.rows, r # q, r.path = q.path,
         ~InTake(r.id), ~InTake(q.id)
  PROVE  r.id \in lost /\ q.id \in lost
BY DEF LibraryInv, SharedIsNoted

(* Rows that were there share what they shared. *)
LEMMA FewerShare ==
  ASSUME NEW st, NEW new, new.rows \subseteq st.rows
  PROVE  SharesNoMore(st, new)
BY DEF SharesNoMore

----------------------------------------------------------------------------
(* Requests *)

LEMMA Spent ==
  ASSUME LibraryTypeOK, NEW b \in {"requests", "tasks", "mishaps"}, Spend(b)
  PROVE  budget' \in [requests : 0 .. Requests, tasks : 0 .. Tasks, mishaps : 0 .. Mishaps]
BY LibraryAssumption DEF LibraryTypeOK, Spend

LEMMA RequestKeeps ==
  ASSUME LibraryInv, NEW st, Evolves(store, st, Shared(store)), Request(st), emb' \in BOOLEAN
  PROVE  LibraryInv'
<1>1. /\ store' = st /\ lost' = lost \cup (Shared(store) \cup Shared(st))
      /\ task' = task /\ scan' = scan /\ Spend("requests")
  BY DEF Request, Become, Noting
<1>2. LibraryTypeOK /\ IsStore(store) /\ IsStore(st) /\ lost \subseteq Nat
  BY DEF LibraryInv, LibraryTypeOK, Evolves, WellKept
<1>3. lost' \subseteq Nat /\ lost \cup Shared(store) \subseteq lost'
  BY <1>1, <1>2, SharedIsIds
<1>4. SharedIsNoted'
  BY <1>1 DEF SharedIsNoted, Shared, Ids
<1>5. budget' \in [requests : 0 .. Requests, tasks : 0 .. Tasks, mishaps : 0 .. Mishaps]
  BY <1>1, <1>2, Spent
<1>6. Evolves(store, store', Shared(store))
  BY <1>1
<1>7. Cutter' => /\ Cutter
                 /\ task'.fresh = task.fresh /\ task'.name = task.name
                 /\ task'.todo \subseteq task.todo /\ task'.written = task.written
  BY <1>1 DEF Cutter
<1>8. task' = None \/ task' \in Task \cup Rescanning \cup Consolidating
  BY <1>1, <1>2 DEF LibraryTypeOK
<1>9. scan' \in Scan /\ ScanIsSound'
  BY <1>1, ScanStays
<1> QED
  BY <1>3, <1>4, <1>5, <1>6, <1>7, <1>8, <1>9, StepKeepsInv

LEMMA ListedRows ==
  ASSUME NEW st, NEW R \in MayTake(Duplicates(st)) \cup MayTake(DeadRows(st))
  PROVE  R \in SUBSET st.rows
BY DEF MayTake, Listed, UpTo, Duplicates, DeadRows

(* What each of them asks for *)
LEMMA UserActKeeps ==
  ASSUME LibraryInv, UserAct, \A a, b \in Speakers : ~Confirm(a, b)
  PROVE  LibraryInv'
<1> USE DEF LoadedRequest
<1>1. WellKept(store) /\ LibraryTypeOK /\ IsStore(store)
  BY DEF LibraryInv, WellKept
<1>2. ASSUME NEW st, Evolves(store, st, {})
      PROVE  Evolves(store, st, Shared(store))
  BY <1>2, EvolvesMore
<1>3. ASSUME NEW n \in Speakers, NEW rec \in Recordings, NEW s \in Spans,
             NEW replace \in BOOLEAN, Upload(n, rec, s, replace)
      PROVE  LibraryInv'
  BY <1>1, <1>3, AddSnippetKeeps, RequestKeeps DEF Upload
<1>4. ASSUME NEW n \in Speakers, UploadTooShort(n)
      PROVE  LibraryInv'
  BY <1>1, <1>2, <1>4, TooShortKeeps, RequestKeeps DEF UploadTooShort
<1>5. ASSUME NEW n \in Speakers, DropSpeaker(n)
      PROVE  LibraryInv'
  BY <1>1, <1>5, DeleteSpeakerKeeps, RequestKeeps DEF DropSpeaker, LibraryTypeOK
<1>6. ASSUME NEW n \in Speakers, Refine(n)
      PROVE  LibraryInv'
  BY <1>1, <1>2, <1>6, AutoRefineShelf, ShelfEvolves, RequestKeeps DEF Refine
<1>7. ASSUME NEW n \in Speakers, Keep(n)
      PROVE  LibraryInv'
  BY <1>1, <1>2, <1>7, KeepFlaggedKeeps, RequestKeeps DEF Keep, LibraryTypeOK
<1>8. ASSUME NEW n \in Speakers, DropFlagged(n)
      PROVE  LibraryInv'
  BY <1>1, <1>8, RemoveFlaggedKeeps, RequestKeeps DEF DropFlagged
<1>9. ASSUME NEW r \in store.rows, DropOne(r)
      PROVE  LibraryInv'
  BY <1>1, <1>9, DeleteSnippetKeeps, RequestKeeps DEF DropOne, LibraryTypeOK
<1>10. ASSUME NEW a \in Speakers, NEW b \in Speakers, Rename(a, b)
       PROVE  LibraryInv'
  BY <1>1, <1>2, <1>10, RenameSpeakerKeeps, RequestKeeps DEF Rename
<1>11. ASSUME NEW a \in Speakers, NEW b \in Speakers, Merge(a, b)
       PROVE  LibraryInv'
  BY <1>1, <1>11, MergeKeeps, RequestKeeps DEF Merge
<1>12. ASSUME NEW a \in Speakers, NEW b \in Speakers, MergePending(a, b)
       PROVE  LibraryInv'
  BY <1>11, <1>12 DEF MergePending
<1>13. ASSUME NEW copies \in MayTake(Duplicates(store)), NEW mute \in MayTake(DeadRows(store)),
              NEW trim \in BOOLEAN, Cleanup(copies, mute, trim)
       PROVE  LibraryInv'
  <2>1. copies \in SUBSET store.rows /\ mute \in SUBSET store.rows
    BY ListedRows
  <2> QED
    BY <1>1, <1>13, <2>1, CleanupKeeps, RequestKeeps DEF Cleanup
<1>14. ASSUME NEW changed \in Rewritten(store), RescanNow(changed)
       PROVE  LibraryInv'
  BY <1>1, <1>2, <1>14, RescanKeeps, RequestKeeps DEF RescanNow
<1> QED
  BY <1>3, <1>4, <1>5, <1>6, <1>7, <1>8, <1>9, <1>10, <1>11, <1>12, <1>13, <1>14 DEF UserAct

LEMMA ConfirmKeepsInv ==
  ASSUME LibraryInv, NEW a \in Speakers, NEW b \in Speakers, Confirm(a, b)
  PROVE  LibraryInv'
<1> DEFINE st == ConfirmPending(store, a, b, TRUE)
           doubtful == \/ a # b /\ b \in store.dirs
                       \/ Ids(RowsOf(store, a)) \cap (lost \cup Shared(store)) # {}
           noted == IF doubtful THEN Ids(RowsOf(store', b)) ELSE {}
<1>1. /\ a = b \/ ~Exists(store, b)
      /\ Spend("requests") /\ store' = st /\ emb' = TRUE
      /\ task' = task /\ scan' = scan /\ lost' = lost \cup noted
  BY DEF Confirm, Become, Noting
<1>2. WellKept(store) /\ LibraryTypeOK /\ IsStore(store) /\ lost \subseteq Nat
  BY DEF LibraryInv, WellKept, LibraryTypeOK
<1>3. ((a # b /\ b \in store.dirs) \/ \E r \in RowsOf(store, a) : Dead(store, r)) => doubtful
  BY DEF LibraryInv, RowsHaveAudio, RowsOf, Ids
<1>4. Ids(RowsOf(store, a)) \cap Shared(store) # {} => doubtful
  OBVIOUS
<1>5. doubtful => Ids(RowsOf(st, b)) = noted
  BY <1>1
<1> HIDE DEF doubtful, noted
<1>6. /\ Evolves(store, st, noted)
      /\ \A x, y \in st.rows :
            x # y /\ x.path = y.path =>
               \/ x \in store.rows /\ y \in store.rows
               \/ /\ x \in RowsOf(st, b) /\ y \in RowsOf(st, b)
                  /\ Ids(RowsOf(store, a)) \cap Shared(store) # {}
  <2>1. ((a # b /\ b \in store.dirs) \/ \E r \in RowsOf(store, a) : Dead(store, r)) =>
           Ids(RowsOf(st, b)) \subseteq noted
    BY <1>3, <1>5
  <2> QED
    BY <1>1, <1>2, <2>1, ConfirmKeeps
<1> HIDE DEF st
<1>7. noted \subseteq Nat
  <2>1. IsStore(st)
    BY <1>6 DEF Evolves, WellKept
  <2>2. Ids(RowsOf(st, b)) \subseteq Nat
    BY <2>1, StoreFields, SnippetFields DEF Ids, RowsOf
  <2> QED
    BY <1>1, <1>5, <2>2 DEF noted
<1>8. SharedIsNoted'
  <2> SUFFICES ASSUME NEW x \in st.rows, NEW y \in st.rows, x # y, x.path = y.path
               PROVE  {x.id, y.id} \subseteq lost' \/ InTake(x.id)' \/ InTake(y.id)'
    BY <1>1 DEF SharedIsNoted
  <2>1. CASE x \in store.rows /\ y \in store.rows
    <3>1. {x.id, y.id} \subseteq lost \/ InTake(x.id) \/ InTake(y.id)
      BY <2>1 DEF LibraryInv, SharedIsNoted
    <3> QED
      BY <1>1, <3>1 DEF InTake, Cutter
  <2>2. CASE /\ x \in RowsOf(st, b) /\ y \in RowsOf(st, b)
             /\ Ids(RowsOf(store, a)) \cap Shared(store) # {}
    BY <1>1, <1>4, <1>5, <2>2 DEF Ids
  <2> QED
    BY <1>6, <2>1, <2>2
<1>9. budget' \in [requests : 0 .. Requests, tasks : 0 .. Tasks, mishaps : 0 .. Mishaps]
  BY <1>1, <1>2, Spent
<1>10. Cutter' => /\ Cutter
                  /\ task'.fresh = task.fresh /\ task'.name = task.name
                  /\ task'.todo \subseteq task.todo /\ task'.written = task.written
  BY <1>1 DEF Cutter
<1>11. task' = None \/ task' \in Task \cup Rescanning \cup Consolidating
  BY <1>1, <1>2 DEF LibraryTypeOK
<1>13. scan' \in Scan /\ ScanIsSound'
  BY <1>1, ScanStays
<1>12. /\ Evolves(store, store', noted) /\ lost \cup noted \subseteq lost'
       /\ emb' \in BOOLEAN /\ lost' \subseteq Nat
  BY <1>1, <1>2, <1>6, <1>7
<1> QED
  BY <1>8, <1>9, <1>10, <1>11, <1>12, <1>13, StepKeepsInv

----------------------------------------------------------------------------
(* What the library does not decide *)

LEMMA MishapKeeps ==
  ASSUME LibraryInv, Mishap
  PROVE  LibraryInv'
<1>1. WellKept(store) /\ LibraryTypeOK /\ IsStore(store) /\ lost \subseteq Nat
  BY DEF LibraryInv, WellKept, LibraryTypeOK
<1>2. /\ task' = task /\ scan' = scan /\ Spend("mishaps")
      /\ \/ store' = store /\ lost' = lost /\ emb' = ~emb
         \/ /\ emb' = emb
            /\ \E p \in DOMAIN store.disk :
                  /\ store' = [store EXCEPT !.disk = Unlink(@, {p})]
                  /\ lost' = lost \cup Ids({r \in store.rows : r.path = p})
  BY DEF Mishap, Vanish, SessionComesOrGoes, Become, Noting
<1>3. budget' \in [requests : 0 .. Requests, tasks : 0 .. Tasks, mishaps : 0 .. Mishaps]
  BY <1>1, <1>2, Spent
<1>4. PICK noted \in SUBSET Nat :
         /\ Evolves(store, store', noted) /\ lost' = lost \cup noted
         /\ SharesNoMore(store, store')
  <2>1. CASE store' = store /\ lost' = lost /\ emb' = ~emb
    <3>1. Evolves(store, store', {})
      BY <1>1, <2>1, ShelfEvolves DEF SameShelf
    <3>2. SharesNoMore(store, store')
      BY <2>1, FewerShare
    <3> QED
      BY <2>1, <3>1, <3>2
  <2>2. ASSUME NEW p \in DOMAIN store.disk,
               store' = [store EXCEPT !.disk = Unlink(@, {p})],
               lost' = lost \cup Ids({r \in store.rows : r.path = p})
        PROVE  \E noted \in SUBSET Nat :
                  /\ Evolves(store, store', noted) /\ lost' = lost \cup noted
                  /\ SharesNoMore(store, store')
    <3> DEFINE noted == Ids({r \in store.rows : r.path = p})
    <3>1. /\ Remains(store, store') /\ store'.rows = store.rows
          /\ DOMAIN store'.disk = DOMAIN store.disk \ {p}
      BY <1>1, <2>2, VanishRemains
    <3>2. \A r \in store'.rows :
             r.path \in DOMAIN store.disk /\ Dead(store', r) => r.id \in noted
      BY <3>1 DEF Dead, Ids
    <3>3. noted \in SUBSET Nat
      BY <1>1, StoreFields, SnippetFields DEF Ids
    <3>4. lost' = lost \cup noted
      BY <2>2
    <3> HIDE DEF noted
    <3>5. Evolves(store, store', noted)
      BY <1>1, <3>1, <3>2, RemainsEvolves
    <3>6. SharesNoMore(store, store')
      BY <3>1, FewerShare
    <3> QED
      BY <3>3, <3>4, <3>5, <3>6
  <2> QED
    BY <1>2, <2>1, <2>2
<1>5. SharedIsNoted'
  BY <1>2, <1>4, NotedKept DEF Cutter
<1>6. Cutter' => /\ Cutter
                 /\ task'.fresh = task.fresh /\ task'.name = task.name
                 /\ task'.todo \subseteq task.todo /\ task'.written = task.written
  BY <1>2 DEF Cutter
<1>7. /\ emb' \in BOOLEAN /\ lost' \subseteq Nat
      /\ task' = None \/ task' \in Task \cup Rescanning \cup Consolidating
  BY <1>1, <1>2, <1>4 DEF LibraryTypeOK
<1>8. scan' \in Scan /\ ScanIsSound'
  BY <1>2, ScanStays
<1> QED
  BY <1>3, <1>4, <1>5, <1>6, <1>7, <1>8, StepKeepsInv

----------------------------------------------------------------------------
(* The pool thread *)

LEMMA BeginKeeps ==
  ASSUME LibraryInv, NEW new, Begin(new), emb' \in BOOLEAN, scan' \in Scan, ScanIsSound',
         new \in Task \cup Rescanning \cup Consolidating,
         Cutter' => TakeIsInPlace' /\ TakeIsInBudget'
  PROVE  LibraryInv'
<1>1. task = None /\ Spend("tasks") /\ task' = new /\ store' = store /\ lost' = lost
  BY DEF Begin
<1>2. WellKept(store) /\ LibraryTypeOK
  BY DEF LibraryInv
<1>3. budget' \in [requests : 0 .. Requests, tasks : 0 .. Tasks, mishaps : 0 .. Mishaps]
  BY <1>1, <1>2, Spent
<1>4. LibraryTypeOK'
  BY <1>1, <1>2, <1>3 DEF LibraryTypeOK
<1>5. TakeIsInPlace' /\ TakeIsInBudget'
  BY DEF TakeIsInPlace, TakeIsInBudget
<1>6. SharedIsNoted'
  BY <1>1 DEF LibraryInv, SharedIsNoted, InTake, Cutter
<1>7. Evolves(store, store', {})
  BY <1>1, <1>2, ShelfEvolves DEF SameShelf, WellKept
<1> QED
  BY <1>1, <1>4, <1>5, <1>6, <1>7, InvKept

LEMMA BeginCuttingKeeps ==
  ASSUME LibraryInv, NEW kind \in {"collect", "learn"}, NEW n \in Speakers,
         NEW rec \in Recordings, NEW todo \in Turns, BeginCutting(kind, n, rec, todo)
  PROVE  LibraryInv'
<1> DEFINE had == Ids(SourceRows(store, n, rec))
           new == [kind |-> kind, name |-> n, rec |-> rec, todo |-> todo, written |-> None,
                   fresh |-> {}, had |-> had, clips |-> {}, stage |-> "spans"]
<1>1. Begin(new) /\ emb' = emb /\ scan' = scan /\ task' = new
  BY DEF BeginCutting, Begin
<1>2. IsStore(store) /\ emb \in BOOLEAN
  BY DEF LibraryInv, LibraryTypeOK
<1>3. had \subseteq Nat
  BY <1>2, StoreFields, SnippetFields DEF Ids, SourceRows, RowsOf
<1> HIDE DEF had
<1>4. todo \subseteq Spans /\ \A s, t \in todo : s # t => Apart(s, t)
  BY DEF Turns, Apart
<1>5. new \in Task
  BY <1>3, <1>4 DEF Task
<1>6. /\ task'.todo = todo /\ task'.written = None /\ task'.fresh = {}
  BY <1>1
<1>7. None \notin Spans
  BY StoreAssumption
<1>8. Uncut' = todo
  BY <1>6 DEF Uncut
<1>9. TakeIsInPlace'
  BY <1>4, <1>6, <1>7, <1>8 DEF TakeIsInPlace, Apart
<1>10. TakeIsInBudget'
  BY <1>6, FS_EmptySet, StoreAssumption DEF TakeIsInBudget
<1>11. new.kind # "rescan"
  OBVIOUS
<1> HIDE DEF new
<1>12. scan' \in Scan /\ ScanIsSound'
  BY <1>1, <1>11, ScanStays DEF Scanning
<1> QED
  BY <1>1, <1>2, <1>5, <1>9, <1>10, <1>12, BeginKeeps

LEMMA BeginTaskKeeps ==
  ASSUME LibraryInv, BeginTask
  PROVE  LibraryInv'
<1>1. IsStore(store) /\ emb \in BOOLEAN
  BY DEF LibraryInv, LibraryTypeOK
<1>2. ASSUME NEW n \in Speakers, NEW rec \in Recordings, NEW todo \in Turns,
             BeginCollect(n, rec, todo) \/ BeginLearn(n, rec, todo)
      PROVE  LibraryInv'
  BY <1>2, BeginCuttingKeeps DEF BeginCollect, BeginLearn
<1>3. ASSUME NEW n \in Speakers, NEW accused \in SUBSET RowsOf(store, n),
             BeginConsolidate(n, accused)
      PROVE  LibraryInv'
  <2> DEFINE scored == {r \in RowsOf(store, n) : ~Dead(store, r)}
             kept == {store.disk[r.path] : r \in scored \ accused}
             new == [kind |-> "consolidate", stage |-> "mark", name |-> n,
                     scored |-> Ids(scored), accused |-> Ids(accused), kept |-> kept]
  <2>1. Begin(new) /\ emb' = TRUE /\ scan' = scan /\ task' = new
    BY <1>3 DEF BeginConsolidate, Begin
  <2>2. kept \subseteq Clip
    BY <1>1, StoreFields DEF Dead
  <2>3. Ids(scored) \subseteq Nat /\ Ids(accused) \subseteq Nat
    BY <1>1, StoreFields, SnippetFields DEF Ids, RowsOf
  <2> HIDE DEF kept, scored
  <2>4. new \in Consolidating /\ new.kind = "consolidate"
    BY <2>2, <2>3 DEF Consolidating
  <2> HIDE DEF new
  <2>5. ~Cutter' /\ ~Scanning'
    BY <2>1, <2>4 DEF Cutter, Scanning
  <2>6. scan' \in Scan /\ ScanIsSound'
    BY <2>1, <2>5, ScanStays
  <2> QED
    BY <2>1, <2>4, <2>5, <2>6, BeginKeeps
<1> QED
  BY <1>2, <1>3 DEF BeginTask

(* A step of a cutting thread that leaves the library alone *)
LEMMA ThreadReadsKeeps ==
  ASSUME LibraryInv, Cutter, SameShelf(store, store'), UNCHANGED <<scan, emb, budget, lost>>,
         \/ task' = None /\ (task.stage = "spans" => task.fresh = {})
         \/ /\ task' \in Task /\ task'.fresh = task.fresh /\ task'.name = task.name
            /\ task'.todo \subseteq task.todo /\ task'.written = task.written
            /\ task.stage = "spans" => task'.stage = "spans"
  PROVE  LibraryInv'
<1>1. WellKept(store) /\ LibraryTypeOK
  BY DEF LibraryInv
<1>2. Evolves(store, store', {}) /\ store'.rows \subseteq store.rows
  BY <1>1, ShelfEvolves DEF SameShelf
<1>3. task' \in Task => Cutter'
  BY TaskAssumption DEF Cutter, Task
<1>4. SharesNoMore(store, store')
  BY <1>2, FewerShare
<1>5. SharedIsNoted'
  BY <1>3, <1>4, NotedKept
<1>6. Cutter' => /\ Cutter
                 /\ task'.fresh = task.fresh /\ task'.name = task.name
                 /\ task'.todo \subseteq task.todo /\ task'.written = task.written
  BY DEF Cutter
<1>7. task' = None \/ task'.kind # "rescan"
  BY DEF Task
<1>8. scan' \in Scan /\ ScanIsSound'
  BY <1>7, ScanStays DEF Scanning
<1> QED
  BY <1>1, <1>2, <1>5, <1>6, <1>8, StepKeepsInv DEF LibraryTypeOK

(* A step of a thread that cuts nothing, which may flag rows, but gives no   *)
(* row another file *)
LEMMA SweepStepKeeps ==
  ASSUME LibraryInv, ~Cutter, ~Cutter', Evolves(store, store', {}), SharesNoMore(store, store'),
         UNCHANGED <<emb, budget, lost>>, scan' \in Scan, ScanIsSound',
         task' = None \/ task' \in Rescanning \cup Consolidating
  PROVE  LibraryInv'
<1>1. LibraryTypeOK
  BY DEF LibraryInv
<1>2. SharedIsNoted'
  BY NotedKept
<1> QED
  BY <1>1, <1>2, StepKeepsInv DEF LibraryTypeOK

LEMMA StageTells ==
  ASSUME LibraryTypeOK
  PROVE  /\ At("refine") \/ At("save") => Cutter \/ Scanning
         /\ At("mark") \/ At("fit") =>
               /\ ~Cutter /\ ~Scanning /\ task \in Consolidating
               /\ task.name \in Speakers /\ task.kept \subseteq Clip
BY DEF LibraryTypeOK, At, Cutter, Scanning, Task, Rescanning, Consolidating

LEMMA QuietThreadKeeps ==
  ASSUME LibraryInv,
         \/ \E s \in Spans : SkipSpan(s)
         \/ LearnNothing \/ FlagPending
         \/ Cutter /\ (ReadSnippets \/ SaveProfile)
  PROVE  LibraryInv'
<1>1. WellKept(store) /\ IsStore(store) /\ LibraryTypeOK
  BY DEF LibraryInv, WellKept
<1>2. SameShelf(store, store)
  BY <1>1 DEF SameShelf
<1>3. ASSUME Cutter
      PROVE  /\ task \in Task
             /\ \A S \in SUBSET Spans : LET t == [task EXCEPT !.todo = S] IN
                   /\ t \in Task /\ t.fresh = task.fresh /\ t.name = task.name
                   /\ t.todo = S /\ t.written = task.written /\ t.stage = task.stage
             /\ LET t == [task EXCEPT !.stage = "flag"] IN
                   /\ t \in Task /\ t.fresh = task.fresh /\ t.name = task.name
                   /\ t.todo = task.todo /\ t.written = task.written
             /\ \A C \in SUBSET Clip : LET t == [task EXCEPT !.clips = C, !.stage = "save"] IN
                   /\ t \in Task /\ t.fresh = task.fresh /\ t.name = task.name
                   /\ t.todo = task.todo /\ t.written = task.written
  BY <1>1, <1>3, TaskFields DEF Task
<1>4. ASSUME NEW s \in Spans, SkipSpan(s)
      PROVE  LibraryInv'
  <2>1. Cutter /\ task' = [task EXCEPT !.todo = task.todo \ {s}]
        /\ UNCHANGED <<store, scan, emb, budget, lost>>
    BY <1>4 DEF SkipSpan, ToCut, Cutting, At, Cutter
  <2>2. task.todo \ {s} \in SUBSET Spans
    BY <1>1, <2>1, TaskFields
  <2> QED
    BY <1>2, <1>3, <2>1, <2>2, ThreadReadsKeeps
<1>5. ASSUME LearnNothing
      PROVE  LibraryInv'
  BY <1>2, <1>5, ThreadReadsKeeps DEF LearnNothing, SpansDone, Cutting, At, Cutter
<1>6. ASSUME Cutter, task.stage # "spans", AfterRefine
      PROVE  \/ task' = None
             \/ /\ task' \in Task /\ task'.fresh = task.fresh /\ task'.name = task.name
                /\ task'.todo \subseteq task.todo /\ task'.written = task.written
  BY <1>3, <1>6 DEF AfterRefine, Cutter
<1>7. ASSUME Cutter, ReadSnippets
      PROVE  LibraryInv'
  <2> DEFINE clips == Readable(store, task.name)
  <2>1. Cutter /\ task.stage # "spans" /\ UNCHANGED <<store, scan, emb, budget, lost>>
    BY <1>7 DEF ReadSnippets, At, Cutter
  <2>2. \/ task' = [task EXCEPT !.clips = clips, !.stage = "save"]
        \/ AfterRefine
    BY <1>7 DEF ReadSnippets
  <2>3. clips \in SUBSET Clip
    BY <1>1, ReadableClips
  <2> HIDE DEF clips
  <2>4. \/ task' = None
        \/ /\ task' \in Task /\ task'.fresh = task.fresh /\ task'.name = task.name
           /\ task'.todo \subseteq task.todo /\ task'.written = task.written
    BY <1>3, <1>6, <2>1, <2>2, <2>3
  <2> QED
    BY <1>2, <2>1, <2>4, ThreadReadsKeeps
<1>8. ASSUME Cutter, SaveProfile
      PROVE  LibraryInv'
  <2>1. /\ Cutter /\ task.stage # "spans" /\ UNCHANGED <<scan, emb, budget, lost>> /\ AfterRefine
        /\ store' = store \/ store' = Save(store, task.name, task.clips)
    BY <1>8 DEF SaveProfile, At, Cutter, Become
  <2>2. task.name \in Speakers /\ task.clips \in SUBSET Clip
    BY <1>1, <2>1, TaskFields
  <2>3. SameShelf(store, store')
    BY <1>1, <1>2, <2>1, <2>2, SaveShelf
  <2> QED
    BY <1>6, <2>1, <2>3, ThreadReadsKeeps
<1>9. ASSUME FlagPending
      PROVE  LibraryInv'
  <2>1. /\ Cutter /\ task.stage # "spans" /\ UNCHANGED <<scan, emb, budget, lost>> /\ task' = None
        /\ store' = SetPending(store, task.name, TRUE)
    BY <1>9 DEF FlagPending, Cutting, At, Cutter, Become
  <2>2. SameShelf(store, store')
    BY <1>1, <2>1, TaskFields, SetPendingShelf
  <2> QED
    BY <2>1, <2>2, ThreadReadsKeeps
<1> QED
  BY <1>4, <1>5, <1>7, <1>8, <1>9

(* A consolidation marks the rows it scored, and fits on those it kept. *)
LEMMA ConsolidationKeeps ==
  ASSUME LibraryInv, Mark \/ SaveKept
  PROVE  LibraryInv'
<1>1. WellKept(store) /\ IsStore(store) /\ LibraryTypeOK
  BY DEF LibraryInv, WellKept
<1>2. CASE Mark
  <2>1. /\ At("mark") /\ store' = MarkOutliers(store, task.scored, task.accused)
        /\ task' = None \/ task' = [task EXCEPT !.stage = "fit"]
        /\ UNCHANGED <<scan, emb, budget, lost>>
    BY <1>2 DEF Mark, Become
  <2>2. Evolves(store, store', {}) /\ SharesNoMore(store, store')
    BY <1>1, <2>1, MarkOutliersKeeps
  <2>3. ~Cutter /\ task \in Consolidating
    BY <1>1, <2>1, StageTells
  <2>4. task' = None \/ (task' \in Consolidating /\ task'.kind = "consolidate")
    BY <2>1, <2>3 DEF Consolidating
  <2>5. ~Cutter' /\ ~Scanning'
    BY <2>4 DEF Cutter, Scanning
  <2>6. scan' \in Scan /\ ScanIsSound'
    BY <2>1, <2>5, ScanStays
  <2> QED
    BY <2>1, <2>2, <2>3, <2>4, <2>5, <2>6, SweepStepKeeps
<1>3. CASE SaveKept
  <2>1. /\ At("fit") /\ store' = Save(store, task.name, task.kept) /\ task' = None
        /\ UNCHANGED <<scan, emb, budget, lost>>
    BY <1>3 DEF SaveKept, Become
  <2>2. ~Cutter /\ task.name \in Speakers /\ task.kept \in SUBSET Clip
    BY <1>1, <2>1, StageTells
  <2>3. SameShelf(store, store')
    BY <1>1, <2>1, <2>2, SaveShelf
  <2>4. Evolves(store, store', {}) /\ SharesNoMore(store, store')
    BY <1>1, <2>3, ShelfEvolves, FewerShare DEF SameShelf
  <2>5. ~Cutter' /\ ~Scanning'
    BY <2>1 DEF Cutter, Scanning
  <2>6. scan' \in Scan /\ ScanIsSound'
    BY <2>1, <2>5, ScanStays
  <2> QED
    BY <2>1, <2>2, <2>4, <2>5, <2>6, SweepStepKeeps
<1> QED
  BY <1>2, <1>3

----------------------------------------------------------------------------
(* The rescan *)

LEMMA ScanStepKeeps ==
  ASSUME LibraryInv, Scanning, Evolves(store, store', {}), SharesNoMore(store, store'),
         UNCHANGED <<emb, budget, lost>>, scan' \in Scan,
         scan'.held # None => scan'.held.path.slot = Slot[scan'.held.clip.span],
         \/ task' = None
         \/ /\ task' \in Rescanning
            /\ task'.stage \in {"write", "row"} => scan'.held # None
            /\ task'.stage \in {"refine", "save"} => task'.name \in Speakers
  PROVE  LibraryInv'
<1>1. ~Cutter
  BY DEF Cutter, Scanning
<1>2. ~Cutter'
  BY DEF Cutter, Rescanning
<1>3. ScanIsSound'
  BY DEF ScanIsSound, Scanning
<1> QED
  BY <1>1, <1>2, <1>3, SweepStepKeeps

(* The steps that only look *)
LEMMA LooksKeep ==
  ASSUME LibraryInv,
         \/ \E n \in Speakers : ListRows(n) \/ OpenDir(n) \/ MissDir(n) \/ Plan(n)
         \/ \E p \in scan.files : PassOver(p) \/ FindChanged(p) \/ LoadFile(p)
         \/ ListDirs \/ PlanFits \/ EndRescan
  PROVE  LibraryInv'
<1>1. WellKept(store) /\ IsStore(store) /\ LibraryTypeOK /\ ScanIsSound
  BY DEF LibraryInv, WellKept
<1>2. /\ Scanning /\ UNCHANGED <<store, emb, budget, lost>>
      /\ task.stage \in {"list", "scan", "plan"}
  BY DEF ListRows, OpenDir, MissDir, Plan, PassOver, FindChanged, LoadFile, ListDirs, PlanFits,
         EndRescan, Looking, At, Scanning
<1>3. task \in Rescanning
  BY <1>1, <1>2, RescanFields
<1>4. Evolves(store, store', {}) /\ SharesNoMore(store, store')
  <2>1. SameShelf(store, store')
    BY <1>1, <1>2 DEF SameShelf
  <2> QED
    BY <1>1, <1>2, <2>1, ShelfEvolves, FewerShare
<1>5. ASSUME scan' \in Scan, scan'.held = None \/ scan'.held = scan.held,
             \/ task' = None
             \/ task' \in Rescanning /\ task'.stage \in {"list", "scan", "plan"}
      PROVE  LibraryInv'
  BY <1>1, <1>2, <1>4, <1>5, ScanStepKeeps DEF ScanIsSound
<1>6. ASSUME NEW D \in SUBSET Speakers, scan' = [scan EXCEPT !.todo = D]
      PROVE  scan' \in Scan /\ scan'.held = scan.held
  BY <1>1, <1>6, ScanFields DEF Scan
<1>7. ASSUME NEW F \in SUBSET Path, scan' = [scan EXCEPT !.files = F]
      PROVE  scan' \in Scan /\ scan'.held = scan.held
  BY <1>1, <1>7, ScanFields DEF Scan
<1>8. ASSUME NEW stage \in {"list", "scan", "plan", "write"}, task' = [task EXCEPT !.stage = stage]
      PROVE  task' \in Rescanning /\ task'.stage = stage
  BY <1>1, <1>2, <1>8, RescanFields DEF Rescanning
<1>9. NoScan \in Scan /\ NoScan.held = None
  BY DEF NoScan, Scan
<1>10. scan.todo \subseteq Speakers /\ scan.files \subseteq Path
  BY <1>1, ScanFields
<1>11. ASSUME NEW n \in Speakers, ListRows(n)
       PROVE  LibraryInv'
  <2> DEFINE D == scan.todo \ {n}
             C == scan.claimed \cup {r.path : r \in RowsOf(store, n)}
  <2>1. scan' = [scan EXCEPT !.todo = D, !.claimed = C] /\ task' = task
    BY <1>11 DEF ListRows
  <2>2. D \subseteq Speakers
    BY <1>10
  <2>3. C \subseteq Path
    BY <1>1, StoreFields, SnippetFields, ScanFields DEF RowsOf
  <2> HIDE DEF C, D
  <2>4. scan' \in Scan /\ scan'.held = scan.held
    BY <1>1, <2>1, <2>2, <2>3, ScanFields DEF Scan
  <2> QED
    BY <1>2, <1>3, <1>5, <2>1, <2>4
<1>12. ASSUME NEW n \in Speakers, OpenDir(n)
       PROVE  LibraryInv'
  <2> DEFINE D == scan.todo \ {n}
             G == scan.found \cup {n}
             F == FilesOf(store.disk, n)
  <2>1. scan' = [scan EXCEPT !.todo = D, !.found = G, !.files = F] /\ task' = task
    BY <1>12 DEF OpenDir
  <2>2. D \subseteq Speakers /\ G \subseteq Speakers
    BY <1>1, <1>10, ScanFields
  <2>3. F \subseteq Path
    BY <1>1, StoreFields DEF FilesOf
  <2> HIDE DEF D, F, G
  <2>4. scan' \in Scan /\ scan'.held = scan.held
    BY <1>1, <2>1, <2>2, <2>3, ScanFields DEF Scan
  <2> QED
    BY <1>2, <1>3, <1>5, <2>1, <2>4
<1>13. ASSUME NEW n \in Speakers, MissDir(n)
       PROVE  LibraryInv'
  <2>1. \/ scan' = [scan EXCEPT !.todo = scan.todo \ {n}] /\ task' = task
        \/ scan' = NoScan /\ task' = None
    BY <1>13 DEF MissDir
  <2>2. scan.todo \ {n} \in SUBSET Speakers
    BY <1>10
  <2> QED
    BY <1>2, <1>3, <1>5, <1>6, <1>9, <2>1, <2>2
<1>14. ASSUME NEW n \in Speakers, Plan(n)
       PROVE  LibraryInv'
  <2> DEFINE T == task.targets \cup {n}
  <2>1. /\ scan' = [scan EXCEPT !.todo = scan.todo \ {n}]
        /\ task' = task \/ task' = [task EXCEPT !.targets = T]
    BY <1>14 DEF Plan
  <2>2. scan.todo \ {n} \in SUBSET Speakers
    BY <1>10
  <2>3. T \subseteq Speakers
    BY <1>1, <1>2, RescanFields
  <2> HIDE DEF T
  <2>4. task' \in Rescanning /\ task'.stage = task.stage
    BY <1>1, <1>2, <1>3, <2>1, <2>3, RescanFields DEF Rescanning
  <2> QED
    BY <1>2, <1>5, <1>6, <2>1, <2>2, <2>4
<1>15. ASSUME NEW p \in scan.files, PassOver(p) \/ FindChanged(p)
       PROVE  LibraryInv'
  <2> DEFINE ch == task.changed \cup {p.dir}
  <2>1. /\ scan' = [scan EXCEPT !.files = scan.files \ {p}]
        /\ task' = task \/ task' = [task EXCEPT !.changed = ch]
    BY <1>15 DEF PassOver, FindChanged
  <2>2. scan.files \ {p} \in SUBSET Path
    BY <1>10
  <2>3. ch \subseteq Speakers
    BY <1>1, <1>2, <1>10, PathFields, RescanFields
  <2> HIDE DEF ch
  <2>4. task' \in Rescanning /\ task'.stage = task.stage
    BY <1>1, <1>2, <1>3, <2>1, <2>3, RescanFields DEF Rescanning
  <2> QED
    BY <1>2, <1>5, <1>7, <2>1, <2>2, <2>4
<1>16. ASSUME NEW p \in scan.files, LoadFile(p)
       PROVE  LibraryInv'
  <2> DEFINE F == scan.files \ {p}
             h == [path |-> p, clip |-> store.disk[p]]
  <2>1. /\ scan' = [scan EXCEPT !.files = F, !.held = h]
        /\ task' = [task EXCEPT !.stage = "write"] /\ p \in DOMAIN store.disk
    BY <1>16 DEF LoadFile, Loadable
  <2>2. F \subseteq Path /\ h \in [path : Path, clip : Clip]
    BY <1>1, <1>10, <2>1, StoreFields
  <2>3. h.path.slot = Slot[h.clip.span]
    BY <1>1, <2>1 DEF WellKept, FilesInPlace
  <2> HIDE DEF F, h
  <2>4. scan' \in Scan /\ scan'.held = h
    BY <1>1, <2>1, <2>2, ScanFields DEF Scan
  <2>5. h # None
    BY <2>2, TaskAssumption
  <2>6. task' \in Rescanning /\ task'.stage = "write"
    BY <1>8, <2>1
  <2> QED
    BY <1>2, <1>4, <2>3, <2>4, <2>5, <2>6, ScanStepKeeps
<1>17. ASSUME ListDirs
       PROVE  LibraryInv'
  <2>1. scan' = [scan EXCEPT !.todo = store.dirs] /\ task' = [task EXCEPT !.stage = "scan"]
    BY <1>17 DEF ListDirs
  <2>2. store.dirs \in SUBSET Speakers
    BY <1>1, StoreFields
  <2> QED
    BY <1>5, <1>6, <1>8, <2>1, <2>2
<1>18. ASSUME PlanFits
       PROVE  LibraryInv'
  <2> DEFINE T == task.targets \cup task.changed
  <2>1. /\ scan' = [scan EXCEPT !.todo = scan.found]
        /\ task' = [task EXCEPT !.stage = "plan", !.targets = T]
    BY <1>18 DEF PlanFits
  <2>2. scan.found \in SUBSET Speakers /\ T \subseteq Speakers
    BY <1>1, <1>2, ScanFields, RescanFields
  <2> HIDE DEF T
  <2>3. task' \in Rescanning /\ task'.stage = "plan"
    BY <1>1, <1>2, <2>1, <2>2, RescanFields DEF Rescanning
  <2> QED
    BY <1>5, <1>6, <2>1, <2>2, <2>3
<1>19. ASSUME EndRescan
       PROVE  LibraryInv'
  BY <1>5, <1>9, <1>19 DEF EndRescan
<1> QED
  BY <1>11, <1>12, <1>13, <1>14, <1>15, <1>16, <1>17, <1>18, <1>19

(* A file is written again with what was read, and given a row, whether or   *)
(* not it is still there.                                                    *)
LEMMA AdoptionKeeps ==
  ASSUME LibraryInv, WriteBack \/ AdoptFile
  PROVE  LibraryInv'
<1> DEFINE p == scan.held.path
           clip == scan.held.clip
<1>1. WellKept(store) /\ IsStore(store) /\ LibraryTypeOK /\ ScanIsSound
  BY DEF LibraryInv, WellKept
<1>2. /\ Scanning /\ UNCHANGED <<emb, budget>> /\ task.stage \in {"write", "row"}
  BY DEF WriteBack, AdoptFile, Looking, At, Scanning
<1>3. /\ scan.held # None /\ p \in Path /\ clip \in Clip /\ p.slot = Slot[clip.span]
      /\ clip.span \in Spans /\ p.dir \in Speakers
  BY <1>1, <1>2, ScanFields, PathFields DEF ScanIsSound, Clip
<1>4. [scan EXCEPT !.held = None] \in Scan /\ [scan EXCEPT !.held = None].held = None
  BY <1>1, ScanFields DEF Scan
<1>5. ASSUME NEW stage \in {"row", "scan"}
      PROVE  /\ [task EXCEPT !.stage = stage] \in Rescanning
             /\ [task EXCEPT !.stage = stage].stage = stage
  BY <1>1, <1>2, RescanFields DEF Rescanning
<1> HIDE DEF p, clip
<1>6. CASE WriteBack
  <2>1. \/ /\ p.dir \in store.dirs /\ store' = [store EXCEPT !.disk = Write(@, p, clip)]
           /\ task' = [task EXCEPT !.stage = "row"] /\ scan' = scan /\ lost' = lost
        \/ /\ store' = store /\ lost' = lost
           /\ task' = [task EXCEPT !.stage = "scan"] /\ scan' = [scan EXCEPT !.held = None]
    BY <1>6 DEF WriteBack, Become, p, clip
  <2>2. CASE store' = store
    <3>1. SameShelf(store, store')
      BY <1>1, <2>2 DEF SameShelf
    <3>2. Evolves(store, store', {}) /\ SharesNoMore(store, store')
      BY <1>1, <2>2, <3>1, ShelfEvolves, FewerShare
    <3>3. /\ scan' \in Scan
          /\ scan'.held # None => scan'.held.path.slot = Slot[scan'.held.clip.span]
      BY <1>1, <1>4, <2>1 DEF LibraryTypeOK, ScanIsSound
    <3>4. /\ task' \in Rescanning /\ task'.stage \in {"row", "scan"}
          /\ task'.stage = "row" => scan' = scan
      BY <1>5, <2>1
    <3> QED
      BY <1>2, <1>3, <2>1, <3>2, <3>3, <3>4, ScanStepKeeps
  <2>3. CASE /\ p.dir \in store.dirs /\ store' = [store EXCEPT !.disk = Write(@, p, clip)]
             /\ task' = [task EXCEPT !.stage = "row"] /\ scan' = scan /\ lost' = lost
    <3>1. Evolves(store, store', {}) /\ store'.rows = store.rows
      BY <1>1, <1>3, <2>3, WriteBackKeeps
    <3>2. SharesNoMore(store, store')
      BY <3>1, FewerShare
    <3>3. task' \in Rescanning /\ task'.stage = "row"
      BY <1>5, <2>3
    <3>4. /\ scan' \in Scan
          /\ scan'.held # None => scan'.held.path.slot = Slot[scan'.held.clip.span]
      BY <1>1, <2>3 DEF LibraryTypeOK, ScanIsSound
    <3> QED
      BY <1>2, <1>3, <2>3, <3>1, <3>2, <3>3, <3>4, ScanStepKeeps
  <2> QED
    BY <2>1, <2>2, <2>3
<1>7. CASE AdoptFile
  <2> DEFINE gone == IF p \in DOMAIN store.disk THEN {} ELSE {store.next}
             noted == Shared(store') \cup gone
             T == task.targets \cup {p.dir}
  <2>1. /\ store' = AddRow(store, p.dir, p, None, clip.span)
        /\ task' = [task EXCEPT !.stage = "scan", !.targets = T]
        /\ scan' = [scan EXCEPT !.held = None] /\ lost' = lost \cup noted
    BY <1>7 DEF AdoptFile, Become, Noting, p, clip
  <2>2. p \notin DOMAIN store.disk => store.next \in gone
    OBVIOUS
  <2>3. gone \subseteq Nat
    BY <1>1, StoreFields
  <2> HIDE DEF gone
  <2>4. Evolves(store, store', gone)
    BY <1>1, <1>3, <2>1, <2>2, AddRowKeeps
  <2>5. noted \subseteq Nat
    <3>1. IsStore(store')
      BY <2>4 DEF Evolves, WellKept
    <3> QED
      BY <2>3, <3>1, SharedIsIds
  <2>6. Evolves(store, store', noted)
    BY <2>4, EvolvesMore
  <2>7. SharedIsNoted'
    BY <2>1 DEF SharedIsNoted, Shared, Ids
  <2> HIDE DEF noted
  <2>8. T \subseteq Speakers
    BY <1>1, <1>2, <1>3, RescanFields
  <2> HIDE DEF T
  <2>9. task' \in Rescanning /\ task'.stage = "scan" /\ task'.kind = "rescan"
    BY <1>1, <1>2, <2>1, <2>8, RescanFields DEF Rescanning
  <2>10. scan' \in Scan /\ ScanIsSound'
    BY <1>4, <2>1, <2>9 DEF ScanIsSound
  <2>11. ~Cutter'
    BY <2>9 DEF Cutter
  <2>12. lost' \subseteq Nat /\ lost \cup noted \subseteq lost'
    BY <1>1, <2>1, <2>5 DEF LibraryTypeOK
  <2>13. emb' \in BOOLEAN
         /\ budget' \in [requests : 0 .. Requests, tasks : 0 .. Tasks, mishaps : 0 .. Mishaps]
    BY <1>1, <1>2 DEF LibraryTypeOK
  <2> QED
    BY <2>6, <2>7, <2>9, <2>10, <2>11, <2>12, <2>13, StepKeepsInv
<1> QED
  BY <1>6, <1>7

(* The speakers are fitted one after the other, as a thread that cuts fits    *)
(* its own.                                                                  *)
LEMMA FitsKeep ==
  ASSUME LibraryInv,
         \/ \E n \in Speakers : FitNext(n)
         \/ Scanning /\ (ReadSnippets \/ SaveProfile)
  PROVE  LibraryInv'
<1>1. WellKept(store) /\ IsStore(store) /\ LibraryTypeOK /\ ScanIsSound
  BY DEF LibraryInv, WellKept
<1>2. /\ Scanning /\ UNCHANGED <<scan, emb, budget, lost>>
  BY DEF FitNext, Looking, At, Scanning, ReadSnippets, SaveProfile
<1>3. /\ scan' \in Scan
      /\ scan'.held # None => scan'.held.path.slot = Slot[scan'.held.clip.span]
  BY <1>1, <1>2 DEF LibraryTypeOK, ScanIsSound
<1>4. SameShelf(store, store)
  BY <1>1 DEF SameShelf
<1>5. ASSUME SameShelf(store, store'), task' \in Rescanning,
             task'.stage \in {"plan", "refine", "save"},
             task'.stage \in {"refine", "save"} => task'.name \in Speakers
      PROVE  LibraryInv'
  <2>1. Evolves(store, store', {}) /\ SharesNoMore(store, store')
    BY <1>1, <1>5, ShelfEvolves, FewerShare DEF SameShelf
  <2> QED
    BY <1>2, <1>3, <1>5, <2>1, ScanStepKeeps
<1>6. ASSUME NEW n \in Speakers, FitNext(n)
      PROVE  LibraryInv'
  <2> DEFINE T == task.targets \ {n}
             mid == [task EXCEPT !.targets = T]
  <2>1. /\ store' = store \/ store' = DeleteProfile(store, n)
        /\ task' = [task EXCEPT !.targets = T, !.name = n, !.stage = "refine"]
    BY <1>6 DEF FitNext, Become
  <2>2. SameShelf(store, store')
    BY <1>1, <1>4, <2>1, DeleteProfileShelf
  <2>3. T \subseteq Speakers
    BY <1>1, <1>2, RescanFields
  <2> HIDE DEF T
  <2>4. task' \in Rescanning /\ task'.stage = "refine" /\ task'.name = n
    BY <1>1, <1>2, <2>1, <2>3, RescanFields DEF Rescanning
  <2> QED
    BY <1>5, <2>2, <2>4
<1>7. ASSUME AfterRefine
      PROVE  task' \in Rescanning /\ task'.stage = "plan"
  BY <1>1, <1>2, <1>7, RescanFields DEF AfterRefine, Rescanning, Scanning
<1>8. ASSUME ReadSnippets
      PROVE  LibraryInv'
  <2> DEFINE clips == Readable(store, task.name)
  <2>1. store' = store /\ task.stage = "refine"
    BY <1>8 DEF ReadSnippets, At
  <2>2. task' = [task EXCEPT !.clips = clips, !.stage = "save"] \/ AfterRefine
    BY <1>8 DEF ReadSnippets
  <2>3. clips \subseteq Clip
    BY <1>1, ReadableClips
  <2>4. task.name \in Speakers
    BY <1>1, <1>2, <2>1 DEF ScanIsSound
  <2> HIDE DEF clips
  <2>5. CASE task' = [task EXCEPT !.clips = clips, !.stage = "save"]
    <3>1. task' \in Rescanning /\ task'.stage = "save" /\ task'.name = task.name
      BY <1>1, <1>2, <2>3, <2>5, RescanFields DEF Rescanning
    <3> QED
      BY <1>4, <1>5, <2>1, <2>4, <3>1
  <2> QED
    BY <1>4, <1>5, <1>7, <2>1, <2>2, <2>5
<1>9. ASSUME SaveProfile
      PROVE  LibraryInv'
  <2>1. /\ task.stage = "save" /\ AfterRefine
        /\ store' = store \/ store' = Save(store, task.name, task.clips)
    BY <1>9 DEF SaveProfile, At, Become
  <2>2. task.name \in Speakers /\ task.clips \in SUBSET Clip
    BY <1>1, <1>2, <2>1, RescanFields DEF ScanIsSound
  <2>3. SameShelf(store, store')
    BY <1>1, <1>4, <2>1, <2>2, SaveShelf
  <2> QED
    BY <1>5, <1>7, <2>1, <2>3
<1> QED
  BY <1>2, <1>6, <1>8, <1>9

LEMMA RescanStepKeeps ==
  ASSUME LibraryInv, RescanStep
  PROVE  LibraryInv'
<1>1. ASSUME BeginRescan
      PROVE  LibraryInv'
  <2> DEFINE new == [kind |-> "rescan", stage |-> "list", changed |-> {}, targets |-> {},
                     name |-> None, clips |-> {}]
             D == {r.name : r \in store.rows}
  <2>1. Begin(new) /\ emb' = TRUE /\ scan' = [NoScan EXCEPT !.todo = D] /\ task' = new
    BY <1>1 DEF BeginRescan, Begin
  <2>2. D \subseteq Speakers
    BY StoreFields, SnippetFields DEF LibraryInv, LibraryTypeOK
  <2> HIDE DEF D
  <2>3. scan' \in Scan /\ scan'.held = None
    BY <2>1, <2>2 DEF NoScan, Scan
  <2>4. new \in Rescanning /\ new.kind = "rescan" /\ new.stage = "list"
    BY DEF Rescanning
  <2> HIDE DEF new
  <2>5. ScanIsSound' /\ ~Cutter'
    BY <2>1, <2>3, <2>4 DEF ScanIsSound, Cutter
  <2> QED
    BY <2>1, <2>3, <2>4, <2>5, BeginKeeps
<1> QED
  BY <1>1, LooksKeep, AdoptionKeeps, FitsKeep DEF RescanStep

(* What is written goes to the take of the thread: the span is no longer    *)
(* among those to cut, and it is the one without its row.                    *)
LEMMA CutKeeps ==
  ASSUME LibraryInv, NEW s \in Spans, NEW st, ToCut(s), Cut(s, st),
         Evolves(store, st, lost), st.rows \subseteq store.rows
  PROVE  LibraryInv'
<1> DEFINE rest == task.todo \ {s}
           mid == [task EXCEPT !.todo = rest]
<1>1. /\ Cutter /\ task.stage = "spans" /\ task.written = None /\ s \in task.todo
      /\ Cardinality(task.fresh) < PerSource
      /\ store' = WriteAudio(st, task.name, task.rec, s)
      /\ task' = [task EXCEPT !.todo = rest, !.written = s]
      /\ UNCHANGED <<scan, emb, budget, lost>>
  BY DEF ToCut, Cutting, At, Cutter, Cut, Within, Become
<1>2. LibraryTypeOK /\ IsStore(store) /\ WellKept(st) /\ rest \subseteq Spans
      /\ TakeIsInPlace /\ TakeIsInBudget
  BY <1>1, TaskFields DEF LibraryInv, LibraryTypeOK, Evolves
<1>3. Evolves(st, store', {}) /\ store'.rows = st.rows
  BY <1>1, <1>2, TaskFields, WriteKeeps
<1>4. Evolves(store, store', lost)
  <2>1. Evolves(st, store', lost)
    BY <1>3, EvolvesMore
  <2> QED
    BY <2>1, EvolvesTwice DEF LibraryInv
<1>5. s # None /\ None \notin Spans
  BY StoreAssumption
<1> HIDE DEF rest
<1>6. /\ mid = [kind |-> mid.kind, name |-> mid.name, rec |-> mid.rec,
                todo |-> mid.todo, written |-> mid.written, fresh |-> mid.fresh,
                had |-> mid.had, clips |-> mid.clips, stage |-> mid.stage]
      /\ mid.todo = rest /\ mid.written = task.written /\ mid.kind = task.kind
      /\ mid.name = task.name /\ mid.rec = task.rec /\ mid.fresh = task.fresh
      /\ mid.had = task.had /\ mid.clips = task.clips /\ mid.stage = task.stage
      /\ task' = [mid EXCEPT !.written = s]
  BY <1>1, <1>2, TaskFields
<1> HIDE DEF mid
<1>7. /\ task' = [kind |-> task.kind, name |-> task.name, rec |-> task.rec,
                  todo |-> rest, written |-> s, fresh |-> task.fresh,
                  had |-> task.had, clips |-> task.clips, stage |-> task.stage]
  BY <1>6
<1>8. /\ task'.kind = task.kind /\ task'.name = task.name /\ task'.todo = rest
      /\ task'.written = s /\ task'.fresh = task.fresh /\ task'.stage = task.stage
  BY <1>7
<1>9. task' \in Task
  BY <1>1, <1>2, <1>7, TaskFields DEF Task
<1>10. Cutter'
  BY <1>1, <1>8, <1>9, TaskAssumption DEF Cutter
<1>11. Uncut' = Uncut /\ Uncut = task.todo
  BY <1>1, <1>5, <1>8 DEF Uncut, rest
<1>12. TakeIsInPlace'
  <2>1. store.next <= store'.next /\ store.next \in Nat /\ store'.next \in Nat
        /\ task.fresh \subseteq [id : Nat, path : Path]
    BY <1>1, <1>2, <1>4, StoreFields, TaskFields DEF Evolves, WellKept
  <2>2. ASSUME NEW f \in task.fresh
        PROVE  /\ f.id < store'.next
               /\ f.path.dir = task.name
               /\ \A r \in store'.rows :
                     r.id = f.id => r.path.slot = f.path.slot /\ r.path.rec = f.path.rec
               /\ \E t \in Spans : f.path.slot = Slot[t] /\ \A u \in Uncut : Apart(t, u)
    <3>1. f.id < store.next /\ f.path.dir = task.name /\ f.id \in Nat
      BY <1>1, <1>2, <2>1 DEF TakeIsInPlace
    <3>2. \E t \in Spans : f.path.slot = Slot[t] /\ \A u \in Uncut : Apart(t, u)
      BY <1>1, <1>2 DEF TakeIsInPlace
    <3>3. \A r \in store'.rows :
             r.id = f.id => r.path.slot = f.path.slot /\ r.path.rec = f.path.rec
      BY <1>1, <1>2, <1>3 DEF TakeIsInPlace
    <3> QED
      BY <2>1, <3>1, <3>2, <3>3
  <2>3. \A a, b \in Uncut : a # b => Apart(a, b)
    BY <1>1, <1>2 DEF TakeIsInPlace
  <2>4. s \notin rest
    BY DEF rest
  <2> QED
    BY <1>8, <1>10, <1>11, <2>2, <2>3, <2>4 DEF TakeIsInPlace, Apart
<1>13. TakeIsInBudget'
  BY <1>1, <1>2, <1>8 DEF TakeIsInBudget
<1>14. SharedIsNoted'
  BY <1>1, <1>3, <1>8, <1>10, FewerShare, NotedKept
<1>15. LibraryTypeOK'
  BY <1>1, <1>2, <1>4, <1>9 DEF LibraryTypeOK, Evolves, WellKept
<1>16. ScanIsSound'
  BY <1>1, <1>10, ScanStays DEF Scanning, Cutter
<1> QED
  BY <1>1, <1>4, <1>12, <1>13, <1>14, <1>15, <1>16, InvKept

(* The shorter clip that a collected span replaces shares its file with no  *)
(* row of this take: those do not overlap with the span.                    *)
LEMMA TwinIsOld ==
  ASSUME LibraryInv, NEW s \in Spans, ToCut(s),
         NEW r \in FindDuplicate(store, task.name, task.rec, s),
         Length[r.span] < Length[s]
  PROVE  Evolves(store, DropSnippets(store, {r}), lost)
<1>1. Cutter /\ s \in task.todo
  BY DEF ToCut, Cutting, At, Cutter
<1>2. WellKept(store) /\ IsStore(store) /\ r \in store.rows /\ Start[r.span] = Start[s]
  BY DEF LibraryInv, WellKept, FindDuplicate, RowsOf
<1>3. r.span \in Spans /\ r.path.slot = Slot[r.span]
  BY <1>2, StoreFields, SnippetFields DEF WellKept, AtHome
<1>4. ASSUME NEW q \in store.rows, q.path = r.path
      PROVE  ~InTake(q.id)
  <2> SUFFICES ASSUME NEW f \in task.fresh, f.id = q.id
               PROVE  FALSE
    BY DEF InTake
  <2>1. f.path.slot = Slot[r.span]
    BY <1>1, <1>3, <1>4 DEF LibraryInv, TakeIsInPlace
  <2>2. PICK t \in Spans : f.path.slot = Slot[t] /\ \A u \in Uncut : Apart(t, u)
    BY <1>1 DEF LibraryInv, TakeIsInPlace
  <2>3. Apart(t, s)
    BY <1>1, <2>2 DEF Uncut
  <2>4. Start[t] < Start[r.span] + Length[r.span] /\ Start[r.span] < Start[t] + Length[t]
    BY <1>3, <2>1, <2>2, SlotAssumption
  <2>5. /\ Start[t] \in Nat /\ Length[t] \in Nat /\ Start[s] \in Nat /\ Length[s] \in Nat
        /\ Start[r.span] \in Nat /\ Length[r.span] \in Nat
    BY <1>3, StoreAssumption
  <2> QED
    BY <1>2, <2>3, <2>4, <2>5 DEF Apart
<1> DEFINE new == DropSnippets(store, {r})
<1>5. /\ Remains(store, new) /\ new.rows = store.rows \ {r}
      /\ DOMAIN new.disk = DOMAIN store.disk \ {x.path : x \in {r}}
  BY <1>2, DropRemains
<1> HIDE DEF new
<1>6. ASSUME NEW q \in new.rows, q.path \in DOMAIN store.disk, Dead(new, q)
      PROVE  q.id \in lost
  <2>1. q \in store.rows /\ q # r /\ q.path = r.path
    BY <1>5, <1>6 DEF Dead
  <2> QED
    BY <1>2, <1>4, <2>1, NoTakeNoSharing
<1>7. Evolves(store, new, lost)
  BY <1>2, <1>5, <1>6, RemainsEvolves
<1> QED
  BY <1>7 DEF new

LEMMA CuttingKeeps ==
  ASSUME LibraryInv, NEW s \in Spans, CollectSpan(s) \/ LearnSpan(s)
  PROVE  LibraryInv'
<1>1. Evolves(store, store, lost) /\ store.rows \subseteq store.rows
  <2>1. SameShelf(store, store)
    BY DEF SameShelf, LibraryInv, WellKept
  <2> QED
    BY <2>1, ShelfEvolves, EvolvesMore DEF LibraryInv
<1>2. CASE LearnSpan(s) \/ (CollectSpan(s) /\ Cut(s, store))
  <2>1. ToCut(s) /\ Cut(s, store)
    BY <1>2 DEF LearnSpan, CollectSpan
  <2> QED
    BY <1>1, <2>1, CutKeeps
<1>3. ASSUME CollectSpan(s),
             NEW r \in FindDuplicate(store, task.name, task.rec, s),
             Length[r.span] < Length[s], Cut(s, DropSnippets(store, {r}))
      PROVE  LibraryInv'
  <2>1. ToCut(s)
    BY <1>3 DEF CollectSpan
  <2>2. Evolves(store, DropSnippets(store, {r}), lost)
    BY <1>3, <2>1, TwinIsOld
  <2>3. DropSnippets(store, {r}).rows \subseteq store.rows
    BY DropRemains DEF LibraryInv, WellKept
  <2> QED
    BY <1>3, <2>1, <2>2, <2>3, CutKeeps
<1> QED
  BY <1>2, <1>3 DEF CollectSpan

LEMMA AddSpanRowKeeps ==
  ASSUME LibraryInv, AddSpanRow
  PROVE  LibraryInv'
<1> DEFINE s == task.written
           p == PathOf(task.name, task.rec, s)
           f == [id |-> store.next, path |-> p]
           take == task.fresh \cup {f}
           mid == [task EXCEPT !.written = None]
           noted == IF p \in DOMAIN store.disk THEN {} ELSE {store.next}
<1>1. /\ Cutter /\ task.stage = "spans" /\ s # None
      /\ store' = AddRow(store, task.name, p, task.rec, s)
      /\ task' = [task EXCEPT !.written = None, !.fresh = take]
      /\ lost' = lost \cup noted /\ UNCHANGED <<scan, emb, budget>>
  BY DEF AddSpanRow, Cutting, At, Cutter, Become, Noting
<1>2. LibraryTypeOK /\ IsStore(store) /\ WellKept(store) /\ store.next \in Nat
      /\ TakeIsInPlace /\ TakeIsInBudget
  BY StoreFields DEF LibraryInv, LibraryTypeOK
<1>3. s \in Spans /\ task.name \in Speakers /\ task.rec \in Recordings
      /\ task.fresh \subseteq [id : Nat, path : Path]
  BY <1>1, <1>2, TaskFields
<1>4. p \in Path /\ p.dir = task.name /\ p.rec = task.rec /\ p.slot = Slot[s]
  BY <1>3 DEF PathOf, Path
<1> DEFINE row == [id |-> store.next, name |-> task.name, path |-> p, span |-> s,
                   source |-> task.rec, flagged |-> FALSE]
<1>5. /\ Evolves(store, store', noted) /\ store'.rows = store.rows \cup {row}
      /\ store'.next = store.next + 1
  <2>1. p \notin DOMAIN store.disk => store.next \in noted
    OBVIOUS
  <2>2. task.rec \in Recordings \cup {None}
    BY <1>3
  <2> HIDE DEF p, noted
  <2> QED
    BY <1>1, <1>2, <1>3, <1>4, <2>1, <2>2, AddRowKeeps
<1>6. row.id = store.next /\ row.path = p /\ f.id = store.next /\ f.path = p
  OBVIOUS
<1>7. noted \subseteq Nat /\ f \in [id : Nat, path : Path]
  BY <1>2, <1>4
<1> HIDE DEF row, noted, f, p
<1>8. take \subseteq [id : Nat, path : Path] /\ task.fresh \subseteq take
  BY <1>3, <1>7
<1>20. take = task.fresh \cup {f}
  OBVIOUS
<1> HIDE DEF take
<1>9. /\ mid = [kind |-> mid.kind, name |-> mid.name, rec |-> mid.rec,
                todo |-> mid.todo, written |-> mid.written, fresh |-> mid.fresh,
                had |-> mid.had, clips |-> mid.clips, stage |-> mid.stage]
      /\ mid.todo = task.todo /\ mid.written = None /\ mid.kind = task.kind
      /\ mid.name = task.name /\ mid.rec = task.rec /\ mid.fresh = task.fresh
      /\ mid.had = task.had /\ mid.clips = task.clips /\ mid.stage = task.stage
      /\ task' = [mid EXCEPT !.fresh = take]
  BY <1>1, <1>2, TaskFields
<1> HIDE DEF mid
<1>10. task' = [kind |-> task.kind, name |-> task.name, rec |-> task.rec,
                todo |-> task.todo, written |-> None, fresh |-> take,
                had |-> task.had, clips |-> task.clips, stage |-> task.stage]
  BY <1>9
<1>11. /\ task'.kind = task.kind /\ task'.name = task.name /\ task'.todo = task.todo
       /\ task'.written = None /\ task'.fresh = take /\ task'.stage = "spans"
  BY <1>1, <1>10
<1>12. task' \in Task
  BY <1>1, <1>2, <1>8, <1>10, TaskFields DEF Task
<1>13. Cutter'
  BY <1>1, <1>11, <1>12, TaskAssumption DEF Cutter
<1>14. Uncut' = task.todo /\ Uncut = task.todo \cup {s} /\ s \notin task.todo
       /\ task.todo \subseteq Spans
  BY <1>1, <1>2, <1>11, TaskFields DEF Uncut, TakeIsInPlace
<1>15. \A r \in store.rows : r.id \in Nat /\ r.id < store.next
  BY <1>2, StoreFields, SnippetFields DEF WellKept, IdsAreUsedOnce
<1>16. TakeIsInPlace'
  <2> DEFINE Placed(g) == /\ g.id < store'.next
                          /\ g.path.dir = task.name
                          /\ \A r \in store'.rows :
                                r.id = g.id =>
                                    r.path.slot = g.path.slot /\ r.path.rec = g.path.rec
                          /\ \E t \in Spans : /\ g.path.slot = Slot[t]
                                              /\ \A u \in task.todo : Apart(t, u)
  <2>1. Placed(f)
    <3>1. \A u \in task.todo : Apart(s, u)
      BY <1>1, <1>2, <1>14 DEF TakeIsInPlace
    <3>2. \A r \in store'.rows : r.id = f.id => r = row
      BY <1>5, <1>6, <1>15
    <3>3. f.id < store'.next
      BY <1>2, <1>5, <1>6
    <3> QED
      BY <1>3, <1>4, <1>6, <3>1, <3>2, <3>3
  <2>2. ASSUME NEW g \in task.fresh
        PROVE  Placed(g)
    <3>1. /\ g.id \in Nat /\ g.id < store.next /\ g.path.dir = task.name
          /\ \A r \in store.rows :
                r.id = g.id => r.path.slot = g.path.slot /\ r.path.rec = g.path.rec
      BY <1>1, <1>2, <1>3 DEF TakeIsInPlace
    <3>2. \E t \in Spans : /\ g.path.slot = Slot[t]
                           /\ \A u \in task.todo : Apart(t, u)
      BY <1>1, <1>2, <1>14 DEF TakeIsInPlace
    <3>3. row.id # g.id /\ g.id < store'.next
      BY <1>2, <1>5, <1>6, <3>1
    <3> QED
      BY <1>5, <3>1, <3>2, <3>3
  <2>3. \A g \in take : Placed(g)
    BY <1>20, <2>1, <2>2
  <2>4. (\A a, b \in task.todo : a # b => Apart(a, b)) /\ None \notin task.todo
    BY <1>1, <1>2, <1>14, StoreAssumption DEF TakeIsInPlace
  <2> QED
    BY <1>11, <1>14, <2>3, <2>4 DEF TakeIsInPlace, Apart
<1>17. TakeIsInBudget'
  <2>1. IsFiniteSet(task.fresh) /\ Cardinality(task.fresh) < PerSource
    BY <1>1, <1>2 DEF TakeIsInBudget
  <2>2. IsFiniteSet(take) /\ Cardinality(take) <= Cardinality(task.fresh) + 1
        /\ Cardinality(task.fresh) \in Nat
    <3>1. Cardinality(task.fresh) \in Nat
      BY <2>1, FS_CardinalityType
    <3>2. /\ IsFiniteSet(task.fresh \cup {f})
          /\ Cardinality(task.fresh \cup {f}) =
                IF f \in task.fresh THEN Cardinality(task.fresh)
                ELSE Cardinality(task.fresh) + 1
      BY <2>1, FS_AddElement
    <3> QED
      BY <1>20, <3>1, <3>2
  <2>3. Cardinality(take) \in Nat /\ PerSource \in Nat
    BY <2>2, FS_CardinalityType, StoreAssumption
  <2>4. Cardinality(take) <= PerSource
    BY <2>1, <2>2, <2>3
  <2> QED
    BY <1>11, <2>2, <2>4 DEF TakeIsInBudget
<1>18. SharedIsNoted'
  <2>1. ASSUME NEW id, id = row.id
        PROVE  InTake(id)'
    <3>1. f \in task'.fresh /\ f.id = id
      BY <1>6, <1>11, <1>20, <2>1
    <3> QED
      BY <1>11, <1>13, <3>1 DEF InTake
  <2>2. ASSUME NEW id, InTake(id)
        PROVE  InTake(id)'
    BY <1>8, <1>11, <1>13, <2>2 DEF InTake
  <2>3. ASSUME NEW x \in store.rows, NEW y \in store.rows, x # y, x.path = y.path
        PROVE  {x.id, y.id} \subseteq lost \/ InTake(x.id) \/ InTake(y.id)
    BY <2>3 DEF LibraryInv, SharedIsNoted
  <2>4. ASSUME NEW x \in store'.rows, NEW y \in store'.rows, x # y, x.path = y.path
        PROVE  {x.id, y.id} \subseteq lost' \/ InTake(x.id)' \/ InTake(y.id)'
    <3>1. CASE x \in store.rows /\ y \in store.rows
      BY <1>1, <2>2, <2>3, <2>4, <3>1
    <3>2. CASE x = row \/ y = row
      BY <2>1, <3>2
    <3> QED
      BY <1>5, <3>1, <3>2
  <2> QED
    BY <2>4 DEF SharedIsNoted
<1>19. LibraryTypeOK'
  BY <1>1, <1>2, <1>5, <1>7, <1>12 DEF LibraryTypeOK, Evolves, WellKept
<1>21. ScanIsSound'
  BY <1>1, <1>13, ScanStays DEF Scanning, Cutter
<1> QED
  BY <1>1, <1>5, <1>16, <1>17, <1>18, <1>19, <1>21, InvKept

(* The previous take goes, and no file of this one with it. *)
LEMMA ReplaceKeeps ==
  ASSUME LibraryInv, Replace
  PROVE  LibraryInv'
<1> DEFINE stale == {r \in SourceRows(store, task.name, task.rec) :
                        \A f \in task.fresh : f.id # r.id}
           noted == Shared(store')
<1>1. /\ Cutter /\ task.stage = "spans"
      /\ store' = ReplaceSource(store, task.name, task.rec, task.fresh)
      /\ task' = [task EXCEPT !.stage = "refine"]
      /\ lost' = lost \cup noted /\ UNCHANGED <<scan, emb, budget>>
  BY DEF Replace, SpansDone, Cutting, At, Cutter, Become, Noting
<1>2. LibraryTypeOK /\ IsStore(store) /\ WellKept(store) /\ TakeIsInPlace
  BY DEF LibraryInv, LibraryTypeOK
<1>3. /\ Remains(store, store') /\ store'.rows = store.rows \ stale
      /\ DOMAIN store'.disk =
            DOMAIN store.disk \ ({r.path : r \in stale} \ {f.path : f \in task.fresh})
  BY <1>1, <1>2, ReplaceRemains
<1>4. ASSUME NEW r \in store'.rows, r.path \in DOMAIN store.disk, Dead(store', r)
      PROVE  r.id \in lost'
  <2>1. PICK q \in stale : q.path = r.path
    BY <1>3, <1>4 DEF Dead
  <2>2. r \in store.rows /\ q \in store.rows /\ r # q /\ q.name = task.name
        /\ \A f \in task.fresh : f.id # q.id /\ f.path # r.path
    BY <1>3, <1>4, <2>1 DEF SourceRows, RowsOf, Dead
  <2>3. ~InTake(q.id)
    BY <2>2 DEF InTake
  <2>4. ~InTake(r.id)
    <3> SUFFICES ASSUME NEW f \in task.fresh, f.id = r.id
                 PROVE  FALSE
      BY DEF InTake
    <3>1. f.path.slot = r.path.slot /\ f.path.rec = r.path.rec /\ f.path.dir = task.name
      BY <1>1, <1>2, <2>2 DEF TakeIsInPlace
    <3>2. r.path.dir = task.name
      BY <1>2, <2>1, <2>2 DEF WellKept, AtHome
    <3>3. f.path \in Path /\ r.path \in Path
      BY <1>1, <1>2, <2>2, TaskFields, StoreFields, SnippetFields
    <3>4. f.path = r.path
      BY <3>1, <3>2, <3>3, PathFields
    <3> QED
      BY <2>2, <3>4
  <2> QED
    BY <1>1, <2>1, <2>2, <2>3, <2>4, NoTakeNoSharing
<1>5. Evolves(store, store', lost')
  BY <1>2, <1>3, <1>4, RemainsEvolves
<1>6. SharedIsNoted'
  BY <1>1 DEF SharedIsNoted, Shared, Ids
<1>7. lost' \subseteq Nat
  <2>1. noted \subseteq Nat
    BY <1>3, SharedIsIds DEF Remains
  <2> QED
    BY <1>1, <1>2, <2>1 DEF LibraryTypeOK
<1>8. /\ task' \in Task /\ task'.fresh = task.fresh /\ task'.name = task.name
      /\ task'.todo = task.todo /\ task'.written = task.written
  BY <1>1, <1>2, TaskFields DEF Task
<1>9. scan' \in Scan /\ ScanIsSound'
  BY <1>1, <1>8, ScanStays DEF Scanning, Task
<1> QED
  BY <1>1, <1>2, <1>5, <1>6, <1>7, <1>8, <1>9, StepKeepsInv DEF LibraryTypeOK

----------------------------------------------------------------------------
(* The invariant *)

LEMMA LibraryStart ==
  ASSUME LibraryInit
  PROVE  LibraryInv
<1>1. WellKept(store) /\ task = None /\ lost = {}
  BY StockAssumption DEF LibraryInit
<1>2. Shared(store) = {} /\ \A r \in store.rows : ~Dead(store, r)
  BY StockAssumption DEF LibraryInit
<1>3. \A r, q \in store.rows : r # q => r.path # q.path
  BY <1>2 DEF Shared, Ids
<1>4. scan \in Scan /\ ScanIsSound
  BY <1>1 DEF LibraryInit, NoScan, Scan, ScanIsSound, Scanning
<1>5. LibraryTypeOK
  BY <1>1, <1>4, LibraryAssumption DEF LibraryInit, LibraryTypeOK, WellKept
<1> QED
  BY <1>1, <1>2, <1>3, <1>4, <1>5
     DEF LibraryInv, TakeIsInPlace, TakeIsInBudget, SharedIsNoted, RowsHaveAudio, Cutter

LEMMA LibraryStep ==
  ASSUME LibraryInv, [LibraryNext]_libraryVars
  PROVE  LibraryInv'
<1>1. CASE UserAct
  <2>1. CASE \E a, b \in Speakers : Confirm(a, b)
    BY <2>1, ConfirmKeepsInv
  <2>2. CASE \A a, b \in Speakers : ~Confirm(a, b)
    BY <1>1, <2>2, UserActKeeps
  <2> QED
    BY <2>1, <2>2
<1>2. CASE BeginTask
  BY <1>2, BeginTaskKeeps
<1>3. CASE ThreadStep
  <2>1. ReadSnippets \/ SaveProfile => Cutter \/ Scanning
    BY StageTells DEF LibraryInv, ReadSnippets, SaveProfile
  <2> QED
    BY <1>3, <2>1, QuietThreadKeeps, CuttingKeeps, AddSpanRowKeeps, ReplaceKeeps,
       ConsolidationKeeps, FitsKeep DEF ThreadStep
<1>4. CASE Mishap
  BY <1>4, MishapKeeps
<1>5. CASE RescanStep
  BY <1>5, RescanStepKeeps
<1>6. CASE UNCHANGED libraryVars
  BY <1>6 DEF libraryVars, LibraryInv, LibraryTypeOK, ScanIsSound, Scanning, TakeIsInPlace,
              TakeIsInBudget, SharedIsNoted, RowsHaveAudio, InTake, Cutter, Uncut
<1> QED
  BY <1>1, <1>2, <1>3, <1>4, <1>5, <1>6 DEF LibraryNext

(* Requests, threads and mishaps in any order keep the store in order, and    *)
(* every two rows of one file accounted for.                                  *)
THEOREM LibraryInvariant == LibrarySpec => []LibraryInv
BY LibraryStart, LibraryStep, PTL DEF LibrarySpec

(* Whatever requests, threads and mishaps do, the library's state is one    *)
(* the code can have.                                                       *)
THEOREM LibraryTypeCorrect == LibrarySpec => []LibraryTypeOK
<1>1. LibraryInv => LibraryTypeOK
  BY DEF LibraryInv
<1> QED
  BY <1>1, LibraryInvariant, PTL

(* A snippet row has its audio, but for the rows whose file disappeared, was *)
(* the file of two rows or was left behind by a confirm, and those that a     *)
(* thread made after a request had moved or removed what it had written.      *)
THEOREM SnippetsHaveAudio == LibrarySpec => []RowsHaveAudio
<1>1. LibraryInv => RowsHaveAudio
  BY DEF LibraryInv
<1> QED
  BY <1>1, LibraryInvariant, PTL

----------------------------------------------------------------------------
(* Who ends a profile's wait for its name *)

(* A request that leaves the profiles of all but some speakers alone *)
LEMMA RequestsKeepWaiting ==
  ASSUME LibraryInv, UserAct, NEW n \in Speakers, IsPending(store, n),
         ~ActOn(n), ~Invalidated(n)
  PROVE  IsPending(store', n)
<1>1. WellKept(store) /\ IsStore(store)
  BY DEF LibraryInv, WellKept
<1>2. ASSUME NEW who, WaitOn(store, store', who), n \notin who
      PROVE  IsPending(store', n)
  BY <1>2 DEF WaitOn
<1>3. ASSUME store'.profile = store.profile
      PROVE  IsPending(store', n)
  BY <1>3 DEF IsPending, Known
<1>4. ASSUME NEW st, Request(st)
      PROVE  store' = st
  BY <1>4 DEF Request, Become
<1>5. ASSUME NEW m \in Speakers, NEW rec \in Recordings, NEW s \in Spans,
             NEW replace \in BOOLEAN, Upload(m, rec, s, replace)
      PROVE  IsPending(store', n)
  BY <1>1, <1>3, <1>4, <1>5, AddSnippetKeeps DEF Upload, LoadedRequest
<1>6. ASSUME NEW m \in Speakers, UploadTooShort(m)
      PROVE  IsPending(store', n)
  BY <1>1, <1>3, <1>4, <1>6, TooShortKeeps DEF UploadTooShort, LoadedRequest
<1>7. ASSUME NEW m \in Speakers, DropSpeaker(m)
      PROVE  IsPending(store', n)
  <2>1. n \notin {m}
    BY <1>7 DEF ActOn
  <2> QED
    BY <1>1, <1>2, <1>4, <1>7, <2>1, DeleteSpeakerKeeps DEF DropSpeaker
<1>8. ASSUME NEW m \in Speakers, Refine(m)
      PROVE  IsPending(store', n)
  BY <1>1, <1>2, <1>4, <1>8, AutoRefineShelf DEF Refine, LoadedRequest
<1>9. ASSUME NEW m \in Speakers, Keep(m)
      PROVE  IsPending(store', n)
  BY <1>1, <1>3, <1>4, <1>9, KeepFlaggedKeeps DEF Keep
<1>10. ASSUME NEW m \in Speakers, DropFlagged(m)
       PROVE  IsPending(store', n)
  <2>1. n \notin {m}
    BY <1>10 DEF ActOn
  <2> QED
    BY <1>1, <1>2, <1>4, <1>10, <2>1, RemoveFlaggedKeeps DEF DropFlagged, LoadedRequest
<1>11. ASSUME NEW r \in store.rows, DropOne(r)
       PROVE  IsPending(store', n)
  <2>1. n \notin {r.name}
    BY <1>11 DEF ActOn, RowsOf
  <2> QED
    BY <1>1, <1>2, <1>4, <1>11, <2>1, DeleteSnippetKeeps DEF DropOne
<1>12. ASSUME NEW a \in Speakers, NEW b \in Speakers, Rename(a, b)
       PROVE  IsPending(store', n)
  <2>1. n \notin {a}
    BY <1>12 DEF ActOn
  <2> QED
    BY <1>1, <1>2, <1>4, <1>12, <2>1, RenameSpeakerKeeps DEF Rename, LoadedRequest
<1>13. ASSUME NEW a \in Speakers, NEW b \in Speakers, Merge(a, b)
       PROVE  IsPending(store', n)
  <2>1. n \notin {b}
    BY <1>13 DEF ActOn
  <2>2. store' = MergeSpeakers(store, a, b, TRUE)
    BY <1>4, <1>13 DEF Merge, LoadedRequest
  <2>3. WaitOn(store, store', {b})
    BY <1>1, <2>2, MergeKeeps
  <2> QED
    BY <1>2, <2>1, <2>3
<1>14. ASSUME NEW a \in Speakers, NEW b \in Speakers, MergePending(a, b)
       PROVE  IsPending(store', n)
  BY <1>13, <1>14 DEF MergePending
<1>15. ASSUME NEW a \in Speakers, NEW b \in Speakers, Confirm(a, b)
       PROVE  IsPending(store', n)
  <2> DEFINE noted == Ids(RowsOf(ConfirmPending(store, a, b, TRUE), b))
  <2>1. n \notin {a}
    BY <1>15 DEF ActOn
  <2>2. (a = b \/ ~Exists(store, b)) /\ store' = ConfirmPending(store, a, b, TRUE)
    BY <1>15 DEF Confirm, Become
  <2>3. WaitOn(store, ConfirmPending(store, a, b, TRUE), {a})
    BY <1>1, <2>2, ConfirmKeeps
  <2> QED
    BY <1>2, <2>1, <2>2, <2>3
<1>16. ASSUME NEW copies \in MayTake(Duplicates(store)), NEW mute \in MayTake(DeadRows(store)),
              NEW trim \in BOOLEAN, Cleanup(copies, mute, trim)
       PROVE  IsPending(store', n)
  <2>1. copies \in SUBSET store.rows /\ mute \in SUBSET store.rows
    BY ListedRows
  <2> QED
    BY <1>1, <1>2, <1>4, <1>16, <2>1, CleanupKeeps DEF Cleanup, LoadedRequest
<1>17. ASSUME NEW changed \in Rewritten(store), RescanNow(changed)
       PROVE  IsPending(store', n)
  <2>1. n \notin changed
    BY <1>17 DEF Invalidated
  <2> QED
    BY <1>1, <1>2, <1>4, <1>17, <2>1, RescanKeeps DEF RescanNow, LoadedRequest
<1> QED
  BY <1>5, <1>6, <1>7, <1>8, <1>9, <1>10, <1>11, <1>12, <1>13, <1>14, <1>15, <1>16, <1>17
     DEF UserAct

(* What a cutting thread writes and drops is no profile. *)
LEMMA CutProfiles ==
  ASSUME LibraryInv, NEW s \in Spans, CollectSpan(s) \/ LearnSpan(s)
  PROVE  store'.profile = store.profile
<1>1. Cutter /\ task.name \in Speakers /\ task.rec \in Recordings
      /\ WellKept(store) /\ IsStore(store)
  BY TaskFields DEF CollectSpan, LearnSpan, ToCut, Cutting, At, Cutter, LibraryInv, WellKept
<1>2. ASSUME NEW st, WellKept(st), Cut(s, st), st.profile = store.profile
      PROVE  store'.profile = store.profile
  <2>1. store' = WriteAudio(st, task.name, task.rec, s)
    BY <1>2 DEF Cut, Become
  <2> QED
    BY <1>1, <1>2, <2>1, WriteKeeps
<1>3. CASE LearnSpan(s) \/ (CollectSpan(s) /\ Cut(s, store))
  BY <1>1, <1>2, <1>3 DEF LearnSpan
<1>4. ASSUME CollectSpan(s),
             NEW r \in FindDuplicate(store, task.name, task.rec, s),
             Length[r.span] < Length[s], Cut(s, DropSnippets(store, {r}))
      PROVE  store'.profile = store.profile
  <2> DEFINE st == DropSnippets(store, {r})
  <2>1. Evolves(store, st, lost)
    BY <1>4, TwinIsOld DEF CollectSpan
  <2>2. st.profile = store.profile
    BY <1>1, DropRemains
  <2>3. Cut(s, st)
    BY <1>4
  <2> HIDE DEF st
  <2> QED
    BY <1>2, <2>1, <2>2, <2>3 DEF Evolves
<1> QED
  BY <1>3, <1>4 DEF CollectSpan

LEMMA ThreadsKeepWaiting ==
  ASSUME LibraryInv, BeginTask \/ ThreadStep \/ RescanStep \/ Mishap, NEW n \in Speakers,
         IsPending(store, n), ~Invalidated(n)
  PROVE  IsPending(store', n)
<1> USE DEF Become
<1>1. WellKept(store) /\ IsStore(store) /\ LibraryTypeOK /\ ScanIsSound
  BY DEF LibraryInv, WellKept
<1>2. ASSUME NEW who, WaitOn(store, store', who), n \notin who
      PROVE  IsPending(store', n)
  BY <1>2 DEF WaitOn
<1>3. ASSUME store'.profile = store.profile
      PROVE  IsPending(store', n)
  BY <1>3 DEF IsPending, Known
<1>4. ASSUME BeginTask
      PROVE  IsPending(store', n)
  BY <1>3, <1>4 DEF BeginTask, BeginCollect, BeginLearn, BeginCutting, BeginConsolidate, Begin
<1>5. ASSUME Mishap
      PROVE  IsPending(store', n)
  <2>1. \/ store' = store
        \/ \E p : store' = [store EXCEPT !.disk = Unlink(@, {p})]
    BY <1>5 DEF Mishap, Vanish, SessionComesOrGoes
  <2>2. ASSUME NEW p, store' = [store EXCEPT !.disk = Unlink(@, {p})]
        PROVE  store'.profile = store.profile
    BY <1>1, <2>2, StoreFields
  <2> QED
    BY <1>3, <2>1, <2>2
<1>6. ASSUME NEW s \in Spans, SkipSpan(s) \/ CollectSpan(s) \/ LearnSpan(s)
      PROVE  IsPending(store', n)
  BY <1>3, <1>6, CutProfiles DEF SkipSpan
<1>7. ASSUME AddSpanRow
      PROVE  IsPending(store', n)
  <2>1. store'.profile = store.profile
    BY <1>1, <1>7, StoreFields DEF AddSpanRow, AddRow
  <2> QED
    BY <1>3, <2>1
<1>8. ASSUME Replace
      PROVE  IsPending(store', n)
  <2>1. store' = ReplaceSource(store, task.name, task.rec, task.fresh)
    BY <1>8 DEF Replace
  <2> QED
    BY <1>1, <1>3, <2>1, ReplaceRemains
<1>9. ASSUME LearnNothing \/ ReadSnippets
      PROVE  IsPending(store', n)
  BY <1>3, <1>9 DEF LearnNothing, ReadSnippets
<1>10. ASSUME SaveProfile
       PROVE  IsPending(store', n)
  <2>1. /\ Cutter \/ (Scanning /\ task.stage = "save")
        /\ store' = store \/ store' = Save(store, task.name, task.clips)
    BY <1>1, <1>10, StageTells DEF SaveProfile, At
  <2>2. task.name \in Speakers /\ task.clips \in SUBSET Clip
    BY <1>1, <2>1, TaskFields, RescanFields DEF ScanIsSound
  <2>3. WaitOn(store, Save(store, task.name, task.clips), {})
    BY <1>1, <2>2, SaveShelf
  <2> QED
    BY <1>2, <1>3, <2>1, <2>3
<1>11. ASSUME FlagPending
       PROVE  IsPending(store', n)
  <2>1. Cutter /\ store' = SetPending(store, task.name, TRUE)
    BY <1>11 DEF FlagPending, Cutting, At, Cutter
  <2>2. task.name \in Speakers
    BY <1>1, <2>1, TaskFields
  <2>3. WaitOn(store, store', IF TRUE THEN {} ELSE {task.name})
    BY <1>1, <2>1, <2>2, SetPendingShelf
  <2> QED
    BY <1>2, <2>3
<1>12. ASSUME Mark
       PROVE  IsPending(store', n)
  <2>1. store' = MarkOutliers(store, task.scored, task.accused)
    BY <1>12 DEF Mark
  <2> QED
    BY <1>1, <1>3, <2>1, MarkOutliersKeeps
<1>13. ASSUME SaveKept
       PROVE  IsPending(store', n)
  <2>1. At("fit") /\ store' = Save(store, task.name, task.kept)
    BY <1>13 DEF SaveKept
  <2>2. task.name \in Speakers /\ task.kept \in SUBSET Clip
    BY <1>1, <2>1, StageTells
  <2> QED
    BY <1>1, <1>2, <2>1, <2>2, SaveShelf
<1>14. ASSUME WriteBack
       PROVE  IsPending(store', n)
  <2>1. \/ store' = store
        \/ store' = [store EXCEPT !.disk = Write(@, scan.held.path, scan.held.clip)]
    BY <1>14 DEF WriteBack
  <2>2. store'.profile = store.profile
    BY <1>1, <2>1, StoreFields
  <2> QED
    BY <1>3, <2>2
<1>15. ASSUME AdoptFile
       PROVE  IsPending(store', n)
  <2>1. store'.profile = store.profile
    BY <1>1, <1>15, StoreFields DEF AdoptFile, AddRow
  <2> QED
    BY <1>3, <2>1
<1>16. ASSUME NEW m \in Speakers, FitNext(m)
       PROVE  IsPending(store', n)
  <2>1. CASE m \in task.changed
    <3>1. store' = DeleteProfile(store, m)
      BY <1>16, <2>1 DEF FitNext
    <3>2. task # None /\ task.kind = "rescan"
      BY <1>16 DEF FitNext, Looking, At
    <3>3. n \notin {m}
      BY <1>16, <2>1, <3>2 DEF Invalidated
    <3> QED
      BY <1>1, <1>2, <3>1, <3>3, DeleteProfileShelf
  <2>2. CASE m \notin task.changed
    BY <1>3, <1>16, <2>2 DEF FitNext
  <2> QED
    BY <2>1, <2>2
<1>17. ASSUME RescanStep, ~WriteBack, ~AdoptFile, \A m \in Speakers : ~FitNext(m)
       PROVE  store' = store
  BY <1>17 DEF RescanStep, BeginRescan, Begin, ListRows, ListDirs, OpenDir, MissDir, PassOver,
               FindChanged, LoadFile, PlanFits, Plan, EndRescan
<1>18. ASSUME RescanStep
       PROVE  IsPending(store', n)
  BY <1>3, <1>14, <1>15, <1>16, <1>17, <1>18
<1> QED
  BY <1>4, <1>5, <1>6, <1>7, <1>8, <1>9, <1>10, <1>11, <1>12, <1>13, <1>18 DEF ThreadStep

(* A profile that waits for its name waits on, whatever the service does of  *)
(* its own accord and whatever users do to others: only what its user does   *)
(* to that very speaker, or a rescan that takes its files for changed, ends  *)
(* the wait.                                                                 *)
THEOREM PromotionNeedsTheUser == LibrarySpec => PromotionIsTheUsersAct
<1>1. ASSUME LibraryInv, [LibraryNext]_libraryVars, NEW n \in Speakers,
             IsPending(store, n), ~IsPending(store', n)
      PROVE  ActOn(n) \/ Invalidated(n)
  <2>1. CASE UNCHANGED libraryVars
    BY <1>1, <2>1 DEF libraryVars
  <2>2. CASE LibraryNext
    BY <1>1, <2>2, RequestsKeepWaiting, ThreadsKeepWaiting DEF LibraryNext
  <2> QED
    BY <1>1, <2>1, <2>2
<1>2. LibraryInv /\ [LibraryNext]_libraryVars =>
         [\A n \in Speakers :
            IsPending(store, n) /\ ~IsPending(store', n)
            => ActOn(n) \/ Invalidated(n)]_libraryVars
  BY <1>1
<1> QED
  BY <1>2, LibraryInvariant, PTL DEF LibrarySpec, PromotionIsTheUsersAct

----------------------------------------------------------------------------
(* What a cutting thread takes away *)

LosesOnly(st, new, own) ==
    /\ st.rows \ new.rows \subseteq own
    /\ DOMAIN st.disk \ DOMAIN new.disk \subseteq {r.path : r \in own}

(* The clip that a longer one replaces is the thread's speaker's, and it is *)
(* from the same recording: its file is named after what it was cut from.   *)
LEMMA CutsTakeOwn ==
  ASSUME LibraryInv, NEW s \in Spans, CollectSpan(s) \/ LearnSpan(s)
  PROVE  LosesOnly(store, store', SourceRows(store, task.name, task.rec))
<1> DEFINE own == SourceRows(store, task.name, task.rec)
<1>1. Cutter /\ task.name \in Speakers /\ task.rec \in Recordings
      /\ WellKept(store) /\ IsStore(store)
  BY TaskFields DEF CollectSpan, LearnSpan, ToCut, Cutting, At, Cutter, LibraryInv, WellKept
<1>2. ASSUME NEW st, WellKept(st), Cut(s, st)
      PROVE  store'.rows = st.rows /\ DOMAIN st.disk \subseteq DOMAIN store'.disk
  <2>1. store' = WriteAudio(st, task.name, task.rec, s)
    BY <1>2 DEF Cut, Become
  <2> QED
    BY <1>1, <1>2, <2>1, WriteKeeps
<1>3. CASE LearnSpan(s) \/ (CollectSpan(s) /\ Cut(s, store))
  BY <1>1, <1>2, <1>3 DEF LearnSpan, LosesOnly
<1>4. ASSUME CollectSpan(s),
             NEW r \in FindDuplicate(store, task.name, task.rec, s),
             Length[r.span] < Length[s], Cut(s, DropSnippets(store, {r}))
      PROVE  LosesOnly(store, store', own)
  <2> DEFINE st == DropSnippets(store, {r})
  <2>1. WellKept(st)
    BY <1>4, TwinIsOld DEF CollectSpan, Evolves
  <2>2. /\ st.rows = store.rows \ {r}
        /\ DOMAIN st.disk = DOMAIN store.disk \ {x.path : x \in {r}}
    BY <1>1, DropRemains
  <2>3. Cut(s, st)
    BY <1>4
  <2> HIDE DEF st
  <2>4. store'.rows = st.rows /\ DOMAIN st.disk \subseteq DOMAIN store'.disk
    BY <1>2, <2>1, <2>3
  <2>5. r \in own
    <3>1. r \in store.rows /\ r.name = task.name /\ r.source = task.rec
      BY DEF FindDuplicate, RowsOf
    <3>2. task.rec # None
      BY <1>1, StoreAssumption
    <3>3. r.path.rec = task.rec
      BY <1>1, <3>1, <3>2 DEF WellKept, AtHome
    <3> QED
      BY <3>1, <3>3 DEF SourceRows, RowsOf
  <2> QED
    BY <2>2, <2>4, <2>5 DEF LosesOnly
<1> QED
  BY <1>3, <1>4 DEF CollectSpan

LEMMA ThreadsTakeOwn ==
  ASSUME LibraryInv, [LibraryNext]_libraryVars, Cutter, task' # task
  PROVE  LosesOnly(store, store', SourceRows(store, task.name, task.rec))
<1> USE DEF Become
<1> DEFINE own == SourceRows(store, task.name, task.rec)
<1>1. WellKept(store) /\ IsStore(store) /\ LibraryTypeOK
  BY DEF LibraryInv, WellKept
<1>2. ASSUME store.rows \subseteq store'.rows, store'.disk = store.disk
      PROVE  LosesOnly(store, store', own)
  BY <1>2 DEF LosesOnly
<1>3. ThreadStep
  <2>1. ~UserAct
    BY DEF UserAct, Upload, UploadTooShort, DropSpeaker, Refine, Keep, DropFlagged, DropOne,
           Rename, Merge, MergePending, Confirm, Cleanup, RescanNow, LoadedRequest, Request
  <2>2. ~BeginTask
    BY DEF BeginTask, BeginCollect, BeginLearn, BeginCutting, BeginConsolidate, Begin, Cutter
  <2>3. ~RescanStep
    BY DEF RescanStep, BeginRescan, Begin, ListRows, ListDirs, OpenDir, MissDir, PassOver,
           FindChanged, LoadFile, WriteBack, AdoptFile, PlanFits, Plan, FitNext, EndRescan,
           Looking, Cutter
  <2>4. ~Mishap /\ ~UNCHANGED libraryVars
    BY DEF Mishap, Vanish, SessionComesOrGoes, libraryVars
  <2> QED
    BY <2>1, <2>2, <2>3, <2>4 DEF LibraryNext
<1>4. ASSUME NEW s \in Spans, SkipSpan(s)
      PROVE  LosesOnly(store, store', own)
  BY <1>2, <1>4 DEF SkipSpan
<1>5. ASSUME NEW s \in Spans, CollectSpan(s) \/ LearnSpan(s)
      PROVE  LosesOnly(store, store', own)
  BY <1>5, CutsTakeOwn
<1>6. ASSUME AddSpanRow
      PROVE  LosesOnly(store, store', own)
  <2>1. store.rows \subseteq store'.rows /\ store'.disk = store.disk
    BY <1>1, <1>6, StoreFields DEF AddSpanRow, AddRow
  <2> QED
    BY <1>2, <2>1
<1>7. ASSUME Replace
      PROVE  LosesOnly(store, store', own)
  <2> DEFINE stale == {r \in own : \A f \in task.fresh : f.id # r.id}
  <2>1. store' = ReplaceSource(store, task.name, task.rec, task.fresh)
    BY <1>7 DEF Replace
  <2>2. /\ store'.rows = store.rows \ stale
        /\ DOMAIN store'.disk =
              DOMAIN store.disk \ ({r.path : r \in stale} \ {f.path : f \in task.fresh})
    BY <1>1, <2>1, ReplaceRemains
  <2> QED
    BY <2>2 DEF LosesOnly
<1>8. ASSUME LearnNothing \/ ReadSnippets
      PROVE  LosesOnly(store, store', own)
  BY <1>2, <1>8 DEF LearnNothing, ReadSnippets
<1>9. ASSUME SaveProfile \/ FlagPending
      PROVE  LosesOnly(store, store', own)
  <2>1. \/ store' = store
        \/ store' = Save(store, task.name, task.clips)
        \/ store' = SetPending(store, task.name, TRUE)
    BY <1>9 DEF SaveProfile, FlagPending
  <2>2. task.name \in Speakers /\ task.clips \in SUBSET Clip
    BY <1>1, TaskFields
  <2>3. store' = store \/ SameShelf(store, store')
    BY <1>1, <2>1, <2>2, SaveShelf, SetPendingShelf
  <2> QED
    BY <1>2, <2>3 DEF SameShelf
<1>10. ~Mark /\ ~SaveKept
  BY <1>1, StageTells DEF Mark, SaveKept
<1> QED
  BY <1>3, <1>4, <1>5, <1>6, <1>7, <1>8, <1>9, <1>10 DEF ThreadStep

(* Collecting and learning take no snippet, row or file, of another speaker  *)
(* or of another recording away, whatever was renamed or merged meanwhile.  *)
THEOREM ThreadsKeepToTheirOwn == LibrarySpec => OthersKeepTheirAudio
<1>1. LibraryInv /\ [LibraryNext]_libraryVars =>
         [(task # None /\ task.kind \in {"collect", "learn"} /\ task' # task) =>
            LET own == SourceRows(store, task.name, task.rec)
            IN  /\ store.rows \ store'.rows \subseteq own
                /\ DOMAIN store.disk \ DOMAIN store'.disk \subseteq {r.path : r \in own}]_libraryVars
  BY ThreadsTakeOwn DEF LosesOnly, Cutter
<1> QED
  BY <1>1, LibraryInvariant, PTL DEF LibrarySpec, OthersKeepTheirAudio

----------------------------------------------------------------------------
(* What a reprocess leaves of a recording *)

LEMMA LeftIsTheTake ==
  ASSUME LibraryInv, Replace
  PROVE  LET left == SourceRows(store', task.name, task.rec)
         IN  /\ Cardinality(left) <= PerSource
             /\ Ids(left) \subseteq {f.id : f \in task.fresh}
<1> DEFINE left == SourceRows(store', task.name, task.rec)
           stale == {r \in SourceRows(store, task.name, task.rec) :
                        \A f \in task.fresh : f.id # r.id}
           f == [r \in left |-> CHOOSE x \in task.fresh : x.id = r.id]
<1>1. Cutter /\ store' = ReplaceSource(store, task.name, task.rec, task.fresh)
  BY DEF Replace, SpansDone, Cutting, At, Cutter, Become
<1>2. WellKept(store) /\ IsStore(store)
  BY DEF LibraryInv, WellKept
<1>3. IsFiniteSet(task.fresh) /\ Cardinality(task.fresh) <= PerSource
      /\ Cardinality(task.fresh) \in Nat /\ PerSource \in Nat
  BY <1>1, FS_CardinalityType, StoreAssumption DEF LibraryInv, TakeIsInBudget
<1>4. store'.rows = store.rows \ stale
  BY <1>1, <1>2, ReplaceRemains
<1>5. left \subseteq store.rows
  BY <1>4 DEF SourceRows, RowsOf
<1>6. ASSUME NEW r \in left
      PROVE  \E x \in task.fresh : x.id = r.id
  BY <1>4 DEF SourceRows, RowsOf
<1> HIDE DEF left
<1>7. \A r \in left : f[r] \in task.fresh /\ f[r].id = r.id
  BY <1>6
<1>8. f \in [left -> task.fresh]
  BY <1>7
<1> HIDE DEF f
<1>9. \A r, q \in left : f[r] = f[q] => r = q
  BY <1>2, <1>5, <1>7 DEF WellKept, IdsAreUsedOnce
<1>10. f \in Injection(left, task.fresh)
  BY <1>8, <1>9 DEF Injection, IsInjective
<1>11. IsFiniteSet(left) /\ Cardinality(left) <= Cardinality(task.fresh)
  BY <1>3, <1>10, FS_Injection
<1>12. Cardinality(left) <= PerSource
  BY <1>3, <1>11, FS_CardinalityType
<1>13. Ids(left) \subseteq {x.id : x \in task.fresh}
  BY <1>6 DEF Ids
<1> QED
  BY <1>12, <1>13 DEF left

(* A reprocess leaves a speaker no more of a recording than its budget, all  *)
(* of it of the take that was just cut.                                      *)
THEOREM ReprocessKeepsItsTake == LibrarySpec => ReprocessReplaces
<1>1. LibraryInv /\ [LibraryNext]_libraryVars =>
         [Replace =>
            LET left == SourceRows(store', task.name, task.rec)
            IN  /\ Cardinality(left) <= PerSource
                /\ Ids(left) \subseteq {f.id : f \in task.fresh}]_libraryVars
  BY LeftIsTheTake
<1> QED
  BY <1>1, LibraryInvariant, PTL DEF LibrarySpec, ReprocessReplaces

----------------------------------------------------------------------------
(***************************************************************************)
(* The repairs.  What a pass has still to try was queued, and the speaker   *)
(* it is at is not among those still to try: this is what makes the type    *)
(* invariant, and which profiles a repair may take, inductive.              *)
(***************************************************************************)
PassStages == {"load", "next", "list", "look", "purge", "drop", "clear",
               "refine", "save", "check", "flag"}

PassIsSound ==
    repair # None =>
        /\ \A n \in repair.todo : repair.left[n] # None
        /\ repair.stage \notin {"load", "next"} =>
              /\ repair.name \in Speakers \ repair.todo
              /\ repair.left[repair.name] # None

RebuildInv == RebuildTypeOK /\ WellKept(lib) /\ PassIsSound

(* A pass between two entries, over the speakers and entries of another *)
BetweenEntries(p, q, n) ==
    /\ q \in Pass /\ q.stage = "next" /\ q.todo = p.todo
    /\ \A m \in Speakers \ {n} : q.left[m] = p.left[m]

LEMMA PassFields ==
  ASSUME NEW p \in Pass
  PROVE  /\ p = [todo |-> p.todo, left |-> p.left, marks |-> p.marks, name |-> p.name,
                 pending |-> p.pending, clips |-> p.clips, stage |-> p.stage]
         /\ p.todo \subseteq Speakers /\ p.left \in [Speakers -> Entry \cup {None}]
         /\ p.marks \in Seq(Fingerprint) /\ p.name \in Speakers \cup {None}
         /\ p.pending \in BOOLEAN /\ p.clips \subseteq Clip
         /\ p.stage \in PassStages
BY DEF Pass, PassStages

LEMMA PassOf ==
  ASSUME NEW p,
         p = [todo |-> p.todo, left |-> p.left, marks |-> p.marks, name |-> p.name,
              pending |-> p.pending, clips |-> p.clips, stage |-> p.stage],
         p.todo \subseteq Speakers, p.left \in [Speakers -> Entry \cup {None}],
         p.marks \in Seq(Fingerprint), p.name \in Speakers \cup {None},
         p.pending \in BOOLEAN, p.clips \subseteq Clip,
         p.stage \in PassStages
  PROVE  p \in Pass
BY DEF Pass, PassStages

LEMMA StageSet ==
  ASSUME NEW p \in Pass, NEW stage \in PassStages
  PROVE  LET q == [p EXCEPT !.stage = stage] IN
         /\ q \in Pass /\ q.stage = stage /\ q.todo = p.todo /\ q.left = p.left
         /\ q.name = p.name /\ q.marks = p.marks
<1> DEFINE q == [p EXCEPT !.stage = stage]
<1>1. /\ q = [todo |-> q.todo, left |-> q.left, marks |-> q.marks, name |-> q.name,
              pending |-> q.pending, clips |-> q.clips, stage |-> q.stage]
      /\ q.stage = stage /\ q.todo = p.todo /\ q.left = p.left /\ q.name = p.name
      /\ q.marks = p.marks /\ q.pending = p.pending /\ q.clips = p.clips
  BY PassFields
<1> HIDE DEF q
<1>2. q \in Pass
  BY <1>1, PassFields, PassOf
<1> QED
  BY <1>1, <1>2 DEF q

LEMMA SkippedFields ==
  ASSUME NEW p \in Pass
  PROVE  LET q == Skipped(p) IN
         /\ q \in Pass /\ q.stage = "next" /\ q.todo = p.todo /\ q.left = p.left
         /\ q.marks = p.marks
<1> DEFINE a == [p EXCEPT !.stage = "next"]
           b == [a EXCEPT !.name = None]
           q == [b EXCEPT !.clips = {}]
<1>0. Skipped(p) = q
  BY DEF Skipped
<1>1. a \in Pass /\ a.stage = "next" /\ a.todo = p.todo /\ a.left = p.left /\ a.marks = p.marks
  BY StageSet DEF PassStages
<1> HIDE DEF a
<1>6. a = [todo |-> a.todo, left |-> a.left, marks |-> a.marks, name |-> a.name,
           pending |-> a.pending, clips |-> a.clips, stage |-> a.stage]
  BY <1>1, PassFields
<1>2. /\ b = [todo |-> b.todo, left |-> b.left, marks |-> b.marks, name |-> b.name,
              pending |-> b.pending, clips |-> b.clips, stage |-> b.stage]
      /\ b.stage = a.stage /\ b.todo = a.todo /\ b.left = a.left /\ b.name = None
      /\ b.marks = a.marks /\ b.pending = a.pending /\ b.clips = a.clips
  BY <1>6
<1> HIDE DEF b
<1>3. b \in Pass
  BY <1>1, <1>2, PassFields, PassOf
<1>4. /\ q = [todo |-> q.todo, left |-> q.left, marks |-> q.marks, name |-> q.name,
              pending |-> q.pending, clips |-> q.clips, stage |-> q.stage]
      /\ q.stage = b.stage /\ q.todo = b.todo /\ q.left = b.left /\ q.name = b.name
      /\ q.marks = b.marks /\ q.pending = b.pending /\ q.clips = {}
  BY <1>2
<1> HIDE DEF q
<1>5. q \in Pass
  BY <1>3, <1>4, PassFields, PassOf
<1> QED
  BY <1>0, <1>1, <1>2, <1>4, <1>5

LEMMA FinishedFields ==
  ASSUME NEW p \in Pass, NEW n \in Speakers, p.left[n] # None
  PROVE  BetweenEntries(p, Finished(p, n), n)
<1> DEFINE a == Skipped(p)
           left == [p.left EXCEPT ![n] = None]
           marks == Append(p.marks, <<n, p.left[n].reasons>>)
           b == [a EXCEPT !.left = left]
           q == [b EXCEPT !.marks = marks]
<1>1. a \in Pass /\ a.stage = "next" /\ a.todo = p.todo
  BY SkippedFields
<1>2. left \in [Speakers -> Entry \cup {None}] /\ \A m \in Speakers \ {n} : left[m] = p.left[m]
  BY PassFields
<1>3. marks \in Seq(Fingerprint)
  <2>1. p.left[n] \in Entry
    BY PassFields
  <2> QED
    <3>1. <<n, p.left[n].reasons>> \in Fingerprint
      BY <2>1 DEF Entry, Fingerprint
    <3> QED
      BY <3>1, PassFields
<1>0. Finished(p, n) = q
  BY PassFields DEF Finished, Skipped
<1> HIDE DEF a, left, marks
<1>7. a = [todo |-> a.todo, left |-> a.left, marks |-> a.marks, name |-> a.name,
           pending |-> a.pending, clips |-> a.clips, stage |-> a.stage]
      /\ a.pending \in BOOLEAN /\ a.clips \subseteq Clip /\ a.name \in Speakers \cup {None}
  BY <1>1, PassFields
<1>4. /\ b = [todo |-> b.todo, left |-> b.left, marks |-> b.marks, name |-> b.name,
              pending |-> b.pending, clips |-> b.clips, stage |-> b.stage]
      /\ b.stage = a.stage /\ b.todo = a.todo /\ b.left = left /\ b.name = a.name
      /\ b.marks = a.marks /\ b.pending = a.pending /\ b.clips = a.clips
  BY <1>7
<1> HIDE DEF b
<1>5. /\ q = [todo |-> q.todo, left |-> q.left, marks |-> q.marks, name |-> q.name,
              pending |-> q.pending, clips |-> q.clips, stage |-> q.stage]
      /\ q.stage = b.stage /\ q.todo = b.todo /\ q.left = b.left /\ q.name = b.name
      /\ q.marks = marks /\ q.pending = b.pending /\ q.clips = b.clips
  BY <1>4
<1> HIDE DEF q
<1>8. /\ q.left \in [Speakers -> Entry \cup {None}] /\ q.marks \in Seq(Fingerprint)
      /\ q.name \in Speakers \cup {None} /\ q.pending \in BOOLEAN /\ q.clips \subseteq Clip
  BY <1>2, <1>3, <1>4, <1>5, <1>7
<1>9. q.todo \subseteq Speakers /\ q.stage \in PassStages
  BY <1>1, <1>4, <1>5, PassFields DEF PassStages
<1>6. q \in Pass
  BY <1>5, <1>8, <1>9, PassOf
<1> QED
  BY <1>0, <1>1, <1>2, <1>4, <1>5, <1>6 DEF BetweenEntries

LEMMA FailedFields ==
  ASSUME NEW p \in Pass, NEW n \in Speakers, p.left[n] # None
  PROVE  BetweenEntries(p, Failed(p, n), n)
<1>1. CASE p.left[n].attempts + 1 >= MaxAttempts
  BY <1>1, FinishedFields DEF Failed
<1>2. CASE ~(p.left[n].attempts + 1 >= MaxAttempts)
  <2> DEFINE a == Skipped(p)
             e == [p.left[n] EXCEPT !.attempts = @ + 1]
             left == [p.left EXCEPT ![n] = e]
             q == [a EXCEPT !.left = left]
  <2>1. a \in Pass /\ a.stage = "next" /\ a.todo = p.todo /\ a.left = p.left
    BY SkippedFields
  <2>2. e \in Entry
    <3>1. p.left[n] \in Entry
      BY PassFields
    <3> QED
      BY <1>2, <3>1, RebuildAssumption DEF Entry
  <2>0. Failed(p, n) = q
    <3>1. Failed(p, n) = [a EXCEPT !.left[n].attempts = @ + 1]
      BY <1>2 DEF Failed
    <3> HIDE DEF a
    <3> QED
      BY <2>1, <3>1
  <2> HIDE DEF a, e
  <2>3. left \in [Speakers -> Entry \cup {None}] /\ \A m \in Speakers \ {n} : left[m] = p.left[m]
    BY <2>2, PassFields
  <2> HIDE DEF left
  <2>4. /\ q = [todo |-> q.todo, left |-> q.left, marks |-> q.marks, name |-> q.name,
                pending |-> q.pending, clips |-> q.clips, stage |-> q.stage]
        /\ q.stage = a.stage /\ q.todo = a.todo /\ q.left = left /\ q.name = a.name
        /\ q.marks = a.marks /\ q.pending = a.pending /\ q.clips = a.clips
    BY <2>1, PassFields
  <2> HIDE DEF q
  <2>5. q \in Pass
    BY <2>1, <2>3, <2>4, PassFields, PassOf
  <2> QED
    BY <2>0, <2>1, <2>3, <2>4, <2>5 DEF BetweenEntries
<1> QED
  BY <1>1, <1>2

(* The entry a pass opens is no longer among those to try. *)
TakenUp(p, n, b) ==
    [p EXCEPT !.todo = @ \ {n}, !.name = n, !.pending = b, !.stage = "list"]

LEMMA TakenFields ==
  ASSUME NEW p \in Pass, NEW n \in Speakers, NEW b \in BOOLEAN
  PROVE  LET q == TakenUp(p, n, b) IN
         /\ q \in Pass /\ q.todo = p.todo \ {n} /\ q.name = n /\ q.left = p.left
         /\ q.stage = "list"
<1> DEFINE todo == p.todo \ {n}
           a == [p EXCEPT !.todo = todo]
           c == [a EXCEPT !.name = n]
           d == [c EXCEPT !.pending = b]
           q == [d EXCEPT !.stage = "list"]
<1>0. TakenUp(p, n, b) = q
  BY DEF TakenUp
<1>1. todo \subseteq Speakers
  BY PassFields
<1> HIDE DEF todo
<1>2. /\ a = [todo |-> a.todo, left |-> a.left, marks |-> a.marks, name |-> a.name,
              pending |-> a.pending, clips |-> a.clips, stage |-> a.stage]
      /\ a.stage = p.stage /\ a.todo = todo /\ a.left = p.left
      /\ a.marks = p.marks /\ a.pending = p.pending /\ a.clips = p.clips
  BY PassFields
<1> HIDE DEF a
<1>3. /\ c = [todo |-> c.todo, left |-> c.left, marks |-> c.marks, name |-> c.name,
              pending |-> c.pending, clips |-> c.clips, stage |-> c.stage]
      /\ c.stage = a.stage /\ c.todo = a.todo /\ c.left = a.left /\ c.name = n
      /\ c.marks = a.marks /\ c.pending = a.pending /\ c.clips = a.clips
  BY <1>2
<1> HIDE DEF c
<1>4. /\ d = [todo |-> d.todo, left |-> d.left, marks |-> d.marks, name |-> d.name,
              pending |-> d.pending, clips |-> d.clips, stage |-> d.stage]
      /\ d.stage = c.stage /\ d.todo = c.todo /\ d.left = c.left /\ d.name = c.name
      /\ d.marks = c.marks /\ d.pending = b /\ d.clips = c.clips
  BY <1>3
<1> HIDE DEF d
<1>5. d \in Pass
  BY <1>1, <1>2, <1>3, <1>4, PassFields, PassOf
<1>6. q \in Pass /\ q.stage = "list" /\ q.todo = d.todo /\ q.left = d.left /\ q.name = d.name
  BY <1>5, StageSet DEF PassStages
<1> HIDE DEF q
<1> QED
  BY <1>0, <1>2, <1>3, <1>4, <1>6 DEF todo


----------------------------------------------------------------------------
(* Starting the server *)

LEMMA EnqueuedFields ==
  ASSUME RebuildTypeOK, NEW missing
  PROVE  Enqueued(lib, missing) \in [Speakers -> Entry \cup {None}]
<1> SUFFICES ASSUME NEW n \in Speakers
             PROVE  Enqueued(lib, missing)[n] \in Entry \cup {None}
  BY DEF Enqueued
<1> DEFINE reasons == Reasons(lib, n, missing)
<1>1. entries \in [Speakers -> Entry \cup {None}] /\ MaxAttempts \in Nat \ {0}
  BY RebuildAssumption DEF RebuildTypeOK
<1>2. reasons \subseteq Findings
  BY DEF Reasons, Findings
<1> HIDE DEF reasons
<1>3. CASE ~Requeue(n, reasons)
  BY <1>1, <1>3 DEF Enqueued, reasons
<1>4. CASE Requeue(n, reasons) /\ entries[n] = None
  <2>1. reasons # {}
    BY <1>4 DEF Requeue
  <2>2. [reasons |-> reasons, attempts |-> 0] \in Entry
    BY <1>1, <1>2, <2>1 DEF Entry
  <2> QED
    BY <1>4, <2>2 DEF Enqueued, reasons
<1>5. CASE Requeue(n, reasons) /\ entries[n] # None
  <2>1. entries[n] \in Entry
    BY <1>1, <1>5
  <2>2. [entries[n] EXCEPT !.reasons = @ \cup reasons] \in Entry
    BY <1>1, <1>2, <2>1 DEF Entry
  <2> QED
    BY <1>5, <2>2 DEF Enqueued, reasons
<1> QED
  BY <1>3, <1>4, <1>5

LEMMA StartsKeep ==
  ASSUME RebuildInv, Restart \/ Crash
  PROVE  RebuildInv'
<1>1. Boot
  BY DEF Restart, Crash
<1>2. bounds' \in [acts : 0 .. Acts, crashes : 0 .. Crashes]
  BY RebuildAssumption DEF Restart, Crash, RebuildInv, RebuildTypeOK
<1>3. /\ session' = FALSE /\ monitor' \in BOOLEAN /\ repair' = None /\ busy' = FALSE
      /\ lib' = lib /\ done' = done /\ listed' = {} /\ dead' = {} /\ moved' = {}
      /\ \E missing \in Listed(DeadRows(lib)) : entries' = Enqueued(lib, missing)
  BY <1>1, RebuildAssumption DEF Boot
<1>4. RebuildTypeOK /\ WellKept(lib)
  BY DEF RebuildInv
<1>5. entries' \in [Speakers -> Entry \cup {None}]
  BY <1>3, <1>4, EnqueuedFields
<1>6. RebuildTypeOK'
  BY <1>2, <1>3, <1>4, <1>5 DEF RebuildTypeOK
<1> QED
  BY <1>3, <1>4, <1>6 DEF RebuildInv, PassIsSound

----------------------------------------------------------------------------
(* The steps of a pass *)

(* What is left to show of a step *)
Kept ==
    /\ WellKept(lib') /\ PassIsSound'
    /\ repair' = None \/ repair' \in Pass
    /\ session' \in BOOLEAN
    /\ listed' \subseteq [id : Nat, path : Path]
    /\ dead' \subseteq Nat /\ moved' \subseteq Nat

LEMMA PassStepKeeps ==
  ASSUME RebuildInv, Kept, UNCHANGED <<queueVars, busy, bounds>>
  PROVE  RebuildInv'
BY DEF RebuildInv, RebuildTypeOK, WellKept, Kept, queueVars

LEMMA PassAtWork ==
  ASSUME RebuildInv
  PROVE  /\ WellKept(lib) /\ IsStore(lib) /\ PassIsSound /\ session \in BOOLEAN
         /\ listed \subseteq [id : Nat, path : Path] /\ dead \subseteq Nat /\ moved \subseteq Nat
         /\ \A stage : Repairing(stage) =>
               /\ repair # None /\ repair \in Pass /\ repair.stage = stage
               /\ \A n \in repair.todo : repair.left[n] # None
         /\ \A stage : Repairing(stage) /\ stage \notin {"load", "next"} =>
               repair.name \in Speakers \ repair.todo /\ repair.left[repair.name] # None
BY DEF RebuildInv, RebuildTypeOK, WellKept, PassIsSound, Repairing

(* An entry that is dealt with is not one of those still to try. *)
LEMMA NextEntrySound ==
  ASSUME NEW p \in Pass, NEW n \in Speakers \ p.todo, BetweenEntries(p, repair', n),
         \A m \in p.todo : p.left[m] # None
  PROVE  PassIsSound' /\ repair' \in Pass
BY PassFields DEF PassIsSound, BetweenEntries

LEMMA StageKeeps ==
  ASSUME NEW p \in Pass, NEW stage \in PassStages,
         repair' = [p EXCEPT !.stage = stage],
         \A n \in p.todo : p.left[n] # None,
         stage \notin {"load", "next"} =>
            p.name \in Speakers \ p.todo /\ p.left[p.name] # None
  PROVE  PassIsSound' /\ repair' \in Pass
<1>1. /\ repair' \in Pass /\ repair'.todo = p.todo /\ repair'.left = p.left
      /\ repair'.name = p.name /\ repair'.stage = stage
  BY StageSet
<1> QED
  BY <1>1 DEF PassIsSound

LEMMA BeginPassKeeps ==
  ASSUME RebuildInv, BeginPass
  PROVE  RebuildInv'
<1> DEFINE todo == {n \in Speakers : entries[n] # None}
           new == [todo |-> todo, left |-> entries, marks |-> <<>>, name |-> None,
                   pending |-> FALSE, clips |-> {}, stage |-> "load"]
<1>1. /\ repair' = new
      /\ UNCHANGED <<lib, session, queueVars, listed, dead, moved, busy, bounds>>
  BY DEF BeginPass, purgeVars
<1>2. /\ WellKept(lib) /\ session \in BOOLEAN /\ entries \in [Speakers -> Entry \cup {None}]
      /\ listed \subseteq [id : Nat, path : Path] /\ dead \subseteq Nat /\ moved \subseteq Nat
  BY DEF RebuildInv, RebuildTypeOK
<1>3. new.todo = todo /\ new.left = entries /\ new.stage = "load"
  OBVIOUS
<1>4. <<>> \in Seq(Fingerprint)
  OBVIOUS
<1>5. new \in Pass
  BY <1>2, <1>4 DEF Pass
<1> HIDE DEF new
<1>6. PassIsSound'
  BY <1>1, <1>3 DEF PassIsSound
<1>7. Kept
  BY <1>1, <1>2, <1>5, <1>6 DEF Kept
<1> QED
  BY <1>1, <1>7, PassStepKeeps

(* Between two entries *)
LEMMA EntryStepsKeep ==
  ASSUME RebuildInv, LoadModels \/ \E n \in Speakers : OpenEntry(n)
  PROVE  Kept /\ lib' = lib
<1>1. ASSUME LoadModels
      PROVE  Kept /\ lib' = lib
  <2>1. /\ Repairing("load") /\ repair' = [repair EXCEPT !.stage = "next"]
        /\ session' = TRUE /\ lib' = lib /\ UNCHANGED <<listed, dead, moved>>
    BY <1>1 DEF LoadModels, Step, purgeVars
  <2>2. PassIsSound' /\ repair' \in Pass
    BY <2>1, PassAtWork, StageKeeps DEF PassStages
  <2> QED
    BY <2>1, <2>2, PassAtWork DEF Kept
<1>2. ASSUME NEW n \in Speakers, OpenEntry(n)
      PROVE  Kept /\ lib' = lib
  <2> DEFINE waits == Known(lib, n) /\ lib.profile[n].pending
  <2>1. /\ Repairing("next") /\ n \in repair.todo /\ repair' = TakenUp(repair, n, waits)
        /\ session' = session /\ lib' = lib /\ UNCHANGED <<listed, dead, moved>>
    BY <1>2 DEF OpenEntry, Step, purgeVars, TakenUp
  <2>2. Known(lib, n) => lib.profile[n].pending \in BOOLEAN
    BY PassAtWork, StoreFields DEF Known, Profile
  <2>3. waits \in BOOLEAN
    BY <2>2
  <2> HIDE DEF waits
  <2>4. repair \in Pass /\ \A m \in repair.todo : repair.left[m] # None
    BY <2>1, PassAtWork
  <2>5. /\ repair' \in Pass /\ repair'.todo = repair.todo \ {n} /\ repair'.name = n
        /\ repair'.left = repair.left /\ repair'.stage = "list"
    BY <2>1, <2>3, <2>4, TakenFields
  <2>6. PassIsSound'
    BY <2>1, <2>4, <2>5 DEF PassIsSound
  <2> QED
    BY <2>1, <2>5, <2>6, PassAtWork DEF Kept
<1> QED
  BY <1>1, <1>2

(* The purge: the rows are listed and looked for, and lose nothing but rows. *)
LEMMA PurgeStepsKeep ==
  ASSUME RebuildInv,
         ListToPurge \/ Looked \/ CountRows \/ \E l \in listed : LookFor(l)
  PROVE  Kept /\ lib' = lib
<1>1. ASSUME ListToPurge
      PROVE  Kept /\ lib' = lib
  <2> DEFINE rows == {[id |-> r.id, path |-> r.path] : r \in RowsOf(lib, repair.name)}
  <2>1. /\ Repairing("list") /\ repair' = [repair EXCEPT !.stage = "look"]
        /\ lib' = lib /\ session' = session /\ listed' = rows /\ dead' = {} /\ moved' = {}
    BY <1>1 DEF ListToPurge, Step
  <2>2. PassIsSound' /\ repair' \in Pass
    BY <2>1, PassAtWork, StageKeeps DEF PassStages
  <2>3. rows \subseteq [id : Nat, path : Path]
    BY PassAtWork, StoreFields, SnippetFields DEF RowsOf
  <2> QED
    BY <2>1, <2>2, <2>3, PassAtWork DEF Kept
<1>2. ASSUME NEW l \in listed, LookFor(l)
      PROVE  Kept /\ lib' = lib
  <2>1. /\ repair' = repair /\ lib' = lib /\ session' = session /\ moved' = moved
        /\ listed' \subseteq listed /\ dead' \subseteq dead \cup {l.id}
    BY <1>2 DEF LookFor
  <2>2. Repairing("look")
    BY <1>2 DEF LookFor, Step
  <2>3. l.id \in Nat
    BY PassAtWork
  <2>4. PassIsSound' /\ repair' \in Pass
    BY <2>1, <2>2, PassAtWork DEF PassIsSound
  <2> QED
    BY <2>1, <2>3, <2>4, PassAtWork DEF Kept
<1>3. ASSUME Looked
      PROVE  Kept /\ lib' = lib
  <2>1. /\ Repairing("look") /\ repair' = [repair EXCEPT !.stage = "purge"]
        /\ lib' = lib /\ session' = session /\ listed' = listed /\ moved' = moved
        /\ dead' \subseteq dead
    BY <1>3 DEF Looked, Step, UpTo
  <2>2. PassIsSound' /\ repair' \in Pass
    BY <2>1, PassAtWork, StageKeeps DEF PassStages
  <2> QED
    BY <2>1, <2>2, PassAtWork DEF Kept
<1>4. ASSUME CountRows
      PROVE  Kept /\ lib' = lib
  <2> DEFINE stage == IF RowsOf(lib, repair.name) = {} THEN "drop" ELSE "clear"
  <2>1. /\ Repairing("purge") /\ repair' = [repair EXCEPT !.stage = stage]
        /\ lib' = lib /\ session' = session /\ listed' = listed /\ dead' = dead /\ moved' = {}
    BY <1>4 DEF CountRows, Step
  <2>2. stage \in PassStages
    BY DEF PassStages
  <2> HIDE DEF stage
  <2>3. PassIsSound' /\ repair' \in Pass
    BY <2>1, <2>2, PassAtWork, StageKeeps
  <2> QED
    BY <2>1, <2>3, PassAtWork DEF Kept
<1> QED
  BY <1>1, <1>2, <1>3, <1>4

LEMMA PurgeRowKeeps ==
  ASSUME RebuildInv, NEW i \in dead, PurgeRow(i)
  PROVE  /\ Kept /\ Remains(lib, lib') /\ lib'.disk = lib.disk /\ lib'.profile = lib.profile
         /\ lib'.rows = {r \in lib.rows : r.id # i}
         /\ UNCHANGED <<listed, moved>> /\ dead' = dead \ {i}
<1>1. /\ Repairing("purge") /\ lib' = DeleteRow(lib, i) /\ dead' = dead \ {i}
      /\ session' = session /\ repair' = repair /\ UNCHANGED <<listed, moved>>
  BY DEF PurgeRow, Step
<1>2. /\ Remains(lib, lib') /\ lib'.disk = lib.disk /\ lib'.profile = lib.profile
      /\ lib'.rows = {r \in lib.rows : r.id # i}
  BY <1>1, PassAtWork, DeleteRowRemains
<1>3. Evolves(lib, lib', {})
  BY <1>2, PassAtWork, RemainsEvolves DEF Dead
<1>4. PassIsSound' /\ repair' \in Pass
  BY <1>1, PassAtWork DEF PassIsSound
<1>5. Kept
  BY <1>1, <1>3, <1>4, PassAtWork DEF Kept, Evolves
<1> QED
  BY <1>1, <1>2, <1>5

LEMMA ShelfIsKept ==
  ASSUME NEW st, NEW new, WellKept(st), SameShelf(st, new)
  PROVE  WellKept(new)
BY ShelfEvolves DEF Evolves

(* A profile that is saved or flagged is there. *)
LEMMA SavedIsKnown ==
  ASSUME NEW st, IsStore(st), NEW n \in Speakers, NEW clips \in SUBSET Clip
  PROVE  Known(Save(st, n, clips), n)
<1>1. Save(st, n, clips).profile[n] =
         [pending |-> Known(st, n) /\ st.profile[n].pending, fitted |-> clips]
  BY StoreFields DEF Save
<1>2. Known(st, n) => st.profile[n].pending \in BOOLEAN
  BY StoreFields DEF Known, Profile
<1>3. Save(st, n, clips).profile[n] \in Profile
  BY <1>1, <1>2 DEF Profile
<1> QED
  BY <1>3, StoreAssumption DEF Known

LEMMA FlaggedStays ==
  ASSUME NEW st, IsStore(st), NEW n \in Speakers, Known(st, n), NEW flag \in BOOLEAN
  PROVE  Known(SetPending(st, n, flag), n)
<1>1. st.profile[n] \in Profile
  BY StoreFields DEF Known
<1>2. SetPending(st, n, flag).profile[n] = [st.profile[n] EXCEPT !.pending = flag]
  BY StoreFields DEF SetPending
<1>3. SetPending(st, n, flag).profile[n] \in Profile
  BY <1>1, <1>2 DEF Profile
<1> QED
  BY <1>3, StoreAssumption DEF Known

(* The rebuild: of the store, only the profile of the speaker at hand *)
LEMMA RebuildStepsKeep ==
  ASSUME RebuildInv,
         DropProfile \/ SkipEntry \/ ClearProfile \/ ReadAudio \/ SaveRebuilt
           \/ CheckRebuilt \/ FlagRebuilt
  PROVE  /\ Kept /\ SameShelf(lib, lib') /\ UNCHANGED <<listed, dead, moved>>
         /\ \A m \in Speakers : Known(lib, m) /\ ~Known(lib', m) => m = repair.name
         /\ repair # None /\ ~Repairing("look") /\ ~Repairing("purge")
<1> DEFINE n == repair.name
           Fits == /\ SameShelf(lib, lib')
                   /\ \A m \in Speakers : Known(lib, m) /\ ~Known(lib', m) => m = repair.name
           Goes == PassIsSound' /\ repair' \in Pass
<1>1. /\ session' = session /\ UNCHANGED <<listed, dead, moved>>
      /\ \E stage \in {"drop", "clear", "refine", "save", "check", "flag"} : Repairing(stage)
  BY DEF DropProfile, SkipEntry, ClearProfile, ReadAudio, SaveRebuilt, CheckRebuilt,
         FlagRebuilt, Step, purgeVars
<1>2. /\ WellKept(lib) /\ IsStore(lib) /\ session \in BOOLEAN
      /\ repair # None /\ repair \in Pass /\ ~Repairing("look") /\ ~Repairing("purge")
      /\ \A m \in repair.todo : repair.left[m] # None
      /\ n \in Speakers \ repair.todo /\ n \in Speakers /\ repair.left[n] # None
  BY <1>1, PassAtWork DEF Repairing
<1>3. SameShelf(lib, lib)
  BY <1>2 DEF SameShelf
<1>4. lib' = lib => Fits
  BY <1>3
<1>5. ASSUME lib' = DeleteProfile(lib, n)
      PROVE  Fits
  <2>1. /\ SameShelf(lib, lib')
        /\ \A m \in Speakers \ {n} : lib'.profile[m] = lib.profile[m]
    BY <1>2, <1>5, DeleteProfileShelf
  <2> QED
    BY <2>1 DEF Known
<1>6. ASSUME NEW clips \in SUBSET Clip, lib' = Save(lib, n, clips)
      PROVE  Fits
  BY <1>2, <1>6, SaveShelf, SavedIsKnown DEF Known
<1>7. ASSUME lib' = SetPending(lib, n, TRUE)
      PROVE  Fits
  <2>1. /\ SameShelf(lib, lib')
        /\ \A m \in Speakers \ {n} : lib'.profile[m] = lib.profile[m]
    BY <1>2, <1>7, SetPendingShelf
  <2>2. Known(lib, n) => Known(lib', n)
    BY <1>2, <1>7, FlaggedStays
  <2> QED
    BY <2>1, <2>2 DEF Known
<1> HIDE DEF n
<1>8. ASSUME NEW stage \in PassStages, repair' = [repair EXCEPT !.stage = stage]
      PROVE  Goes
  BY <1>2, <1>8, StageKeeps DEF n
<1>9. repair' = Finished(repair, n) \/ repair' = Failed(repair, n) => Goes
  BY <1>2, FinishedFields, FailedFields, NextEntrySound
<1>10. repair' = Skipped(repair) => Goes
  <2>1. BetweenEntries(repair, Skipped(repair), n)
    BY <1>2, SkippedFields DEF BetweenEntries
  <2> QED
    BY <1>2, <2>1, NextEntrySound
<1> HIDE DEF Fits, Goes
<1>11. DropProfile => Fits /\ Goes
  BY <1>5, <1>9 DEF DropProfile, n
<1>12. SkipEntry => Fits /\ Goes
  BY <1>4, <1>10 DEF SkipEntry
<1>13. ClearProfile => Fits /\ Goes
  BY <1>5, <1>8 DEF ClearProfile, n, PassStages
<1>14. ASSUME ReadAudio
       PROVE  Fits /\ Goes
  <2> DEFINE clips == Readable(lib, n)
             p == [repair EXCEPT !.clips = clips]
  <2>1. /\ lib' = lib
        /\ \/ repair' = [p EXCEPT !.stage = "save"]
           \/ repair' = [repair EXCEPT !.stage = "check"]
    BY <1>14 DEF ReadAudio, n
  <2>2. clips \subseteq Clip
    BY <1>2, ReadableClips
  <2> HIDE DEF clips
  <2>3. /\ p = [todo |-> p.todo, left |-> p.left, marks |-> p.marks, name |-> p.name,
                pending |-> p.pending, clips |-> p.clips, stage |-> p.stage]
        /\ p.stage = repair.stage /\ p.todo = repair.todo /\ p.left = repair.left
        /\ p.name = repair.name /\ p.marks = repair.marks /\ p.pending = repair.pending
        /\ p.clips = clips
    BY <1>2, PassFields
  <2> HIDE DEF p
  <2>4. p \in Pass
    BY <1>2, <2>2, <2>3, PassFields, PassOf
  <2>5. repair' = [p EXCEPT !.stage = "save"] => Goes
    BY <1>2, <2>3, <2>4, StageKeeps DEF PassStages, Goes, n
  <2>6. repair' = [repair EXCEPT !.stage = "check"] => Goes
    BY <1>8 DEF PassStages
  <2> QED
    BY <1>4, <2>1, <2>5, <2>6
<1>15. ASSUME SaveRebuilt
       PROVE  Fits /\ Goes
  <2>1. /\ repair' = [repair EXCEPT !.stage = "check"]
        /\ lib' = lib \/ lib' = Save(lib, n, repair.clips)
    BY <1>15 DEF SaveRebuilt, n
  <2>2. repair.clips \in SUBSET Clip
    BY <1>2, PassFields
  <2> QED
    BY <1>4, <1>6, <1>8, <2>1, <2>2 DEF PassStages
<1>16. CheckRebuilt => Fits /\ Goes
  BY <1>4, <1>8, <1>9 DEF CheckRebuilt, n, PassStages
<1>17. FlagRebuilt => Fits /\ Goes
  BY <1>7, <1>9 DEF FlagRebuilt, n
<1>18. Fits /\ Goes
  BY <1>11, <1>12, <1>13, <1>14, <1>15, <1>16, <1>17
<1>19. WellKept(lib')
  BY <1>2, <1>18, ShelfIsKept DEF Fits
<1> QED
  BY <1>1, <1>2, <1>18, <1>19, PassAtWork DEF Kept, Fits, Goes

LEMMA EndPassKeeps ==
  ASSUME RebuildInv, EndPass
  PROVE  RebuildInv'
<1> DEFINE long == done \o repair.marks
<1>1. /\ Repairing("next") /\ entries' = repair.left /\ done' = Pruned(long)
      /\ repair' = None /\ UNCHANGED <<lib, session, monitor, listed, dead, moved, busy, bounds>>
  BY DEF EndPass, purgeVars
<1>2. RebuildTypeOK /\ WellKept(lib) /\ MaxDone \in Nat
  BY RebuildAssumption DEF RebuildInv
<1>3. /\ repair.left \in [Speakers -> Entry \cup {None}] /\ repair.marks \in Seq(Fingerprint)
      /\ done \in Seq(Fingerprint)
  BY <1>1, <1>2, PassAtWork, PassFields DEF RebuildTypeOK
<1>4. long \in Seq(Fingerprint)
  BY <1>3, ConcatProperties
<1> HIDE DEF long
<1>5. Pruned(long) \in Seq(Fingerprint)
  <2> DEFINE first == IF Len(long) > MaxDone THEN Len(long) - MaxDone + 1 ELSE 1
             last == Len(long)
  <2>1. first \in Int /\ last \in Int /\ 1 <= first
    BY <1>2, <1>4
  <2>2. \A i \in first .. last : long[i] \in Fingerprint
    BY <1>4, <2>1
  <2> HIDE DEF first
  <2>3. SubSeq(long, first, last) \in Seq(Fingerprint)
    BY <2>1, <2>2, SubSeqProperties
  <2> QED
    BY <2>3 DEF Pruned, first
<1>6. RebuildTypeOK'
  BY <1>1, <1>2, <1>3, <1>5 DEF RebuildTypeOK
<1> QED
  BY <1>1, <1>2, <1>6 DEF RebuildInv, PassIsSound

LEMMA PassKeeps ==
  ASSUME RebuildInv, PassStep
  PROVE  RebuildInv'
<1>1. CASE EndPass
  BY <1>1, EndPassKeeps
<1>2. CASE ~EndPass
  <2>1. UNCHANGED <<queueVars, busy, bounds>>
    BY <1>2 DEF PassStep, LoadModels, OpenEntry, ListToPurge, Looked, CountRows, LookFor,
                PurgeRow, DropProfile, SkipEntry, ClearProfile, ReadAudio, SaveRebuilt,
                CheckRebuilt, FlagRebuilt, Step
  <2>2. Kept
    BY <1>2, EntryStepsKeep, PurgeStepsKeep, PurgeRowKeeps, RebuildStepsKeep DEF PassStep
  <2> QED
    BY <2>1, <2>2, PassStepKeeps
<1> QED
  BY <1>1, <1>2

----------------------------------------------------------------------------
(* Meanwhile *)

LEMMA FewerActs ==
  ASSUME RebuildInv, bounds.acts > 0, bounds' = [bounds EXCEPT !.acts = @ - 1]
  PROVE  bounds' \in [acts : 0 .. Acts, crashes : 0 .. Crashes]
BY RebuildAssumption DEF RebuildInv, RebuildTypeOK

LEMMA ActKeeps ==
  ASSUME RebuildInv, NEW st, WellKept(st), NEW s \in BOOLEAN, Act(st, s)
  PROVE  RebuildInv'
<1>1. /\ bounds' \in [acts : 0 .. Acts, crashes : 0 .. Crashes]
      /\ lib' = st /\ session' = s /\ moved' = moved \cup Removed(st)
      /\ UNCHANGED <<queueVars, repair, listed, dead, busy>>
  BY FewerActs DEF Act
<1>2. RebuildTypeOK /\ PassIsSound
  BY DEF RebuildInv
<1>3. Removed(st) \subseteq Nat
  <2>1. Ids(listed) \cup dead \subseteq Nat
    BY PassAtWork DEF Ids
  <2> QED
    BY <2>1 DEF Removed
<1>4. RebuildTypeOK'
  BY <1>1, <1>2, <1>3 DEF RebuildTypeOK, WellKept, queueVars
<1> QED
  BY <1>1, <1>2, <1>4 DEF RebuildInv, PassIsSound

LEMMA OthersKeep ==
  ASSUME RebuildInv, LoadFails \/ JobStarts \/ JobEnds
  PROVE  RebuildInv'
<1>1. /\ bounds' = bounds \/ bounds' \in [acts : 0 .. Acts, crashes : 0 .. Crashes]
      /\ repair' = repair \/ repair' = None
      /\ busy' \in BOOLEAN
      /\ UNCHANGED <<lib, session, queueVars, listed, dead, moved>>
  BY FewerActs DEF LoadFails, JobStarts, JobEnds, purgeVars, RebuildInv, RebuildTypeOK
<1>2. RebuildTypeOK /\ PassIsSound /\ WellKept(lib)
  BY DEF RebuildInv
<1>3. RebuildTypeOK'
  BY <1>1, <1>2 DEF RebuildTypeOK, queueVars
<1> QED
  BY <1>1, <1>2, <1>3 DEF RebuildInv, PassIsSound

(* What requests and the world make of a library is a library, and tells   *)
(* its rows by their ids from those they made.                              *)
LEMMA AskedEvolves ==
  ASSUME RebuildInv, Asked
  PROVE  \E st, noted : \E s \in BOOLEAN : Evolves(lib, st, noted) /\ Act(st, s)
<1>1. WellKept(lib) /\ IsStore(lib) /\ session \in BOOLEAN
  BY PassAtWork
<1>2. ASSUME NEW n \in Speakers, NEW rec \in Recordings, NEW s \in Spans,
             NEW replace \in BOOLEAN, Act(AddSnippet(lib, n, rec, s, replace), TRUE)
      PROVE  \E st, noted : \E e \in BOOLEAN : Evolves(lib, st, noted) /\ Act(st, e)
  <2>1. Evolves(lib, AddSnippet(lib, n, rec, s, replace), Shared(lib))
    BY <1>1, AddSnippetKeeps
  <2> QED
    BY <1>2, <2>1
<1>3. ASSUME NEW n \in Speakers, Act(DeleteSpeaker(lib, n), session)
      PROVE  \E st, noted : \E e \in BOOLEAN : Evolves(lib, st, noted) /\ Act(st, e)
  <2>1. Evolves(lib, DeleteSpeaker(lib, n), Shared(lib))
    BY <1>1, DeleteSpeakerKeeps
  <2> QED
    BY <1>1, <1>3, <2>1
<1>4. ASSUME NEW n \in Speakers, Act(AutoRefine(lib, n, TRUE), TRUE)
      PROVE  \E st, noted : \E e \in BOOLEAN : Evolves(lib, st, noted) /\ Act(st, e)
  <2>1. Evolves(lib, AutoRefine(lib, n, TRUE), {})
    BY <1>1, AutoRefineShelf, ShelfEvolves
  <2> QED
    BY <1>4, <2>1
<1>5. ASSUME NEW r \in lib.rows, Act(DeleteSnippet(lib, r, session), session)
      PROVE  \E st, noted : \E e \in BOOLEAN : Evolves(lib, st, noted) /\ Act(st, e)
  <2>1. Evolves(lib, DeleteSnippet(lib, r, session), Shared(lib))
    BY <1>1, DeleteSnippetKeeps
  <2> QED
    BY <1>1, <1>5, <2>1
<1>6. ASSUME NEW copies \in MayTake(Duplicates(lib)), NEW missing \in MayTake(DeadRows(lib)), NEW trim \in BOOLEAN,
             Act(CleanupIntegrity(lib, copies, missing, trim, TRUE), TRUE)
      PROVE  \E st, noted : \E e \in BOOLEAN : Evolves(lib, st, noted) /\ Act(st, e)
  <2>1. copies \in SUBSET lib.rows /\ missing \in SUBSET lib.rows
    BY ListedRows
  <2>2. Evolves(lib, CleanupIntegrity(lib, copies, missing, trim, TRUE), Shared(lib))
    BY <1>1, <2>1, CleanupKeeps
  <2> QED
    BY <1>6, <2>2
<1>7. ASSUME NEW changed \in Rewritten(lib), Act(Rescan(lib, changed, TRUE), TRUE)
      PROVE  \E st, noted : \E e \in BOOLEAN : Evolves(lib, st, noted) /\ Act(st, e)
  <2>1. Evolves(lib, Rescan(lib, changed, TRUE), {})
    BY <1>1, RescanKeeps
  <2> QED
    BY <1>7, <2>1
<1> QED
  BY <1>2, <1>3, <1>4, <1>5, <1>6, <1>7 DEF Asked

LEMMA RenamingEvolves ==
  ASSUME RebuildInv, Renaming
  PROVE  \E st, noted : \E s \in BOOLEAN : Evolves(lib, st, noted) /\ Act(st, s)
<1>1. WellKept(lib) /\ IsStore(lib)
  BY PassAtWork
<1> SUFFICES ASSUME NEW a \in Speakers, NEW b \in Speakers,
                    \/ Exists(lib, a) /\ ~Exists(lib, b) /\ Act(RenameSpeaker(lib, a, b), TRUE)
                    \/ Act(MergeSpeakers(lib, a, b, TRUE), TRUE)
                    \/ /\ a = b \/ ~Exists(lib, b)
                       /\ Act(ConfirmPending(lib, a, b, TRUE), TRUE)
             PROVE  \E st, noted : \E s \in BOOLEAN : Evolves(lib, st, noted) /\ Act(st, s)
  BY DEF Renaming
<1>2. ASSUME Exists(lib, a), ~Exists(lib, b), Act(RenameSpeaker(lib, a, b), TRUE)
      PROVE  \E st, noted : \E s \in BOOLEAN : Evolves(lib, st, noted) /\ Act(st, s)
  <2>1. Evolves(lib, RenameSpeaker(lib, a, b), {})
    BY <1>1, <1>2, RenameSpeakerKeeps
  <2> QED
    BY <1>2, <2>1
<1>3. ASSUME Act(MergeSpeakers(lib, a, b, TRUE), TRUE)
      PROVE  \E st, noted : \E s \in BOOLEAN : Evolves(lib, st, noted) /\ Act(st, s)
  <2>1. Evolves(lib, MergeSpeakers(lib, a, b, TRUE), Shared(lib))
    BY <1>1, MergeKeeps
  <2> QED
    BY <1>3, <2>1
<1>4. ASSUME a = b \/ ~Exists(lib, b), Act(ConfirmPending(lib, a, b, TRUE), TRUE)
      PROVE  \E st, noted : \E s \in BOOLEAN : Evolves(lib, st, noted) /\ Act(st, s)
  <2> DEFINE noted == Ids(RowsOf(ConfirmPending(lib, a, b, TRUE), b))
  <2>1. noted \subseteq noted
    OBVIOUS
  <2>2. Evolves(lib, ConfirmPending(lib, a, b, TRUE), noted)
    BY <1>1, <1>4, <2>1, ConfirmKeeps
  <2> QED
    BY <1>4, <2>2
<1> QED
  BY <1>2, <1>3, <1>4

LEMMA TroubleEvolves ==
  ASSUME RebuildInv, Trouble
  PROVE  \E st, noted : \E s \in BOOLEAN : Evolves(lib, st, noted) /\ Act(st, s)
<1>1. WellKept(lib) /\ IsStore(lib) /\ session \in BOOLEAN
  BY PassAtWork
<1>2. ASSUME NEW p, NEW st, st = [lib EXCEPT !.disk = Unlink(@, {p})], Act(st, session)
      PROVE  \E noted : \E s \in BOOLEAN : Evolves(lib, st, noted) /\ Act(st, s)
  <2> DEFINE noted == Ids(st.rows)
  <2>1. Remains(lib, st)
    BY <1>1, <1>2, VanishRemains
  <2>2. \A r \in st.rows : r.id \in noted
    BY DEF Ids
  <2> HIDE DEF noted
  <2>3. Evolves(lib, st, noted)
    BY <1>1, <2>1, <2>2, RemainsEvolves
  <2> QED
    BY <1>1, <1>2, <2>3
<1>3. SameShelf(lib, lib)
  BY <1>1 DEF SameShelf
<1>4. Evolves(lib, lib, {})
  BY <1>1, <1>3, ShelfEvolves
<1> QED
  BY <1>2, <1>4 DEF Trouble

LEMMA RebuildStep ==
  ASSUME RebuildInv, [RebuildNext]_rebuildVars
  PROVE  RebuildInv'
<1>1. CASE Restart \/ Crash \/ BeginPass \/ PassStep
  BY <1>1, StartsKeep, BeginPassKeeps, PassKeeps
<1>2. CASE LoadFails \/ JobStarts \/ JobEnds
  BY <1>2, OthersKeep
<1>3. CASE Asked \/ Renaming \/ Trouble
  <2>1. \E st, noted : \E s \in BOOLEAN : Evolves(lib, st, noted) /\ Act(st, s)
    BY <1>3, AskedEvolves, RenamingEvolves, TroubleEvolves
  <2> QED
    BY <2>1, ActKeeps DEF Evolves
<1>4. CASE UNCHANGED rebuildVars
  BY <1>4 DEF rebuildVars, queueVars, purgeVars, RebuildInv, RebuildTypeOK, PassIsSound
<1> QED
  BY <1>1, <1>2, <1>3, <1>4 DEF RebuildNext

LEMMA RebuildStart ==
  ASSUME RebuildInit
  PROVE  RebuildInv
<1>1. /\ lib = Stock /\ session = FALSE /\ entries = NoEntries /\ done = <<>>
      /\ monitor = Ttl /\ repair = None /\ busy = FALSE
      /\ listed = {} /\ dead = {} /\ moved = {}
      /\ bounds = [acts |-> Acts, crashes |-> Crashes]
  BY DEF RebuildInit
<1>2. WellKept(lib) /\ IsStore(lib)
  BY <1>1, RebuildAssumption DEF WellKept
<1>3. {session, monitor, busy} \subseteq BOOLEAN /\ Acts \in Nat /\ Crashes \in Nat
  BY <1>1, RebuildAssumption
<1>4. bounds \in [acts : 0 .. Acts, crashes : 0 .. Crashes]
  BY <1>1, <1>3
<1>5. entries \in [Speakers -> Entry \cup {None}] /\ done \in Seq(Fingerprint)
  BY <1>1 DEF NoEntries
<1>6. RebuildTypeOK
  BY <1>1, <1>2, <1>3, <1>4, <1>5 DEF RebuildTypeOK
<1> QED
  BY <1>1, <1>2, <1>6 DEF RebuildInv, PassIsSound

(* A pass works on entries that were queued, one at a time, over a store that *)
(* stays in order.                                                            *)
THEOREM RebuildInvariant == RebuildSpec => []RebuildInv
<1>1. RebuildInit => RebuildInv
  BY RebuildStart
<1>2. RebuildInv /\ [RebuildNext]_rebuildVars => RebuildInv'
  BY RebuildStep
<1> QED
  BY <1>1, <1>2, PTL DEF RebuildSpec

(* Whatever is done to the library during a repair, and wherever a process   *)
(* ends, the queue, the pass and the library are ones the code can have.     *)
THEOREM RebuildTypeCorrect == RebuildSpec => []RebuildTypeOK
<1>1. RebuildInv => RebuildTypeOK
  BY DEF RebuildInv
<1> QED
  BY <1>1, RebuildInvariant, PTL

----------------------------------------------------------------------------
(* Operations that leave the rows of a file alone, or take them all with it *)

LEMMA SameRowsClear ==
  ASSUME NEW st, NEW new, new.rows = st.rows, DOMAIN new.disk \subseteq DOMAIN st.disk
  PROVE  Clear(st, new)
BY DEF Clear, KeepsFile, Dead

LEMMA DropClear ==
  ASSUME NEW st, IsStore(st), NEW R
  PROVE  Clear(st, DropSnippets(st, R))
<1> DEFINE P == {r.path : r \in R}
           new == DropSnippets(st, R)
<1>1. new.rows = st.rows \ R /\ DOMAIN new.disk = DOMAIN st.disk \ P
  BY DropRemains
<1>2. \A r \in R : r.path \in P
  OBVIOUS
<1> HIDE DEF P, new
<1>3. ASSUME NEW x \in new.rows, ~Dead(new, x)
      PROVE  KeepsFile(st, new, x.path)
  <2>1. x.path \in DOMAIN st.disk /\ x.path \notin P
    BY <1>1, <1>3 DEF Dead
  <2>2. \A q \in st.rows : q.path = x.path => q \in new.rows
    BY <1>1, <1>2, <2>1
  <2> QED
    BY <2>1, <2>2 DEF KeepsFile
<1> QED
  BY <1>1, <1>3 DEF Clear, new

LEMMA AddSnippetClear ==
  ASSUME NEW st, WellKept(st), NEW n \in Speakers, NEW rec \in Recordings, NEW s \in Spans,
         NEW replace \in BOOLEAN
  PROVE  Clear(st, AddSnippet(st, n, rec, s, replace))
<1> DEFINE own == SourceRows(st, n, rec)
           base == IF replace THEN DropSnippets(st, own) ELSE st
           wrote == WriteAudio(base, n, rec, s)
           p == PathOf(n, rec, s)
           new == AddRow(wrote, n, p, rec, s)
<1>1. AddSnippet(st, n, rec, s, replace) = new
  BY DEF AddSnippet, WriteSnippet
<1>2. IsStore(st) /\ own \in SUBSET st.rows
  BY DEF WellKept, SourceRows, RowsOf
<1>3. WellKept(base) /\ Clear(st, base) /\ st.next <= base.next
  <2>1. CASE replace
    BY <1>2, <2>1, DropEvolves, DropClear DEF Evolves
  <2>2. CASE ~replace
    BY <1>2, <2>2, SameRowsClear, StoreFields
  <2> QED
    BY <2>1, <2>2
<1> HIDE DEF base
<1>4. /\ WellKept(wrote) /\ wrote.rows = base.rows /\ wrote.next = base.next
      /\ DOMAIN wrote.disk = DOMAIN base.disk \cup {p}
  BY <1>3, WriteKeeps DEF Evolves
<1> HIDE DEF wrote
<1>5. p \in Path /\ p.dir = n /\ p.rec = rec /\ p.slot = Slot[s]
  BY SpanFields, Zenon
<1>6. p \in DOMAIN wrote.disk
  BY <1>4
<1> DEFINE row == [id |-> wrote.next, name |-> n, path |-> p, span |-> s,
                   source |-> rec, flagged |-> FALSE]
<1>7. /\ Evolves(wrote, new, {}) /\ new.rows = wrote.rows \cup {row}
      /\ new.disk = wrote.disk
  <2> HIDE DEF p
  <2> QED
    BY <1>4, <1>5, <1>6, AddRowKeeps
<1>8. row.id = wrote.next /\ row.path = p
  OBVIOUS
<1> HIDE DEF row, p, new
<1>9. \A x \in base.rows : x.id < base.next /\ x.id \in Nat
  BY <1>3, StoreFields, SnippetFields DEF WellKept, IdsAreUsedOnce
<1>10. base.next \in Nat
  BY <1>3, StoreFields DEF WellKept
<1>11. Clear(base, new)
  <2>1. ASSUME NEW x \in new.rows
        PROVE  x \in base.rows \/ base.next <= x.id
    BY <1>4, <1>7, <1>8, <1>10
  <2>2. ASSUME NEW x \in new.rows, ~Dead(new, x)
        PROVE  KeepsFile(base, new, x.path)
    <3>1. CASE x.path = p
      <4>1. row \in new.rows /\ base.next <= row.id /\ row.path = x.path
        BY <1>4, <1>7, <1>8, <1>10, <3>1
      <4> QED
        BY <4>1 DEF KeepsFile
    <3>2. CASE x.path # p
      BY <1>4, <1>7, <2>2, <3>2 DEF KeepsFile, Dead
    <3> QED
      BY <3>1, <3>2
  <2> QED
    BY <2>1, <2>2 DEF Clear
<1>12. WellKept(new)
  BY <1>7 DEF Evolves
<1> QED
  BY <1>1, <1>3, <1>11, <1>12, ClearTwice

LEMMA DeleteSpeakerClear ==
  ASSUME NEW st, WellKept(st), NEW n \in Speakers
  PROVE  Clear(st, DeleteSpeaker(st, n))
<1> DEFINE R == RowsOf(st, n)
           mid == DropSnippets(st, R)
           gone == DeleteProfile(mid, n)
           new == CleanupSpeakerDir(gone, n)
<1>0. DeleteSpeaker(st, n) = new
  BY DEF DeleteSpeaker
<1>1. R \in SUBSET st.rows /\ IsStore(st)
  BY DEF RowsOf, WellKept
<1> HIDE DEF R
<1>2. WellKept(mid) /\ Clear(st, mid)
  BY <1>1, DropEvolves, DropClear DEF Evolves
<1> HIDE DEF mid
<1>3. SameShelf(mid, gone) /\ WellKept(gone)
  BY <1>2, DeleteProfileShelf, ShelfIsKept DEF WellKept
<1> HIDE DEF gone
<1>4. new.rows = mid.rows /\ new.disk = mid.disk
  BY <1>3, CleanupDirKeeps DEF SameShelf
<1> QED
  BY <1>0, <1>2, <1>4, ClearShelf

LEMMA DeleteSnippetClear ==
  ASSUME NEW st, WellKept(st), NEW r \in st.rows, NEW e
  PROVE  Clear(st, DeleteSnippet(st, r, e))
<1> DEFINE n == r.name
           mid == DropSnippets(st, {r})
           gone == DeleteProfile(mid, n)
           new == RefineOrRemove(mid, n, e)
<1>1. /\ n \in Speakers /\ {r} \in SUBSET st.rows /\ IsStore(st)
      /\ DeleteSnippet(st, r, e) = new
  BY StoreFields, SnippetFields DEF WellKept, DeleteSnippet
<1> HIDE DEF n
<1>2. WellKept(mid) /\ IsStore(mid) /\ Clear(st, mid)
  BY <1>1, DropEvolves, DropClear DEF Evolves, WellKept
<1> HIDE DEF mid
<1>3. new.rows = mid.rows /\ new.disk = mid.disk
  <2>1. CASE RowsOf(mid, n) = {}
    <3>1. new = CleanupSpeakerDir(gone, n)
      BY <2>1 DEF RefineOrRemove
    <3>2. SameShelf(mid, gone) /\ WellKept(gone)
      BY <1>1, <1>2, DeleteProfileShelf, ShelfIsKept
    <3> HIDE DEF gone, new
    <3> QED
      BY <3>1, <3>2, CleanupDirKeeps DEF SameShelf
  <2>2. CASE RowsOf(mid, n) # {}
    <3>1. new = AutoRefine(mid, n, e)
      BY <2>2 DEF RefineOrRemove
    <3> HIDE DEF new
    <3> QED
      BY <1>1, <1>2, <3>1, AutoRefineShelf DEF SameShelf
  <2> QED
    BY <2>1, <2>2
<1> QED
  BY <1>1, <1>2, <1>3, ClearShelf

LEMMA CleanupClear ==
  ASSUME NEW st, WellKept(st), NEW copies \in SUBSET st.rows, NEW gone \in SUBSET st.rows,
         NEW trim \in BOOLEAN, NEW e
  PROVE  Clear(st, CleanupIntegrity(st, copies, gone, trim, e))
<1> DEFINE found == copies \cup gone
           swept == DropSnippets(st, found)
           excess == IF trim THEN OverBudget(swept) ELSE {}
           trimmed == DropSnippets(swept, excess)
           touched == {r.name : r \in st.rows \ trimmed.rows}
           new == RefineAll(trimmed, touched, e)
<1>0. CleanupIntegrity(st, copies, gone, trim, e) = new
  BY DEF CleanupIntegrity
<1>1. found \in SUBSET st.rows /\ IsStore(st)
  BY DEF WellKept
<1> HIDE DEF found
<1>2. WellKept(swept) /\ Clear(st, swept) /\ st.next <= swept.next
  BY <1>1, DropEvolves, DropClear DEF Evolves
<1> HIDE DEF swept
<1>3. excess \in SUBSET swept.rows
  BY DEF OverBudget
<1>4. WellKept(trimmed) /\ Clear(swept, trimmed)
  BY <1>2, <1>3, DropEvolves, DropClear DEF Evolves, WellKept
<1> HIDE DEF trimmed
<1>5. Clear(st, trimmed)
  BY <1>2, <1>4, ClearTwice
<1>6. SameShelf(trimmed, new)
  BY <1>4, RefineAllShelf DEF WellKept
<1> HIDE DEF new
<1> QED
  BY <1>0, <1>5, <1>6, ClearShelf DEF SameShelf

(* Whatever is asked for, or happens, keeps the files that rows have. *)
LEMMA ActsKeepFiles ==
  ASSUME RebuildInv, Asked \/ Renaming \/ Trouble
  PROVE  /\ \E st, noted : \E s \in BOOLEAN : Evolves(lib, st, noted) /\ Act(st, s)
         /\ KeepsFiles(lib, lib')
<1>1. WellKept(lib) /\ IsStore(lib)
  BY PassAtWork
<1>2. \A st : Clear(lib, st) => KeepsFiles(lib, st)
  BY <1>1, ClearIsKept
<1>3. \A st, s : Act(st, s) => lib' = st
  BY DEF Act
<1>4. ASSUME NEW n \in Speakers
      PROVE  Clear(lib, AutoRefine(lib, n, TRUE))
  <2> DEFINE new == AutoRefine(lib, n, TRUE)
  <2>1. SameShelf(lib, new)
    BY <1>1, AutoRefineShelf
  <2> HIDE DEF new
  <2>2. Clear(lib, new)
    BY <2>1, SameRowsClear DEF SameShelf
  <2> QED
    BY <2>2 DEF new
<1>5. CASE Asked
  <2>1. \A copies \in MayTake(Duplicates(lib)), missing \in MayTake(DeadRows(lib)), trim \in BOOLEAN :
           Clear(lib, CleanupIntegrity(lib, copies, missing, trim, TRUE))
    BY <1>1, ListedRows, CleanupClear
  <2>2. \A changed : Clear(lib, Rescan(lib, changed, TRUE))
    BY <1>1, RescanKeeps
  <2>3. KeepsFiles(lib, lib')
    <3>1. \A n \in Speakers, rec \in Recordings, s \in Spans, replace \in BOOLEAN :
             Clear(lib, AddSnippet(lib, n, rec, s, replace))
      BY <1>1, AddSnippetClear
    <3>2. \A n \in Speakers : Clear(lib, DeleteSpeaker(lib, n))
      BY <1>1, DeleteSpeakerClear
    <3>3. \A r \in lib.rows : Clear(lib, DeleteSnippet(lib, r, session))
      BY <1>1, DeleteSnippetClear
    <3> QED
      BY <1>2, <1>3, <1>4, <1>5, <2>1, <2>2, <3>1, <3>2, <3>3 DEF Asked
  <2> QED
    BY <1>5, <2>3, AskedEvolves
<1>6. CASE Renaming
  <2>1. ASSUME NEW a \in Speakers, NEW b \in Speakers, Exists(lib, a), ~Exists(lib, b)
        PROVE  KeepsFiles(lib, RenameSpeaker(lib, a, b))
    BY <1>1, <2>1, RenameSpeakerKeeps
  <2>2. ASSUME NEW a \in Speakers, NEW b \in Speakers
        PROVE  Clear(lib, MergeSpeakers(lib, a, b, TRUE))
    BY <1>1, MergeKeeps
  <2>3. ASSUME NEW a \in Speakers, NEW b \in Speakers, a = b \/ ~Exists(lib, b)
        PROVE  Clear(lib, ConfirmPending(lib, a, b, TRUE))
    <3> DEFINE noted == Ids(RowsOf(ConfirmPending(lib, a, b, TRUE), b))
    <3>1. noted \subseteq noted
      OBVIOUS
    <3> QED
      BY <1>1, <2>3, <3>1, ConfirmKeeps
  <2>4. KeepsFiles(lib, lib')
    BY <1>2, <1>3, <1>6, <2>1, <2>2, <2>3 DEF Renaming
  <2> QED
    BY <1>6, <2>4, RenamingEvolves
<1>7. CASE Trouble
  <2>1. ASSUME NEW p
        PROVE  Clear(lib, [lib EXCEPT !.disk = Unlink(@, {p})])
    <3> DEFINE new == [lib EXCEPT !.disk = Unlink(@, {p})]
    <3>1. new.rows = lib.rows /\ DOMAIN new.disk = DOMAIN lib.disk \ {p}
      BY <1>1, VanishRemains
    <3> HIDE DEF new
    <3>2. Clear(lib, new)
      BY <3>1, SameRowsClear
    <3> QED
      BY <3>2 DEF new
  <2>2. Clear(lib, lib)
    BY SameRowsClear
  <2>3. KeepsFiles(lib, lib')
    BY <1>2, <1>3, <1>7, <2>1, <2>2 DEF Trouble
  <2> QED
    BY <1>7, <2>3, TroubleEvolves
<1> QED
  BY <1>5, <1>6, <1>7

----------------------------------------------------------------------------
(***************************************************************************)
(* The purge.  Of the rows it has listed or taken for dead it knows the ids *)
(* of old.  One that is listed has still the file it was listed with, and   *)
(* one that was taken for dead has none now, or another row of the file     *)
(* stays to hold it: else its file was moved since.                         *)
(***************************************************************************)
IdsAreOld == \A i \in Ids(listed) \cup dead : i < lib.next

ListingIsSound ==
    \A l \in listed, r \in lib.rows : r.id = l.id => r.path = l.path \/ r.id \in moved

Spared(r) == \E q \in lib.rows : q.path = r.path /\ q.id \notin Ids(listed) \cup dead

DeadAreSpared ==
    \A r \in lib.rows : r.id \in dead \ moved /\ ~Dead(lib, r) => Spared(r)

PurgeIsSound ==
    /\ IdsAreOld /\ ListingIsSound /\ DeadAreSpared
    /\ repair # None /\ repair.stage \notin {"load", "next", "list", "look"} => listed = {}

RepairInv == RebuildInv /\ PurgeIsSound

LEMMA NothingListed ==
  ASSUME listed' = {}, dead' = {}
  PROVE  PurgeIsSound'
BY DEF PurgeIsSound, IdsAreOld, ListingIsSound, DeadAreSpared, Ids

(* Steps that leave the rows, the files and the listing alone *)
LEMMA PurgeUntouched ==
  ASSUME PurgeIsSound, lib'.rows = lib.rows, lib'.disk = lib.disk, lib'.next = lib.next,
         listed' = listed, dead' \subseteq dead, moved' = moved,
         \/ listed = {} \/ repair' = repair \/ repair' = None
         \/ repair'.stage \in {"load", "next", "list", "look"}
  PROVE  PurgeIsSound'
<1>1. IdsAreOld' /\ ListingIsSound'
  BY DEF PurgeIsSound, IdsAreOld, ListingIsSound
<1>2. DeadAreSpared'
  <2> SUFFICES ASSUME NEW r \in lib.rows, r.id \in dead' \ moved', ~Dead(lib, r)
               PROVE  \E q \in lib.rows : q.path = r.path /\ q.id \notin Ids(listed) \cup dead'
    BY DEF DeadAreSpared, Spared, Dead
  <2>1. Spared(r)
    BY DEF PurgeIsSound, DeadAreSpared
  <2> QED
    BY <2>1 DEF Spared
<1> QED
  BY <1>1, <1>2 DEF PurgeIsSound, Repairing

LEMMA ListingKeeps ==
  ASSUME RepairInv, ListToPurge
  PROVE  PurgeIsSound'
<1> DEFINE rows == {[id |-> r.id, path |-> r.path] : r \in RowsOf(lib, repair.name)}
<1>1. /\ Repairing("list") /\ repair' = [repair EXCEPT !.stage = "look"]
      /\ lib' = lib /\ listed' = rows /\ dead' = {} /\ moved' = {}
  BY DEF ListToPurge, Step
<1>2. /\ repair # None /\ repair \in Pass /\ IdsAreUsedOnce(lib)
  BY <1>1, PassAtWork DEF RepairInv, WellKept
<1>3. ASSUME NEW l \in rows
      PROVE  \E r \in lib.rows : l.id = r.id /\ l.path = r.path
  BY DEF RowsOf
<1> HIDE DEF rows
<1>4. IdsAreOld'
  BY <1>1, <1>2, <1>3 DEF IdsAreOld, IdsAreUsedOnce, Ids
<1>5. ListingIsSound'
  BY <1>1, <1>2, <1>3 DEF ListingIsSound, IdsAreUsedOnce
<1>6. DeadAreSpared'
  BY <1>1 DEF DeadAreSpared
<1>7. repair'.stage = "look"
  BY <1>1, <1>2, StageSet DEF PassStages
<1> QED
  BY <1>4, <1>5, <1>6, <1>7 DEF PurgeIsSound

LEMMA LookingKeeps ==
  ASSUME RepairInv, NEW l \in listed, LookFor(l)
  PROVE  PurgeIsSound'
<1>1. /\ Repairing("look") /\ repair' = repair /\ lib' = lib /\ moved' = moved
      /\ listed' = listed \ {l}
      /\ \/ dead' = dead
         \/ Dead(lib, l) /\ dead' = dead \cup {l.id}
  BY DEF LookFor, Step, Missing
<1>2. PurgeIsSound
  BY DEF RepairInv
<1>3. Ids(listed') \cup dead' \subseteq Ids(listed) \cup dead
  BY <1>1 DEF Ids
<1>4. IdsAreOld' /\ ListingIsSound'
  BY <1>1, <1>2, <1>3 DEF PurgeIsSound, IdsAreOld, ListingIsSound
<1>5. ASSUME NEW r \in lib.rows, r.id \in dead' \ moved, ~Dead(lib, r)
      PROVE  \E q \in lib.rows : q.path = r.path /\ q.id \notin Ids(listed') \cup dead'
  <2>1. r.id \in dead
    BY <1>1, <1>2, <1>5 DEF PurgeIsSound, ListingIsSound, Dead
  <2>2. Spared(r)
    BY <1>2, <1>5, <2>1 DEF PurgeIsSound, DeadAreSpared
  <2> QED
    BY <1>3, <2>2 DEF Spared
<1>6. DeadAreSpared'
  BY <1>1, <1>5 DEF DeadAreSpared, Spared, Dead
<1> QED
  BY <1>1, <1>2, <1>4, <1>6 DEF PurgeIsSound, Repairing

LEMMA PurgingKeeps ==
  ASSUME RepairInv, NEW i \in dead, PurgeRow(i)
  PROVE  PurgeIsSound'
<1>1. /\ lib'.rows = {r \in lib.rows : r.id # i} /\ lib'.disk = lib.disk
      /\ lib'.next = lib.next
      /\ UNCHANGED <<listed, moved, repair>> /\ dead' = dead \ {i}
  BY PurgeRowKeeps DEF RepairInv, Remains, PurgeRow
<1>2. PurgeIsSound
  BY DEF RepairInv
<1>3. IdsAreOld' /\ ListingIsSound'
  BY <1>1, <1>2 DEF PurgeIsSound, IdsAreOld, ListingIsSound
<1>4. ASSUME NEW r \in lib'.rows, r.id \in dead' \ moved, r.path \in DOMAIN lib.disk
      PROVE  \E q \in lib'.rows : q.path = r.path /\ q.id \notin Ids(listed) \cup dead'
  <2>1. Spared(r)
    BY <1>1, <1>2, <1>4 DEF PurgeIsSound, DeadAreSpared, Dead
  <2> QED
    BY <1>1, <2>1 DEF Spared
<1>5. DeadAreSpared'
  BY <1>1, <1>4 DEF DeadAreSpared, Spared, Dead
<1> QED
  BY <1>1, <1>2, <1>3, <1>5 DEF PurgeIsSound

LEMMA PassPurgeKeeps ==
  ASSUME RepairInv, PassStep
  PROVE  PurgeIsSound'
<1>1. RebuildInv /\ PurgeIsSound
  BY DEF RepairInv
<1>2. CASE LoadModels \/ \E n \in Speakers : OpenEntry(n)
  <2>1. lib' = lib /\ UNCHANGED <<listed, dead, moved>>
    BY <1>1, <1>2, EntryStepsKeep DEF LoadModels, OpenEntry, purgeVars
  <2>2. repair'.stage \in {"next", "list"}
    <3>1. LoadModels => repair'.stage = "next"
      BY <1>1, PassAtWork, StageSet DEF LoadModels, Step, PassStages
    <3>2. ASSUME NEW n \in Speakers, OpenEntry(n)
          PROVE  repair'.stage = "list"
      <4>1. repair \in Pass
        BY <1>1, <3>2, PassAtWork DEF OpenEntry, Step
      <4>2. DOMAIN repair = {"todo", "left", "marks", "name", "pending", "clips", "stage"}
        BY <4>1 DEF Pass
      <4> QED
        BY <3>2, <4>2 DEF OpenEntry
    <3> QED
      BY <1>2, <3>1, <3>2
  <2> QED
    BY <1>1, <2>1, <2>2, PurgeUntouched
<1>3. CASE \E l \in listed : LookFor(l)
  BY <1>3, LookingKeeps
<1>4. CASE ListToPurge
  BY <1>4, ListingKeeps
<1>5. CASE \E i \in dead : PurgeRow(i)
  BY <1>5, PurgingKeeps
<1>6. CASE Looked
  <2>1. /\ lib' = lib /\ listed = {} /\ listed' = listed /\ moved' = moved
        /\ dead' \subseteq dead
    BY <1>6 DEF Looked, UpTo
  <2> QED
    BY <1>1, <2>1, PurgeUntouched
<1>7. CASE CountRows
  <2>1. Repairing("purge") /\ listed' = listed /\ dead' = {}
    BY <1>7 DEF CountRows, Step
  <2>2. listed' = {}
    BY <1>1, <2>1 DEF PurgeIsSound, Repairing
  <2> QED
    BY <2>1, <2>2, NothingListed
<1>8. CASE DropProfile \/ SkipEntry \/ ClearProfile \/ ReadAudio \/ SaveRebuilt
             \/ CheckRebuilt \/ FlagRebuilt
  <2>1. SameShelf(lib, lib') /\ UNCHANGED <<listed, dead, moved>>
    BY <1>1, <1>8, RebuildStepsKeep
  <2>2. repair # None /\ repair.stage \in {"drop", "clear", "refine", "save", "check", "flag"}
    BY <1>8 DEF DropProfile, SkipEntry, ClearProfile, ReadAudio, SaveRebuilt, CheckRebuilt,
                FlagRebuilt, Step, Repairing
  <2>3. listed = {}
    BY <1>1, <2>2 DEF PurgeIsSound
  <2> QED
    BY <1>1, <2>1, <2>3, PurgeUntouched DEF SameShelf
<1>9. CASE EndPass
  <2>1. lib' = lib /\ UNCHANGED <<listed, dead, moved>> /\ repair' = None
    BY <1>9 DEF EndPass, purgeVars
  <2> QED
    BY <1>1, <2>1, PurgeUntouched
<1> QED
  BY <1>2, <1>3, <1>4, <1>5, <1>6, <1>7, <1>8, <1>9 DEF PassStep

LEMMA ActPurgeKeeps ==
  ASSUME RepairInv, NEW st, NEW noted, Evolves(lib, st, noted), KeepsFiles(lib, st),
         NEW s, Act(st, s)
  PROVE  PurgeIsSound'
<1>1. /\ lib' = st /\ moved' = moved \cup Removed(st)
      /\ UNCHANGED <<repair, listed, dead>>
  BY DEF Act
<1>2. PurgeIsSound /\ WellKept(lib) /\ WellKept(st)
  BY PassAtWork DEF RepairInv, Evolves
<1>3. /\ lib.next \in Nat /\ st.next \in Nat /\ lib.next <= st.next
      /\ \A r \in st.rows : r.id \in Nat
      /\ Ids(listed) \cup dead \subseteq Nat
      /\ \A i \in Ids(listed) \cup dead : i < lib.next
  BY <1>2, PassAtWork, StoreFields, SnippetFields
     DEF WellKept, Evolves, PurgeIsSound, IdsAreOld, RepairInv, Ids
<1>4. \A i \in Ids(listed) \cup dead : i < st.next
  BY <1>3
<1>5. IdsAreOld'
  BY <1>1, <1>4 DEF IdsAreOld
<1>6. ASSUME NEW x \in st.rows, x.id \in Ids(listed) \cup dead, x.id \notin Removed(st)
      PROVE  \E r \in lib.rows : r.id = x.id /\ r.path = x.path
  <2>1. ~(lib.next <= x.id)
    BY <1>3, <1>6
  <2>2. PICK r \in lib.rows : r.id = x.id
    BY <2>1 DEF Evolves
  <2> QED
    BY <1>6, <2>2 DEF Removed
<1>7. ASSUME NEW l \in listed, NEW x \in st.rows, x.id = l.id, x.id \notin moved \cup Removed(st)
      PROVE  x.path = l.path
  <2>1. x.id \in Ids(listed)
    BY <1>7 DEF Ids
  <2>2. PICK r \in lib.rows : r.id = x.id /\ r.path = x.path
    BY <1>6, <1>7, <2>1
  <2> QED
    BY <1>2, <1>7, <2>2 DEF PurgeIsSound, ListingIsSound
<1>8. ASSUME NEW x \in st.rows, x.id \in dead, x.id \notin moved \cup Removed(st), ~Dead(st, x)
      PROVE  \E q \in st.rows : q.path = x.path /\ q.id \notin Ids(listed) \cup dead
  <2>1. PICK r \in lib.rows : r.id = x.id /\ r.path = x.path
    BY <1>6, <1>8
  <2>2. KeepsFile(lib, st, x.path)
    BY <1>8, <2>1 DEF KeepsFiles
  <2>3. CASE \E q \in st.rows : lib.next <= q.id /\ q.path = x.path
    <3>1. PICK q \in st.rows : lib.next <= q.id /\ q.path = x.path
      BY <2>3
    <3>2. q.id \notin Ids(listed) \cup dead
      BY <1>3, <3>1
    <3> QED
      BY <3>1, <3>2
  <2>4. CASE /\ x.path \in DOMAIN lib.disk
             /\ \A q \in lib.rows : q.path = x.path =>
                   \E y \in st.rows : y.id = q.id /\ y.path = x.path
    <3>1. Spared(r)
      BY <1>2, <1>8, <2>1, <2>4 DEF PurgeIsSound, DeadAreSpared, Dead
    <3>2. PICK q \in lib.rows : q.path = x.path /\ q.id \notin Ids(listed) \cup dead
      BY <2>1, <3>1 DEF Spared
    <3>3. PICK y \in st.rows : y.id = q.id /\ y.path = x.path
      BY <2>4, <3>2
    <3> QED
      BY <3>2, <3>3
  <2> QED
    BY <2>2, <2>3, <2>4 DEF KeepsFile
<1>9. ListingIsSound'
  BY <1>1, <1>7 DEF ListingIsSound
<1>10. DeadAreSpared'
  BY <1>1, <1>8 DEF DeadAreSpared, Spared
<1> QED
  BY <1>1, <1>2, <1>5, <1>9, <1>10 DEF PurgeIsSound

LEMMA RepairStep ==
  ASSUME RepairInv, [RebuildNext]_rebuildVars
  PROVE  RepairInv'
<1>1. RebuildInv /\ PurgeIsSound
  BY DEF RepairInv
<1> SUFFICES PurgeIsSound'
  BY <1>1, RebuildStep DEF RepairInv
<1>2. CASE Restart \/ Crash
  BY <1>2, NothingListed DEF Restart, Crash, Boot
<1>3. CASE PassStep
  BY <1>3, PassPurgeKeeps
<1>4. CASE Asked \/ Renaming \/ Trouble
  <2>1. PICK st, noted, s : Evolves(lib, st, noted) /\ Act(st, s)
    BY <1>1, <1>4, ActsKeepFiles
  <2>2. lib' = st
    BY <2>1 DEF Act
  <2>3. KeepsFiles(lib, st)
    BY <1>1, <1>4, <2>2, ActsKeepFiles
  <2> QED
    BY <2>1, <2>3, ActPurgeKeeps
<1>5. CASE BeginPass
  <2>1. UNCHANGED <<lib, listed, dead, moved>> /\ repair'.stage = "load"
    BY <1>5 DEF BeginPass, purgeVars
  <2> QED
    BY <1>1, <2>1, PurgeUntouched
<1>6. CASE LoadFails \/ JobStarts \/ JobEnds
  <2>1. UNCHANGED <<lib, listed, dead, moved>> /\ (repair' = repair \/ repair' = None)
    BY <1>6 DEF LoadFails, JobStarts, JobEnds, purgeVars
  <2> QED
    BY <1>1, <2>1, PurgeUntouched
<1>7. CASE UNCHANGED rebuildVars
  <2>1. UNCHANGED <<lib, listed, dead, moved, repair>>
    BY <1>7 DEF rebuildVars, purgeVars
  <2> QED
    BY <1>1, <2>1, PurgeUntouched
<1> QED
  BY <1>2, <1>3, <1>4, <1>5, <1>6, <1>7 DEF RebuildNext

LEMMA RepairSpares ==
  ASSUME RepairInv, PassStep
  PROVE  /\ lib'.disk = lib.disk /\ lib'.rows \subseteq lib.rows
         /\ \A n \in Speakers : Known(lib, n) /\ ~Known(lib', n) => n = repair.name
         /\ \A p \in Heard(lib) \ Heard(lib') : \E r \in lib.rows : r.path = p /\ r.id \in moved
<1>1. RebuildInv /\ PurgeIsSound
  BY DEF RepairInv
<1>2. CASE \E i \in dead : PurgeRow(i)
  <2>1. PICK i \in dead : PurgeRow(i)
    BY <1>2
  <2>2. /\ lib'.disk = lib.disk /\ lib'.profile = lib.profile
        /\ lib'.rows = {r \in lib.rows : r.id # i}
    BY <1>1, <2>1, PurgeRowKeeps
  <2>3. ASSUME NEW p \in Heard(lib), p \notin Heard(lib')
        PROVE  \E r \in lib.rows : r.path = p /\ r.id \in moved
    <3>1. PICK r \in lib.rows : r.path = p
      BY DEF Heard
    <3>2. p \in DOMAIN lib.disk
      BY DEF Heard
    <3>3. \A q \in lib.rows : q.path = p => q.id = i
      BY <2>2, <2>3, <3>2 DEF Heard
    <3>4. ~Spared(r)
      BY <2>1, <3>1, <3>3 DEF Spared
    <3> QED
      BY <1>1, <2>1, <3>1, <3>2, <3>3, <3>4 DEF PurgeIsSound, DeadAreSpared, Dead
  <2> QED
    BY <2>2, <2>3 DEF Known
<1>3. CASE DropProfile \/ SkipEntry \/ ClearProfile \/ ReadAudio \/ SaveRebuilt
             \/ CheckRebuilt \/ FlagRebuilt
  <2>1. /\ SameShelf(lib, lib')
        /\ \A m \in Speakers : Known(lib, m) /\ ~Known(lib', m) => m = repair.name
    BY <1>1, <1>3, RebuildStepsKeep
  <2> QED
    BY <2>1 DEF SameShelf, Heard
<1>4. ASSUME lib' = lib
      PROVE  /\ lib'.disk = lib.disk /\ lib'.rows \subseteq lib.rows
             /\ \A n \in Speakers : Known(lib, n) /\ ~Known(lib', n) => n = repair.name
             /\ \A p \in Heard(lib) \ Heard(lib') :
                   \E r \in lib.rows : r.path = p /\ r.id \in moved
  BY <1>4
<1>5. LoadModels \/ (\E n \in Speakers : OpenEntry(n)) => lib' = lib
  BY <1>1, EntryStepsKeep
<1>6. ListToPurge \/ Looked \/ CountRows \/ (\E l \in listed : LookFor(l)) => lib' = lib
  BY <1>1, PurgeStepsKeep
<1>7. EndPass => lib' = lib
  BY DEF EndPass
<1> QED
  BY <1>2, <1>3, <1>4, <1>5, <1>6, <1>7 DEF PassStep

(* Whatever is asked for while a repair is at work, it takes away no audio, *)
(* no row of a file that nobody moved since the row was listed, and no      *)
(* profile but that of the speaker it is at.  A row whose file is moved      *)
(* between the look and the deletion is lost, as PurgesOnlyTheDead shows.   *)
THEOREM RepairsKeepTheAudio == RebuildSpec => RepairsLoseNoAudio
<1>1. RebuildInit => RepairInv
  BY RebuildStart
     DEF RebuildInit, RepairInv, PurgeIsSound, IdsAreOld, ListingIsSound, DeadAreSpared, Ids
<1>2. RepairInv /\ [RebuildNext]_rebuildVars => RepairInv'
  BY RepairStep
<1>3. RepairInv /\ [RebuildNext]_rebuildVars =>
         [PassStep =>
            /\ lib'.disk = lib.disk /\ lib'.rows \subseteq lib.rows
            /\ \A n \in Speakers : Known(lib, n) /\ ~Known(lib', n) => n = repair.name
            /\ \A p \in Heard(lib) \ Heard(lib') :
                  \E r \in lib.rows : r.path = p /\ r.id \in moved]_rebuildVars
  BY RepairSpares
<1> QED
  BY <1>1, <1>2, <1>3, PTL DEF RebuildSpec, RepairsLoseNoAudio
============================================================================

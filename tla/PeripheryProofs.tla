-------------------------- MODULE PeripheryProofs --------------------------
(***************************************************************************)
(* Proofs about what runs around the control plane: the mirror of saved    *)
(* articles, the effect claims on D1, the heartbeat and its cache, the     *)
(* candidate alerts, the article archive, and the collections of a source; *)
(* and about all of them together.                                         *)
(***************************************************************************)
EXTENDS MCPeriphery, LifeProofs, OperationsProofs, FiniteSetTheorems, TLAPS

(***************************************************************************)
(* The mirror is safe for any workers, articles, months, names and number  *)
(* of failed requests.  What ima is asked before something is created      *)
(* stays true until it is, as long as one worker at a time is at a month.  *)
(***************************************************************************)

Active(w) == ~At(w, "idle")

\* two workers at one month are noticed
Alone ==
    \A v, w \in Mirrors :
        Active(v) /\ Active(w) /\ v # w /\ FolderOf(v) = FolderOf(w) =>
            FolderOf(v) \in together

\* who is about to create a folder has found none
FolderAbsent ==
    \A w \in Mirrors :
        At(w, "create") /\ FolderOf(w) \notin together =>
            folders[FolderOf(w)] = 0

\* who is about to add an entry has found no other of its name
NameFree ==
    \A w \in Mirrors :
        (At(w, "upload") \/ At(w, "add")) /\ FolderOf(w) \notin together =>
            ~Repeated(ArticleOf(w))

\* who is about to put a marker has added the entry
EntryAdded ==
    \A w \in Mirrors : At(w, "marker") => entries[ArticleOf(w)] > 0

MirrorInv ==
    /\ ImaTypeOK
    /\ Alone /\ FolderAbsent /\ NameFree /\ EntryAdded
    /\ MirrorSafe

\* A worker that is not at rest has an article.
LEMMA ActiveHasArticle ==
    ASSUME ImaTypeOK, NEW w \in Mirrors, Active(w)
    PROVE  ArticleOf(w) \in Articles /\ FolderOf(w) \in Months
<1>1. ArticleOf(w) \in Articles
    BY DEF ImaTypeOK, Active, At, ArticleOf
<1> QED BY <1>1 DEF FolderOf, Months

\* What a worker that comes to rest or goes on leaves to the others.
LEMMA Settled ==
    ASSUME ImaTypeOK, NEW w \in Mirrors, Active(w),
           NEW o \in {"uncertain", "mirrored"}, Settle(w, o)
    PROVE  /\ mirroring'[w] = AtRest
           /\ \A v \in Mirrors \ {w} : mirroring'[v] = mirroring[v]
           /\ mirroring' \in [Mirrors -> [phase : MirrorPhases,
                                          article : Articles \cup {NoArticle}]]
           /\ \A v \in Mirrors : At(v, "idle")' <=> (ArticleOf(v) = NoArticle)'
           /\ result' \in [Articles -> {"open", "uncertain", "mirrored"}]
           /\ \A a \in Articles :
                 result'[a] = "mirrored" =>
                    result[a] = "mirrored" \/ (a = ArticleOf(w) /\ o = "mirrored")
BY ActiveHasArticle
   DEF Settle, ImaTypeOK, AtRest, MirrorPhases, At, ArticleOf

LEMMA WentOn ==
    ASSUME ImaTypeOK, NEW w \in Mirrors, Active(w),
           NEW p \in MirrorPhases \ {"idle"}, GoOn(w, p)
    PROVE  /\ mirroring'[w].phase = p /\ mirroring'[w].article = ArticleOf(w)
           /\ \A v \in Mirrors \ {w} : mirroring'[v] = mirroring[v]
           /\ mirroring' \in [Mirrors -> [phase : MirrorPhases,
                                          article : Articles \cup {NoArticle}]]
           /\ \A v \in Mirrors : At(v, "idle")' <=> (ArticleOf(v) = NoArticle)'
BY ActiveHasArticle, ImaAssumption
   DEF GoOn, ImaTypeOK, MirrorPhases, At, ArticleOf, Active

\* In the beginning nobody is at work and nothing is there.
LEMMA MirrorInit == ImaInit => MirrorInv
<1> SUFFICES ASSUME ImaInit PROVE MirrorInv
    OBVIOUS
<1>1. ImaTypeOK
    BY ImaAssumption DEF ImaInit, ImaTypeOK, AtRest, MirrorPhases, At, ArticleOf
<1>2. \A w \in Mirrors : mirroring[w].phase = "idle"
    BY DEF ImaInit, AtRest
<1>3. MirrorSafe
    BY DEF ImaInit, MirrorSafe, MirroredMeansImported, ImportedOnce,
           OneFolderPerMonth, NamesUnique, Months
<1> QED BY <1>1, <1>2, <1>3
        DEF MirrorInv, Alone, FolderAbsent, NameFree, EntryAdded, Active, At

\* A step that leaves folders, entries and markers alone and brings nobody to
\* an article reports nothing that is not there.
LEMMA LibraryUntouched ==
    ASSUME MirrorInv, ImaTypeOK',
           UNCHANGED <<folders, entries, markers, together>>,
           NEW w \in Mirrors,
           \A v \in Mirrors \ {w} : mirroring'[v] = mirroring[v],
           \A a \in Articles :
              result'[a] = "mirrored" => result[a] = "mirrored" \/ entries[a] > 0,
           \/ mirroring'[w].phase = "idle"
           \/ /\ Active(w)
              /\ mirroring'[w].article = ArticleOf(w)
              /\ mirroring'[w].phase = "create" => Matches(w) = 0
              /\ mirroring'[w].phase \in {"upload", "add"} =>
                    At(w, "upload") \/ ~Repeated(ArticleOf(w))
              /\ mirroring'[w].phase # "marker"
    PROVE  MirrorInv'
<1>1. MirrorSafe'
    BY DEF MirrorInv, MirrorSafe, MirroredMeansImported, ImportedOnce,
           OneFolderPerMonth, NamesUnique
<1>2. Alone'
    BY DEF MirrorInv, Alone, Active, At, FolderOf, ArticleOf
<1>3. FolderAbsent'
    BY DEF MirrorInv, FolderAbsent, At, FolderOf, ArticleOf, Matches
<1>4. NameFree'
    BY DEF MirrorInv, NameFree, At, FolderOf, ArticleOf, Repeated
<1>5. EntryAdded'
    BY DEF MirrorInv, EntryAdded, At, ArticleOf
<1> QED BY <1>1, <1>2, <1>3, <1>4, <1>5 DEF MirrorInv

\* The types are kept by every step of a worker.
LEMMA MirrorTypesStep ==
    ASSUME ImaTypeOK, [ImaNext]_imaVars
    PROVE  ImaTypeOK'
<1> USE ImaAssumption
<1>1. CASE UNCHANGED imaVars
    BY <1>1 DEF imaVars, ImaTypeOK, At, ArticleOf
<1>2. ASSUME NEW w \in Mirrors, NEW a \in Articles, Mirror(w, a)
      PROVE  ImaTypeOK'
    BY <1>2 DEF Mirror, ImaTypeOK, MirrorPhases, At, ArticleOf, AtWork,
                libraryVars, Months
<1>3. ASSUME NEW w \in Mirrors, FindUniqueKnowledgeBase(w)
      PROVE  ImaTypeOK'
    <2>1. Active(w)
        BY <1>3 DEF FindUniqueKnowledgeBase, At, Active
    <2>2. CASE GoOn(w, "folder") /\ UNCHANGED result
        BY <1>3, <2>1, <2>2, WentOn
        DEF FindUniqueKnowledgeBase, ImaTypeOK, libraryVars, MirrorPhases, Settle
    <2>3. CASE Settle(w, "uncertain")
        BY <1>3, <2>1, <2>3, Settled
        DEF FindUniqueKnowledgeBase, ImaTypeOK, libraryVars
    <2> QED BY <1>3, <2>2, <2>3 DEF FindUniqueKnowledgeBase
<1>4. ASSUME NEW w \in Mirrors, FindUniqueMonthFolder(w)
      PROVE  ImaTypeOK'
    <2>1. Active(w)
        BY <1>4 DEF FindUniqueMonthFolder, At, Active
    <2>2. ASSUME NEW p \in {"check", "create"}, GoOn(w, p), UNCHANGED result
          PROVE  ImaTypeOK'
        BY <1>4, <2>1, <2>2, WentOn
        DEF FindUniqueMonthFolder, ImaTypeOK, libraryVars, MirrorPhases
    <2>3. CASE Settle(w, "uncertain")
        BY <1>4, <2>1, <2>3, Settled
        DEF FindUniqueMonthFolder, ImaTypeOK, libraryVars
    <2> QED BY <1>4, <2>2, <2>3 DEF FindUniqueMonthFolder
<1>5. ASSUME NEW w \in Mirrors, CreateFolder(w)
      PROVE  ImaTypeOK'
    <2>1. Active(w)
        BY <1>5 DEF CreateFolder, At, Active
    <2>2. folders' \in [Months -> Nat]
        BY <1>5, <2>1, ActiveHasArticle DEF CreateFolder, ImaTypeOK
    <2>3. GoOn(w, "relist")
        BY <1>5 DEF CreateFolder
    <2> QED BY <1>5, <2>1, <2>2, <2>3, WentOn
            DEF CreateFolder, ImaTypeOK, MirrorPhases
<1>6. ASSUME NEW w \in Mirrors, CheckRepeatedNames(w)
      PROVE  ImaTypeOK'
    <2>1. Active(w)
        BY <1>6 DEF CheckRepeatedNames, At, Active
    <2>2. CASE GoOn(w, "upload") /\ UNCHANGED result
        BY <1>6, <2>1, <2>2, WentOn
        DEF CheckRepeatedNames, ImaTypeOK, libraryVars, MirrorPhases
    <2>3. CASE Settle(w, "uncertain")
        BY <1>6, <2>1, <2>3, Settled
        DEF CheckRepeatedNames, ImaTypeOK, libraryVars
    <2> QED BY <1>6, <2>2, <2>3 DEF CheckRepeatedNames
<1>7. ASSUME NEW w \in Mirrors, Upload(w)
      PROVE  ImaTypeOK'
    <2>1. Active(w)
        BY <1>7 DEF Upload, At, Active
    <2> QED BY <1>7, <2>1, WentOn DEF Upload, ImaTypeOK, MirrorPhases, libraryVars
<1>8. ASSUME NEW w \in Mirrors, AddKnowledge(w)
      PROVE  ImaTypeOK'
    <2>1. Active(w)
        BY <1>8 DEF AddKnowledge, At, Active
    <2>2. entries' \in [Articles -> Nat]
        BY <1>8, <2>1, ActiveHasArticle DEF AddKnowledge, ImaTypeOK
    <2>3. GoOn(w, "marker")
        BY <1>8 DEF AddKnowledge
    <2> QED BY <1>8, <2>1, <2>2, <2>3, WentOn
            DEF AddKnowledge, ImaTypeOK, MirrorPhases
<1>9. ASSUME NEW w \in Mirrors, PutMarker(w)
      PROVE  ImaTypeOK'
    <2>1. Active(w)
        BY <1>9 DEF PutMarker, At, Active
    <2> QED BY <1>9, <2>1, Settled, ActiveHasArticle
            DEF PutMarker, ImaTypeOK, libraryVars
<1>10. ASSUME NEW w \in Mirrors, NEW done \in BOOLEAN, RequestFails(w, done)
       PROVE  ImaTypeOK'
    <2>1. Active(w) /\ Settle(w, "uncertain")
        BY <1>10 DEF RequestFails, Active
    <2>2. ArticleOf(w) \in Articles /\ FolderOf(w) \in Months
        BY <2>1, ActiveHasArticle
    <2>3. /\ folders' \in [Months -> Nat] /\ entries' \in [Articles -> Nat]
          /\ markers' \subseteq Articles /\ imaFaults' \in 0..MaxImaFaults
        BY <1>10, <2>2 DEF RequestFails, ImaTypeOK, FolderOf
    <2> QED BY <1>10, <2>1, <2>3, Settled DEF RequestFails, ImaTypeOK
<1>11. ASSUME NEW w \in Mirrors, WorkerCrash(w)
       PROVE  ImaTypeOK'
    BY <1>11 DEF WorkerCrash, ImaTypeOK, MirrorPhases, At, ArticleOf, AtRest,
                 libraryVars
<1>12. CASE SecondBase
    BY <1>12 DEF SecondBase, ImaTypeOK, At, ArticleOf
<1> QED BY <1>1, <1>2, <1>3, <1>4, <1>5, <1>6, <1>7, <1>8, <1>9, <1>10,
           <1>11, <1>12 DEF ImaNext

\* A folder is created: the month had none, unless two workers are at it.
LEMMA FolderCreated ==
    ASSUME MirrorInv, ImaTypeOK', NEW w \in Mirrors, At(w, "create"),
           folders' = [folders EXCEPT ![FolderOf(w)] = @ + 1],
           UNCHANGED <<entries, markers, together>>,
           \A v \in Mirrors \ {w} : mirroring'[v] = mirroring[v],
           \/ mirroring'[w].phase = "idle"
           \/ /\ mirroring'[w].phase = "relist"
              /\ mirroring'[w].article = ArticleOf(w),
           \A a \in Articles : result'[a] = "mirrored" => result[a] = "mirrored"
    PROVE  MirrorInv'
<1>1. FolderOf(w) \in Months
    BY ActiveHasArticle DEF MirrorInv, Active, At
<1>2. /\ folders'[FolderOf(w)] = folders[FolderOf(w)] + 1
      /\ \A m \in Months \ {FolderOf(w)} : folders'[m] = folders[m]
    BY <1>1 DEF MirrorInv, ImaTypeOK
<1>3. FolderOf(w) \notin together => folders[FolderOf(w)] = 0
    BY DEF MirrorInv, FolderAbsent
<1>4. MirrorSafe'
    <2>1. OneFolderPerMonth'
        BY <1>2, <1>3 DEF MirrorInv, MirrorSafe, OneFolderPerMonth
    <2> QED BY <2>1 DEF MirrorInv, MirrorSafe, MirroredMeansImported,
                        ImportedOnce, NamesUnique
<1>5. Alone'
    BY DEF MirrorInv, Alone, Active, At, FolderOf, ArticleOf
<1>6. FolderAbsent'
    <2> SUFFICES ASSUME NEW v \in Mirrors, At(v, "create")', FolderOf(v)' \notin together
                 PROVE  folders'[FolderOf(v)'] = 0
        BY DEF FolderAbsent
    <2>1. v # w /\ At(v, "create") /\ FolderOf(v)' = FolderOf(v)
        BY DEF At, FolderOf, ArticleOf
    <2>2. FolderOf(v) # FolderOf(w)
        BY <2>1 DEF MirrorInv, Alone, Active, At
    <2>3. FolderOf(v) \in Months
        BY <2>1, ActiveHasArticle DEF MirrorInv, Active, At
    <2> QED BY <1>2, <2>1, <2>2, <2>3 DEF MirrorInv, FolderAbsent
<1>7. NameFree'
    BY DEF MirrorInv, NameFree, At, FolderOf, ArticleOf, Repeated
<1>8. EntryAdded'
    BY DEF MirrorInv, EntryAdded, At, ArticleOf
<1> QED BY <1>4, <1>5, <1>6, <1>7, <1>8 DEF MirrorInv

\* An entry is added: its name was free, unless two workers are at the month.
LEMMA EntryMade ==
    ASSUME MirrorInv, ImaTypeOK', NEW w \in Mirrors, At(w, "add"),
           entries' = [entries EXCEPT ![ArticleOf(w)] = @ + 1],
           UNCHANGED <<folders, markers, together>>,
           \A v \in Mirrors \ {w} : mirroring'[v] = mirroring[v],
           \/ mirroring'[w].phase = "idle"
           \/ /\ mirroring'[w].phase = "marker"
              /\ mirroring'[w].article = ArticleOf(w),
           \A a \in Articles : result'[a] = "mirrored" => result[a] = "mirrored"
    PROVE  MirrorInv'
<1> DEFINE a == ArticleOf(w)
<1>1. a \in Articles
    BY ActiveHasArticle DEF MirrorInv, Active, At
<1>2. entries \in [Articles -> Nat]
    BY DEF MirrorInv, ImaTypeOK
<1>3. entries'[a] = entries[a] + 1 /\ \A b \in Articles \ {a} : entries'[b] = entries[b]
    BY <1>1, <1>2
<1>4. MonthOf[a] \notin together =>
         \A b \in Articles :
            NameOf[b] = NameOf[a] /\ MonthOf[b] = MonthOf[a] => entries[b] = 0
    BY <1>2 DEF MirrorInv, NameFree, Repeated, FolderOf
<1>5. \A b \in Articles : entries[b] > 0 => entries'[b] > 0
    BY <1>2, <1>3
<1>6. MirrorSafe'
    <2>1. MirroredMeansImported'
        BY <1>5 DEF MirrorInv, MirrorSafe, MirroredMeansImported
    <2>2. ImportedOnce'
        BY <1>1, <1>2, <1>3, <1>4 DEF MirrorInv, MirrorSafe, ImportedOnce
    <2>3. OneFolderPerMonth'
        BY DEF MirrorInv, MirrorSafe, OneFolderPerMonth
    <2>4. NamesUnique'
        BY <1>1, <1>2, <1>3, <1>4 DEF MirrorInv, MirrorSafe, NamesUnique
    <2> QED BY <2>1, <2>2, <2>3, <2>4 DEF MirrorSafe
<1>7. Alone'
    BY DEF MirrorInv, Alone, Active, At, FolderOf, ArticleOf
<1>8. FolderAbsent'
    BY DEF MirrorInv, FolderAbsent, At, FolderOf, ArticleOf
<1>9. NameFree'
    <2> SUFFICES ASSUME NEW v \in Mirrors, (At(v, "upload") \/ At(v, "add"))',
                        FolderOf(v)' \notin together
                 PROVE  ~Repeated(ArticleOf(v))'
        BY DEF NameFree
    <2>1. /\ v # w /\ (At(v, "upload") \/ At(v, "add"))
          /\ FolderOf(v)' = FolderOf(v) /\ ArticleOf(v)' = ArticleOf(v)
        BY DEF At, FolderOf, ArticleOf
    <2>2. FolderOf(v) # FolderOf(w)
        BY <2>1 DEF MirrorInv, Alone, Active, At
    <2>3. ~Repeated(ArticleOf(v))
        BY <2>1 DEF MirrorInv, NameFree
    <2> QED BY <1>3, <2>1, <2>2, <2>3 DEF Repeated, FolderOf
<1>10. EntryAdded'
    <2>1. entries'[a] > 0
        BY <1>1, <1>2, <1>3
    <2> QED BY <1>1, <1>5, <2>1, ActiveHasArticle
            DEF MirrorInv, EntryAdded, At, ArticleOf, Active
<1> QED BY <1>6, <1>7, <1>8, <1>9, <1>10 DEF MirrorInv

\* A marker is put for an entry that is there.
LEMMA MarkerPut ==
    ASSUME MirrorInv, ImaTypeOK', NEW w \in Mirrors, At(w, "marker"),
           markers' = markers \cup {ArticleOf(w)},
           UNCHANGED <<folders, entries, together>>,
           \A v \in Mirrors \ {w} : mirroring'[v] = mirroring[v],
           mirroring'[w].phase = "idle",
           \A a \in Articles :
              result'[a] = "mirrored" => result[a] = "mirrored" \/ a = ArticleOf(w)
    PROVE  MirrorInv'
<1>1. entries[ArticleOf(w)] > 0
    BY DEF MirrorInv, EntryAdded
<1>2. MirrorSafe'
    BY <1>1 DEF MirrorInv, MirrorSafe, MirroredMeansImported, ImportedOnce,
                OneFolderPerMonth, NamesUnique
<1>3. Alone'
    BY DEF MirrorInv, Alone, Active, At, FolderOf, ArticleOf
<1>4. FolderAbsent'
    BY DEF MirrorInv, FolderAbsent, At, FolderOf, ArticleOf
<1>5. NameFree'
    BY DEF MirrorInv, NameFree, At, FolderOf, ArticleOf, Repeated
<1>6. EntryAdded'
    BY DEF MirrorInv, EntryAdded, At, ArticleOf
<1> QED BY <1>2, <1>3, <1>4, <1>5, <1>6 DEF MirrorInv

LEMMA MirrorStep ==
    ASSUME MirrorInv, [ImaNext]_imaVars
    PROVE  MirrorInv'
<1>0. ImaTypeOK /\ ImaTypeOK'
    BY MirrorTypesStep DEF MirrorInv
<1>1. CASE UNCHANGED imaVars
    <2>1. MirrorSafe'
        BY <1>1 DEF imaVars, MirrorInv, MirrorSafe, MirroredMeansImported,
                    ImportedOnce, OneFolderPerMonth, NamesUnique
    <2> QED BY <1>0, <1>1, <2>1
            DEF imaVars, MirrorInv, Alone, FolderAbsent, NameFree, EntryAdded,
                Active, At, FolderOf, ArticleOf, Repeated
<1>2. ASSUME NEW w \in Mirrors, NEW a \in Articles, Mirror(w, a)
      PROVE  MirrorInv'
    <2>1. CASE a \in markers
        <3>1. MirrorSafe'
            BY <1>0, <1>2, <2>1
            DEF Mirror, libraryVars, ImaTypeOK, MirrorInv, MirrorSafe,
                MirroredMeansImported, ImportedOnce, OneFolderPerMonth, NamesUnique
        <3> QED BY <1>0, <1>2, <2>1, <3>1
                DEF Mirror, libraryVars, MirrorInv, Alone, FolderAbsent, NameFree,
                    EntryAdded, Active, At, FolderOf, ArticleOf, Repeated
    <2>2. CASE a \notin markers
        <3>1. /\ mirroring' = [mirroring EXCEPT ![w] = [phase |-> "base", article |-> a]]
              /\ together' = IF AtWork(MonthOf[a]) = {} THEN together
                             ELSE together \cup {MonthOf[a]}
              /\ UNCHANGED <<folders, entries, markers, result>>
              /\ At(w, "idle")
            BY <1>2, <2>2 DEF Mirror, libraryVars
        <3>2. /\ mirroring'[w] = [phase |-> "base", article |-> a]
              /\ \A v \in Mirrors \ {w} : mirroring'[v] = mirroring[v]
              /\ together \subseteq together'
            BY <1>0, <3>1 DEF ImaTypeOK
        <3>3. \A v \in Mirrors : Active(v) /\ FolderOf(v) = MonthOf[a] =>
                 MonthOf[a] \in together'
            BY <3>1 DEF AtWork, Active
        <3>4. Alone'
            BY <3>2, <3>3 DEF MirrorInv, Alone, Active, At, FolderOf, ArticleOf
        <3>5. FolderAbsent'
            BY <3>1, <3>2 DEF MirrorInv, FolderAbsent, At, FolderOf, ArticleOf
        <3>6. NameFree'
            BY <3>1, <3>2 DEF MirrorInv, NameFree, At, FolderOf, ArticleOf, Repeated
        <3>7. EntryAdded'
            BY <3>1, <3>2 DEF MirrorInv, EntryAdded, At, ArticleOf
        <3>8. MirrorSafe'
            BY <3>1, <3>2 DEF MirrorInv, MirrorSafe, MirroredMeansImported,
                              ImportedOnce, OneFolderPerMonth, NamesUnique
        <3> QED BY <1>0, <3>4, <3>5, <3>6, <3>7, <3>8 DEF MirrorInv
    <2> QED BY <2>1, <2>2
<1>3. ASSUME NEW w \in Mirrors, FindUniqueKnowledgeBase(w)
      PROVE  MirrorInv'
    <2>1. Active(w) /\ UNCHANGED <<folders, entries, markers, together>>
        BY <1>3 DEF FindUniqueKnowledgeBase, At, Active, libraryVars
    <2>2. CASE GoOn(w, "folder") /\ UNCHANGED result
        <3>1. /\ mirroring'[w].phase = "folder" /\ mirroring'[w].article = ArticleOf(w)
              /\ \A v \in Mirrors \ {w} : mirroring'[v] = mirroring[v]
            BY <1>0, <2>1, <2>2, WentOn DEF MirrorPhases
        <3> QED BY <1>0, <2>1, <2>2, <3>1, LibraryUntouched
    <2>3. CASE Settle(w, "uncertain")
        BY <1>0, <2>1, <2>3, Settled, LibraryUntouched DEF AtRest
    <2> QED BY <1>3, <2>2, <2>3 DEF FindUniqueKnowledgeBase
<1>4. ASSUME NEW w \in Mirrors, FindUniqueMonthFolder(w)
      PROVE  MirrorInv'
    <2>1. Active(w) /\ UNCHANGED <<folders, entries, markers, together>>
        BY <1>4 DEF FindUniqueMonthFolder, At, Active, libraryVars
    <2>2. CASE GoOn(w, "check") /\ UNCHANGED result
        <3>1. /\ mirroring'[w].phase = "check" /\ mirroring'[w].article = ArticleOf(w)
              /\ \A v \in Mirrors \ {w} : mirroring'[v] = mirroring[v]
            BY <1>0, <2>1, <2>2, WentOn DEF MirrorPhases
        <3> QED BY <1>0, <2>1, <2>2, <3>1, LibraryUntouched
    <2>3. CASE GoOn(w, "create") /\ UNCHANGED result /\ Matches(w) = 0
        <3>1. /\ mirroring'[w].phase = "create" /\ mirroring'[w].article = ArticleOf(w)
              /\ \A v \in Mirrors \ {w} : mirroring'[v] = mirroring[v]
            BY <1>0, <2>1, <2>3, WentOn DEF MirrorPhases
        <3> QED BY <1>0, <2>1, <2>3, <3>1, LibraryUntouched
    <2>4. CASE Settle(w, "uncertain")
        BY <1>0, <2>1, <2>4, Settled, LibraryUntouched DEF AtRest
    <2> QED BY <1>4, <2>2, <2>3, <2>4 DEF FindUniqueMonthFolder
<1>5. ASSUME NEW w \in Mirrors, CreateFolder(w)
      PROVE  MirrorInv'
    <2>1. /\ Active(w) /\ At(w, "create") /\ GoOn(w, "relist")
          /\ UNCHANGED <<entries, markers, together, result>>
          /\ folders' = [folders EXCEPT ![FolderOf(w)] = @ + 1]
        BY <1>5 DEF CreateFolder, At, Active
    <2>2. /\ mirroring'[w].phase = "relist" /\ mirroring'[w].article = ArticleOf(w)
          /\ \A v \in Mirrors \ {w} : mirroring'[v] = mirroring[v]
        BY <1>0, <2>1, WentOn DEF MirrorPhases
    <2> QED BY <1>0, <2>1, <2>2, FolderCreated
<1>6. ASSUME NEW w \in Mirrors, CheckRepeatedNames(w)
      PROVE  MirrorInv'
    <2>1. Active(w) /\ UNCHANGED <<folders, entries, markers, together>>
        BY <1>6 DEF CheckRepeatedNames, At, Active, libraryVars
    <2>2. CASE GoOn(w, "upload") /\ UNCHANGED result /\ ~Repeated(ArticleOf(w))
        <3>1. /\ mirroring'[w].phase = "upload" /\ mirroring'[w].article = ArticleOf(w)
              /\ \A v \in Mirrors \ {w} : mirroring'[v] = mirroring[v]
            BY <1>0, <2>1, <2>2, WentOn DEF MirrorPhases
        <3> QED BY <1>0, <2>1, <2>2, <3>1, LibraryUntouched
    <2>3. CASE Settle(w, "uncertain")
        BY <1>0, <2>1, <2>3, Settled, LibraryUntouched DEF AtRest
    <2> QED BY <1>6, <2>2, <2>3 DEF CheckRepeatedNames
<1>7. ASSUME NEW w \in Mirrors, Upload(w)
      PROVE  MirrorInv'
    <2>1. /\ Active(w) /\ At(w, "upload") /\ GoOn(w, "add")
          /\ UNCHANGED <<folders, entries, markers, together, result>>
        BY <1>7 DEF Upload, At, Active, libraryVars
    <2>2. /\ mirroring'[w].phase = "add" /\ mirroring'[w].article = ArticleOf(w)
          /\ \A v \in Mirrors \ {w} : mirroring'[v] = mirroring[v]
        BY <1>0, <2>1, WentOn DEF MirrorPhases
    <2> QED BY <1>0, <2>1, <2>2, LibraryUntouched
<1>8. ASSUME NEW w \in Mirrors, AddKnowledge(w)
      PROVE  MirrorInv'
    <2>1. /\ Active(w) /\ At(w, "add") /\ GoOn(w, "marker")
          /\ UNCHANGED <<folders, markers, together, result>>
          /\ entries' = [entries EXCEPT ![ArticleOf(w)] = @ + 1]
        BY <1>8 DEF AddKnowledge, At, Active
    <2>2. /\ mirroring'[w].phase = "marker" /\ mirroring'[w].article = ArticleOf(w)
          /\ \A v \in Mirrors \ {w} : mirroring'[v] = mirroring[v]
        BY <1>0, <2>1, WentOn DEF MirrorPhases
    <2> QED BY <1>0, <2>1, <2>2, EntryMade
<1>9. ASSUME NEW w \in Mirrors, PutMarker(w)
      PROVE  MirrorInv'
    <2>1. /\ Active(w) /\ At(w, "marker") /\ Settle(w, "mirrored")
          /\ UNCHANGED <<folders, entries, together>>
          /\ markers' = markers \cup {ArticleOf(w)}
        BY <1>9 DEF PutMarker, At, Active, libraryVars
    <2> QED BY <1>0, <2>1, Settled, MarkerPut DEF AtRest
<1>10. ASSUME NEW w \in Mirrors, NEW done \in BOOLEAN, RequestFails(w, done)
       PROVE  MirrorInv'
    <2>1. Active(w) /\ Settle(w, "uncertain") /\ UNCHANGED together
        BY <1>10 DEF RequestFails, Active
    <2>2. /\ mirroring'[w].phase = "idle"
          /\ \A v \in Mirrors \ {w} : mirroring'[v] = mirroring[v]
          /\ \A b \in Articles : result'[b] = "mirrored" => result[b] = "mirrored"
        BY <1>0, <2>1, Settled DEF AtRest
    <2>3. CASE done /\ At(w, "create")
        BY <1>0, <1>10, <2>1, <2>2, <2>3, FolderCreated DEF RequestFails, At, FolderOf
    <2>4. CASE done /\ At(w, "add")
        BY <1>0, <1>10, <2>1, <2>2, <2>4, EntryMade DEF RequestFails, At
    <2>5. CASE done /\ At(w, "marker")
        BY <1>0, <1>10, <2>1, <2>2, <2>5, MarkerPut DEF RequestFails, At
    <2>6. CASE ~(done /\ (At(w, "create") \/ At(w, "add") \/ At(w, "marker")))
        <3>1. UNCHANGED <<folders, entries, markers>>
            BY <1>10, <2>6 DEF RequestFails
        <3> QED BY <1>0, <2>1, <2>2, <3>1, LibraryUntouched
    <2> QED BY <2>3, <2>4, <2>5, <2>6
<1>11. ASSUME NEW w \in Mirrors, WorkerCrash(w)
       PROVE  MirrorInv'
    <2>1. /\ UNCHANGED <<folders, entries, markers, together, result>>
          /\ mirroring' = [mirroring EXCEPT ![w] = AtRest]
        BY <1>11 DEF WorkerCrash, libraryVars
    <2>2. /\ mirroring'[w].phase = "idle"
          /\ \A v \in Mirrors \ {w} : mirroring'[v] = mirroring[v]
        BY <1>0, <2>1 DEF ImaTypeOK, AtRest
    <2> QED BY <1>0, <2>1, <2>2, LibraryUntouched
<1>12. CASE SecondBase
    <2>1. UNCHANGED <<folders, entries, markers, together, result, mirroring>>
        BY <1>12 DEF SecondBase
    <2>2. MirrorSafe'
        BY <2>1 DEF MirrorInv, MirrorSafe, MirroredMeansImported, ImportedOnce,
                    OneFolderPerMonth, NamesUnique
    <2> QED BY <1>0, <2>1, <2>2
            DEF MirrorInv, Alone, FolderAbsent, NameFree, EntryAdded, Active, At,
                FolderOf, ArticleOf, Repeated
<1> QED BY <1>1, <1>2, <1>3, <1>4, <1>5, <1>6, <1>7, <1>8, <1>9, <1>10,
           <1>11, <1>12 DEF ImaNext

\* The state of the mirror keeps its types.
THEOREM MirrorTypeCorrect == ImaSpec => []ImaTypeOK
<1>1. ImaInit => ImaTypeOK
    BY MirrorInit DEF MirrorInv
<1>2. ImaTypeOK /\ [ImaNext]_imaVars => ImaTypeOK'
    BY MirrorTypesStep
<1> QED BY <1>1, <1>2, PTL DEF ImaSpec

\* What is reported as mirrored, or skipped for its marker, is in the
\* knowledge base; with one worker at a time at a month it is there once,
\* under a name of its own, in the one folder of its month.
THEOREM MirrorCorrect == ImaSpec => []MirrorSafe
<1>1. ImaInit => MirrorInv
    BY MirrorInit
<1>2. MirrorInv /\ [ImaNext]_imaVars => MirrorInv'
    BY MirrorStep
<1>3. MirrorInv => MirrorSafe
    BY DEF MirrorInv
<1> QED BY <1>1, <1>2, <1>3, PTL DEF ImaSpec

-----------------------------------------------------------------------------
(***************************************************************************)
(* First claims on D1 exclude each other, for any number of workers,       *)
(* effects, job ids and writes: although the claim is decided on what was  *)
(* read before, the key of the table lets one of them in.                  *)
(***************************************************************************)

\* a worker that has a claim and has not written
Claimed(w, e) == claims[w].phase = "claimed" /\ claims[w].effect = e

\* as long as there is no row, nobody has ever got as far as a write
RowBeforeWork ==
    \A e \in Effects \ takenOver :
        effects[e].status = "absent" =>
            writes[e] = 0 /\ \A w \in Writers : ~Working(w, e)

\* who has claimed first finds nothing written
ClaimBeforeWrite ==
    \A e \in Effects \ takenOver :
        \A w \in Writers : Claimed(w, e) => writes[e] = 0

FirstInv ==
    /\ D1EffectTypeOK
    /\ RowBeforeWork
    /\ ClaimBeforeWrite
    /\ FirstClaimExclusive

\* A claim is of an effect, and whoever works has one.
LEMMA ClaimsHaveEffects ==
    ASSUME D1EffectTypeOK, NEW w \in Writers, claims[w].phase # "none"
    PROVE  claims[w].effect \in Effects
BY DEF D1EffectTypeOK, NoClaim

\* What a claim and a finish write into a row.
LEMMA RowRewritten ==
    ASSUME NEW r \in EffectRow, NEW s \in {"processing", "done", "uncertain", "failed"}
    PROVE  [r EXCEPT !.status = s, !.age = 0] = [status |-> s, job |-> r.job, age |-> 0]
<1> DEFINE q == [r EXCEPT !.status = s]
<1>1. q = [status |-> s, job |-> r.job, age |-> r.age]
    BY DEF EffectRow
<1>2. q \in EffectRow /\ q.status = s /\ q.job = r.job
    BY <1>1 DEF EffectRow
<1> HIDE DEF q
<1>3. [q EXCEPT !.age = 0] = [status |-> q.status, job |-> q.job, age |-> 0]
    BY <1>2 DEF EffectRow
<1> QED BY <1>2, <1>3 DEF q

LEMMA RowProcessing ==
    ASSUME D1EffectTypeOK, NEW e \in Effects
    PROVE  Processing(e) =
             [effects EXCEPT ![e] =
                [status |-> "processing", job |-> effects[e].job, age |-> 0]]
<1>1. effects[e] \in EffectRow
    BY DEF D1EffectTypeOK, EffectTypeOK
<1> QED BY <1>1, RowRewritten DEF Processing

LEMMA RowInserted ==
    ASSUME D1EffectTypeOK, NEW e \in Effects, NEW j \in JobIds
    PROVE  [Processing(e) EXCEPT ![e].job = j] =
             [effects EXCEPT ![e] =
                [status |-> "processing", job |-> j, age |-> 0]]
<1> DEFINE g   == Processing(e)
           new == [status |-> "processing", job |-> j, age |-> 0]
<1>1. effects \in [Effects -> EffectRow]
    BY DEF D1EffectTypeOK, EffectTypeOK
<1>2. /\ g[e] = [status |-> "processing", job |-> effects[e].job, age |-> 0]
      /\ g = [f \in Effects |-> g[f]]
      /\ \A f \in Effects \ {e} : g[f] = effects[f]
    BY <1>1, RowProcessing
<1> HIDE DEF g
<1>3. [g[e] EXCEPT !.job = j] = new
    BY <1>2
<1> HIDE DEF new
<1>4. [g EXCEPT ![e] = new] = [effects EXCEPT ![e] = new]
    BY <1>1, <1>2
<1>5. [g EXCEPT ![e].job = j] = [g EXCEPT ![e] = new]
    BY <1>3, Zenon
<1> QED BY <1>4, <1>5, Zenon DEF g, new

\* Rows and claims have their types in the beginning and after every step.
LEMMA FirstTypesInit == D1EffectInit => D1EffectTypeOK
BY D1EffectAssumption
   DEF D1EffectInit, EffectInit, D1EffectTypeOK, EffectTypeOK, EffectRow,
       NoEffect, NoClaim

LEMMA FirstTypesStep ==
    ASSUME D1EffectTypeOK, [D1EffectNext]_d1EffectVars
    PROVE  D1EffectTypeOK'
<1> USE D1EffectAssumption DEF D1EffectTypeOK, EffectTypeOK, EffectRow, NoClaim
<1>1. CASE UNCHANGED d1EffectVars
    BY <1>1 DEF d1EffectVars
<1>2. ASSUME NEW w \in Writers, NEW e \in Effects, ReadEffect(w, e)
      PROVE  D1EffectTypeOK'
    BY <1>2 DEF ReadEffect, EffectDone, EffectUncertain
<1>3. ASSUME NEW w \in Writers, NEW j \in JobIds, WriteClaim(w, j)
      PROVE  D1EffectTypeOK'
    <2>1. claims[w].effect \in Effects
        BY <1>3, ClaimsHaveEffects DEF WriteClaim
    <2>2. CASE FirstRefused(w)
        <3>1. /\ claims' = [claims EXCEPT ![w] = NoClaim]
              /\ effects' = effects /\ takenOver' = takenOver /\ writes' = writes
            BY <1>3, <2>2 DEF WriteClaim
        <3> QED BY <3>1
    <2>3. CASE ~FirstRefused(w)
        <3> DEFINE e   == claims[w].effect
                   row == [status |-> "processing",
                           job |-> IF claims[w].seen = "absent" THEN j
                                   ELSE effects[e].job,
                           age |-> 0]
        <3>1. /\ claims' = [claims EXCEPT ![w].phase = "claimed"]
              /\ claims[w].seen # "absent" => effects' = Processing(e)
              /\ takenOver' \in {takenOver, takenOver \cup {e}}
              /\ writes' = writes
            BY <1>3, <2>3 DEF WriteClaim
        <3>2. claims[w].seen = "absent" =>
                 effects' = [Processing(e) EXCEPT ![e].job = j]
            BY <1>3, <2>3 DEF WriteClaim
        <3>3. row \in EffectRow
            BY <2>1
        <3>4. Processing(e) = [effects EXCEPT ![e] =
                                 [status |-> "processing",
                                  job |-> effects[e].job, age |-> 0]]
            BY <2>1, RowProcessing
        <3>5. [Processing(e) EXCEPT ![e].job = j] =
                 [effects EXCEPT ![e] =
                    [status |-> "processing", job |-> j, age |-> 0]]
            BY <2>1, RowInserted
        <3>6. effects' = [effects EXCEPT ![e] = row]
            <4>1. CASE claims[w].seen = "absent"
                <5>1. effects' = [Processing(e) EXCEPT ![e].job = j]
                    BY <3>2, <4>1, Zenon
                <5>2. row = [status |-> "processing", job |-> j, age |-> 0]
                    BY <4>1
                <5> HIDE DEF row
                <5> QED BY <3>5, <5>1, <5>2, Zenon
            <4>2. CASE claims[w].seen # "absent"
                BY <3>1, <3>4, <4>2
            <4> QED BY <4>1, <4>2
        <3>7. EffectTypeOK'
            BY <3>3, <3>6
        <3>8. \A v \in Writers \ {w} : claims'[v] = claims[v]
            BY <3>1
        <3>9. claims'[w] = [phase |-> "claimed", effect |-> e, seen |-> claims[w].seen]
            BY <3>1
        <3> QED BY <2>1, <3>1, <3>7, <3>8, <3>9
    <2> QED BY <2>2, <2>3
<1>4. ASSUME NEW w \in Writers, NEW arrived \in BOOLEAN, Deliver(w, arrived)
      PROVE  D1EffectTypeOK'
    <2>1. claims[w].effect \in Effects
        BY <1>4, ClaimsHaveEffects DEF Deliver
    <2> QED BY <1>4, <2>1 DEF Deliver
<1>5. ASSUME NEW w \in Writers, NEW s \in {"done", "uncertain", "failed"},
             D1FinishEffect(w, s)
      PROVE  D1EffectTypeOK'
    <2>1. claims[w].effect \in Effects
        BY <1>5, ClaimsHaveEffects DEF D1FinishEffect
    <2> DEFINE e   == claims[w].effect
               row == [effects[e] EXCEPT !.status = s, !.age = 0]
    <2>2. /\ claims' = [claims EXCEPT ![w] = NoClaim]
          /\ effects' = [effects EXCEPT ![e] = row]
          /\ takenOver' = takenOver /\ writes' = writes
        BY <1>5 DEF D1FinishEffect, FinishEffect
    <2>3. effects[e] \in EffectRow
        BY <2>1
    <2>4. row = [status |-> s, job |-> effects[e].job, age |-> 0]
        BY <2>3, RowRewritten
    <2> HIDE DEF row
    <2>5. EffectTypeOK'
        BY <2>1, <2>2, <2>3, <2>4
    <2> QED BY <2>2, <2>5
<1>6. ASSUME NEW w \in Writers, CrashWriter(w)
      PROVE  D1EffectTypeOK'
    BY <1>6 DEF CrashWriter
<1>7. CASE AgeEffects
    <2> DEFINE Older(e) == IF effects[e].status = "processing" /\ effects[e].age <= Stale
                           THEN effects[e].age + 1 ELSE effects[e].age
               aged(e)  == [effects[e] EXCEPT !.age = Older(e)]
    <2>1. effects' = [e \in Effects |-> aged(e)]
        BY <1>7 DEF AgeEffects, EffectTick
    <2>2. ASSUME NEW e \in Effects PROVE aged(e) \in EffectRow
        <3>1. effects[e].age \in 0..(Stale + 1)
            OBVIOUS
        <3>2. Older(e) \in 0..(Stale + 1)
            BY <3>1
        <3>3. aged(e) = [status |-> effects[e].status, job |-> effects[e].job, age |-> Older(e)]
            OBVIOUS
        <3> HIDE DEF Older
        <3> QED BY <3>2, <3>3
    <2>3. EffectTypeOK'
        BY <2>1, <2>2
    <2> QED BY <1>7, <2>3 DEF AgeEffects
<1> QED BY <1>1, <1>2, <1>3, <1>4, <1>5, <1>6, <1>7 DEF D1EffectNext

\* The row that a claim writes exists from then on.
LEMMA FirstStep ==
    ASSUME FirstInv, [D1EffectNext]_d1EffectVars
    PROVE  FirstInv'
<1> USE DEF RowBeforeWork, ClaimBeforeWrite, FirstClaimExclusive, Claimed, Working
<1>0. D1EffectTypeOK /\ D1EffectTypeOK'
    BY FirstTypesStep DEF FirstInv
<1>1. CASE UNCHANGED d1EffectVars
    BY <1>0, <1>1 DEF d1EffectVars, FirstInv
<1>2. ASSUME NEW w \in Writers, NEW e \in Effects, ReadEffect(w, e)
      PROVE  FirstInv'
    BY <1>0, <1>2 DEF ReadEffect, FirstInv, D1EffectTypeOK
<1>3. ASSUME NEW w \in Writers, NEW j \in JobIds, WriteClaim(w, j)
      PROVE  FirstInv'
    <2>1. claims[w].effect \in Effects
        BY <1>0, <1>3, ClaimsHaveEffects DEF WriteClaim
    <2>2. CASE FirstRefused(w)
        BY <1>0, <1>3, <2>1, <2>2 DEF WriteClaim, FirstInv, D1EffectTypeOK, NoClaim
    <2>3. CASE ~FirstRefused(w) /\ claims[w].seen # "absent"
        <3>1. /\ claims' = [claims EXCEPT ![w].phase = "claimed"]
              /\ effects' = Processing(claims[w].effect)
              /\ takenOver' = takenOver \cup {claims[w].effect}
              /\ writes' = writes
            BY <1>3, <2>3 DEF WriteClaim
        <3> QED BY <1>0, <2>1, <3>1
                DEF Processing, FirstInv, D1EffectTypeOK, EffectTypeOK, EffectRow
    <2>4. CASE ~FirstRefused(w) /\ claims[w].seen = "absent"
        <3> DEFINE e == claims[w].effect
        <3>1. /\ claims' = [claims EXCEPT ![w].phase = "claimed"]
              /\ effects' = [Processing(e) EXCEPT ![e].job = j]
              /\ takenOver' = takenOver
              /\ writes' = writes
            BY <1>3, <2>4 DEF WriteClaim
        <3>2. effects[e].status = "absent"
            BY <2>4 DEF FirstRefused
        <3>3. /\ effects'[e].status = "processing"
              /\ \A f \in Effects \ {e} : effects'[f].status = effects[f].status
            BY <1>0, <2>1, <3>1
            DEF Processing, D1EffectTypeOK, EffectTypeOK, EffectRow
        <3>4. \A v \in Writers : claims'[v].effect = claims[v].effect
            BY <1>0, <3>1 DEF D1EffectTypeOK
        <3>5. claims'[w].phase = "claimed" /\ \A v \in Writers \ {w} : claims'[v] = claims[v]
            BY <1>0, <3>1 DEF D1EffectTypeOK
        <3>6. e \notin takenOver =>
                 writes[e] = 0 /\ \A v \in Writers : ~Working(v, e)
            BY <2>1, <3>2 DEF FirstInv
        <3>7. RowBeforeWork'
            BY <3>1, <3>3, <3>4, <3>5 DEF FirstInv
        <3>8. ClaimBeforeWrite'
            BY <3>1, <3>4, <3>5, <3>6 DEF FirstInv
        <3>9. FirstClaimExclusive'
            BY <3>1, <3>4, <3>5, <3>6 DEF FirstInv
        <3> QED BY <1>0, <3>7, <3>8, <3>9 DEF FirstInv
    <2> QED BY <2>2, <2>3, <2>4
<1>4. ASSUME NEW w \in Writers, NEW arrived \in BOOLEAN, Deliver(w, arrived)
      PROVE  FirstInv'
    <2> DEFINE e == claims[w].effect
    <2>1. e \in Effects
        BY <1>0, <1>4, ClaimsHaveEffects DEF Deliver
    <2>2. /\ claims' = [claims EXCEPT ![w].phase = "written"]
          /\ writes' = [writes EXCEPT ![e] = IF arrived THEN @ + 1 ELSE @]
          /\ effects' = effects /\ takenOver' = takenOver
        BY <1>4 DEF Deliver
    <2>3. claims'[w].phase = "written" /\ claims'[w].effect = e
        BY <1>0, <2>2 DEF D1EffectTypeOK
    <2>4. \A v \in Writers \ {w} : claims'[v] = claims[v]
        BY <1>0, <2>2 DEF D1EffectTypeOK
    <2>5. e \notin takenOver =>
             /\ writes[e] = 0
             /\ \A v \in Writers : Working(v, e) => v = w
             /\ effects[e].status # "absent"
        BY <1>4, <2>1 DEF Deliver, FirstInv
    <2>6. \A f \in Effects \ {e} : writes'[f] = writes[f]
        BY <1>0, <2>2 DEF D1EffectTypeOK
    <2>7. writes[e] = 0 => writes'[e] <= 1
        BY <1>0, <2>1, <2>2 DEF D1EffectTypeOK
    <2>8. RowBeforeWork'
        BY <2>2, <2>3, <2>4, <2>5, <2>6 DEF FirstInv
    <2>9. ClaimBeforeWrite'
        BY <2>2, <2>3, <2>4, <2>5, <2>6 DEF FirstInv
    <2>10. FirstClaimExclusive'
        BY <2>2, <2>3, <2>4, <2>5, <2>6, <2>7 DEF FirstInv
    <2> QED BY <1>0, <2>8, <2>9, <2>10 DEF FirstInv
<1>5. ASSUME NEW w \in Writers, NEW s \in {"done", "uncertain", "failed"},
             D1FinishEffect(w, s)
      PROVE  FirstInv'
    <2>1. claims[w].effect \in Effects
        BY <1>0, <1>5, ClaimsHaveEffects DEF D1FinishEffect
    <2> QED BY <1>0, <1>5, <2>1
            DEF D1FinishEffect, FinishEffect, FirstInv, D1EffectTypeOK,
                EffectTypeOK, EffectRow, NoClaim
<1>6. ASSUME NEW w \in Writers, CrashWriter(w)
      PROVE  FirstInv'
    BY <1>0, <1>6 DEF CrashWriter, FirstInv, D1EffectTypeOK, NoClaim
<1>7. CASE AgeEffects
    <2>1. \A e \in Effects : effects'[e].status = effects[e].status
        BY <1>0, <1>7 DEF AgeEffects, EffectTick, D1EffectTypeOK, EffectTypeOK, EffectRow
    <2> QED BY <1>0, <1>7, <2>1 DEF AgeEffects, FirstInv
<1> QED BY <1>1, <1>2, <1>3, <1>4, <1>5, <1>6, <1>7 DEF D1EffectNext

\* Rows, claims and writes have their types.
THEOREM D1EffectTypeCorrect == D1EffectSpec => []D1EffectTypeOK
<1>1. D1EffectInit => D1EffectTypeOK
    BY FirstTypesInit
<1>2. D1EffectTypeOK /\ [D1EffectNext]_d1EffectVars => D1EffectTypeOK'
    BY FirstTypesStep
<1> QED BY <1>1, <1>2, PTL DEF D1EffectSpec

\* Two workers that both found no row of an effect are never both at it, and
\* until a stale claim is taken over it is written at most once.
THEOREM FirstClaimSafe == D1EffectSpec => []FirstClaimExclusive
<1>1. D1EffectInit => FirstInv
    <2> SUFFICES ASSUME D1EffectInit PROVE FirstInv
        OBVIOUS
    <2>1. D1EffectTypeOK
        BY FirstTypesInit
    <2>2. \A w \in Writers : \A e \in Effects : ~Working(w, e) /\ ~Claimed(w, e)
        BY DEF D1EffectInit, NoClaim, Working, Claimed
    <2>3. \A e \in Effects : writes[e] = 0
        BY DEF D1EffectInit
    <2> QED BY <2>1, <2>2, <2>3
            DEF FirstInv, RowBeforeWork, ClaimBeforeWrite, FirstClaimExclusive
<1>2. FirstInv /\ [D1EffectNext]_d1EffectVars => FirstInv'
    BY FirstStep
<1>3. FirstInv => FirstClaimExclusive
    BY DEF FirstInv
<1> QED BY <1>1, <1>2, <1>3, PTL DEF D1EffectSpec

-----------------------------------------------------------------------------
(***************************************************************************)
(* The heartbeat cache, for any finite set of workers and any number of    *)
(* requests                                                                *)
(***************************************************************************)
Beats == {Never} \cup [worker : Beating, at : 1..(clock + MaxSkew)]

AskPhases == {"none", "upsert", "latest", "set", "get", "cached", "queried", "query"}

\* a heartbeat that is in the table, or was and has been replaced by a later one
Committed(rows, b) == b # Never => b.worker \in Beating /\ rows[b.worker] >= b.at

\* What a reader, or a writer after its upsert, carries was committed.
CarriedCommitted ==
    \A r \in Requests :
        /\ asks[r].phase \in {"set", "cached", "queried"} => Committed(beats, asks[r].beat)
        /\ Committed(beats, asks[r].latest)

HeartbeatShape ==
    /\ clock \in Nat \ {0}
    /\ beats \in [Beating -> 0..(clock + MaxSkew)]
    /\ cell \in [beat : Beats, lapses : 0..(clock + Ttl)]
    /\ asks \in [Requests ->
         [phase : AskPhases, beat : Beats, began : 0..clock, latest : Beats]]

HeartbeatInv == HeartbeatShape /\ CarriedCommitted /\ Committed(beats, cell.beat) /\ LivingSeen

\* Finitely many rows have a latest one.
LEMMA LatestOfSome ==
    ASSUME NEW S, IsFiniteSet(S), S # {},
           \A b \in S : b.at \in Nat /\ b.worker \in Nat
    PROVE  \E b \in S : \A c \in S : Later(b, c)
<1> DEFINE Bad == {T \in SUBSET S : T # {} /\ ~\E b \in T : \A c \in T : Later(b, c)}
<1>1. SUFFICES ASSUME Bad # {} PROVE FALSE
  <2>1. S \notin Bad  BY <1>1
  <2> QED  BY <2>1
<1>2. IsWellFoundedOn(StrictSubsetOrdering(S), FiniteSubsetsOf(S))
  BY FS_StrictSubsetOrderingWellFounded
<1>3. FiniteSubsetsOf(S) = SUBSET S  BY FS_FiniteSubsetsOfFinite
<1>4. PICK T \in Bad : \A U \in Bad : ~(<<U, T>> \in StrictSubsetOrdering(S))
  <2>1. Bad \subseteq FiniteSubsetsOf(S)  BY <1>3
  <2> HIDE DEF Bad
  <2> QED  BY <1>1, <1>2, <2>1, WFMin
<1>5. PICK b \in T : TRUE  BY <1>4
<1>6. T \ {b} \notin Bad
  <2>1. <<T \ {b}, T>> \in StrictSubsetOrdering(S)
    BY <1>4, <1>5 DEF StrictSubsetOrdering
  <2> HIDE DEF Bad
  <2> QED  BY <1>4, <2>1
<1>7. \A c \in T : c.at \in Nat /\ c.worker \in Nat  BY <1>4
<1>8. CASE T \ {b} = {}
  <2>1. T = {b} /\ Later(b, b)  BY <1>5, <1>7, <1>8 DEF Later
  <2> QED  BY <1>4, <2>1
<1>9. CASE T \ {b} # {}
  <2>1. PICK d \in T \ {b} : \A c \in T \ {b} : Later(d, c)
    BY <1>4, <1>6, <1>9
  <2>2. CASE Later(d, b)
    <3>1. \A c \in T : Later(d, c)  BY <2>1, <2>2
    <3> QED  BY <1>4, <2>1, <3>1
  <2>3. CASE ~Later(d, b)
    <3>1. \A c \in T : Later(b, c)
      <4>1. TAKE c \in T
      <4>2. CASE c = b  BY <1>7, <4>2 DEF Later
      <4>3. CASE c # b
        <5>1. Later(d, c)  BY <2>1, <4>3
        <5> QED  BY <1>5, <1>7, <2>1, <2>3, <5>1 DEF Later
      <4> QED  BY <4>2, <4>3
    <3> QED  BY <1>4, <1>5, <3>1
  <2> QED  BY <2>2, <2>3
<1> QED  BY <1>8, <1>9

LEMMA BeatFacts ==
    ASSUME HeartbeatShape
    PROVE  /\ clock \in Nat /\ MaxSkew \in Nat
           /\ \A b \in Beats : b.at \in Nat /\ b.worker \in Nat /\ b.at <= clock + MaxSkew
           /\ \A b \in Beats : b # Never => b.worker \in Beating /\ b.at >= 1
           /\ beats \in [Beating -> 0..(clock + MaxSkew)] /\ cell.beat \in Beats
           /\ \A r \in Requests : asks[r].beat \in Beats /\ asks[r].latest \in Beats
<1>1. clock \in Nat /\ MaxSkew \in Nat /\ Beating \subseteq Nat \ {0}
  BY HeartbeatAssumption DEF HeartbeatShape, Tolerated
<1>2. Never.at = 0 /\ Never.worker = 0  BY DEF Never
<1>3. \A b \in Beats : b.at \in Nat /\ b.worker \in Nat /\ b.at <= clock + MaxSkew
  <2>1. TAKE b \in Beats
  <2>2. CASE b = Never  BY <1>1, <1>2, <2>2
  <2>3. CASE b \in [worker : Beating, at : 1..(clock + MaxSkew)]
    <3>1. b.worker \in Beating /\ b.at \in 1..(clock + MaxSkew)  BY <2>3
    <3>2. b.worker \in Nat  BY <1>1, <3>1
    <3>3. PICK n \in 1..(clock + MaxSkew) : b.at = n  BY <3>1
    <3>4. n \in Nat /\ n <= clock + MaxSkew  BY <1>1
    <3> QED  BY <3>2, <3>3, <3>4
  <2> QED  BY <2>2, <2>3 DEF Beats
<1>4. \A b \in Beats : b # Never => b.worker \in Beating /\ b.at >= 1
  BY <1>1 DEF Beats
<1> QED  BY <1>1, <1>3, <1>4 DEF HeartbeatShape, Beats

\* The latest row is a row of the table, committed, and none is later.
LEMMA LatestFacts ==
    ASSUME HeartbeatShape, IsFiniteSet(Beating)
    PROVE  Latest \in Beats /\ Committed(beats, Latest) /\ \A b \in Rows : Later(Latest, b)
<1> DEFINE Alive == {v \in Beating : beats[v] > 0}
           Row(w) == [worker |-> w, at |-> beats[w]]
<1>1. Rows = {Never} \cup {Row(w) : w \in Alive}  BY DEF Rows
<1>2. Rows \subseteq Beats /\ \A b \in Rows : Committed(beats, b)
  <2>1. \A w \in Alive : Row(w) \in Beats /\ Committed(beats, Row(w))
    <3>1. TAKE w \in Alive
    <3>2. beats[w] \in 1..(clock + MaxSkew)  BY BeatFacts
    <3>3. Row(w).worker = w /\ Row(w).at = beats[w]  OBVIOUS
    <3> QED  BY <3>2, <3>3, BeatFacts DEF Beats, Committed
  <2>2. Never \in Beats /\ Committed(beats, Never)  BY DEF Beats, Committed
  <2> QED  BY <1>1, <2>1, <2>2
<1>3. IsFiniteSet(Rows) /\ Rows # {}
  <2>1. IsFiniteSet(Alive)  BY FS_Subset
  <2>2. IsFiniteSet({Row(w) : w \in Alive})
    <3> DEFINE f == [w \in Alive |-> Row(w)]
    <3>1. {Row(w) : w \in Alive} = {f[w] : w \in Alive}  OBVIOUS
    <3>2. f \in Surjection(Alive, {Row(w) : w \in Alive})
      BY DEF Surjection
    <3> HIDE DEF f, Alive
    <3> QED  BY <2>1, <3>2, FS_Surjection
  <2>3. IsFiniteSet({Never})  BY FS_Singleton
  <2> QED  BY <1>1, <2>2, <2>3, FS_Union
<1>4. \A b \in Rows : b.at \in Nat /\ b.worker \in Nat  BY <1>2, BeatFacts
<1>5. \E b \in Rows : \A c \in Rows : Later(b, c)  BY <1>3, <1>4, LatestOfSome
<1>6. Latest \in Rows /\ \A b \in Rows : Later(Latest, b)  BY <1>5 DEF Latest
<1> QED  BY <1>2, <1>6

\* The latest row is at least as late as anything that was ever committed.
LEMMA LatestIsLater ==
    ASSUME HeartbeatShape, IsFiniteSet(Beating), NEW b \in Beats, Committed(beats, b)
    PROVE  Later(Latest, b)
<1>1. Never \in Rows  BY DEF Rows
<1>2. CASE b = Never  BY <1>1, <1>2, LatestFacts
<1>3. CASE b # Never
  <2>1. b.worker \in Beating /\ b.at >= 1 /\ beats[b.worker] >= b.at
    BY <1>3, BeatFacts DEF Committed
  <2> DEFINE row == [worker |-> b.worker, at |-> beats[b.worker]]
  <2>2. beats[b.worker] \in Nat /\ b.at \in Nat /\ b.worker \in Nat  BY <2>1, BeatFacts
  <2>3. row \in Rows  BY <2>1, <2>2 DEF Rows
  <2>4. Later(Latest, row) /\ Latest \in Beats  BY <2>3, LatestFacts
  <2>5. Latest.at \in Nat /\ Latest.worker \in Nat  BY <2>4, BeatFacts
  <2> QED  BY <2>1, <2>2, <2>4, <2>5 DEF Later
<1> QED  BY <1>2, <1>3

LEMMA HeartbeatTypes ==
    ASSUME HeartbeatShape, IsFiniteSet(Beating), HeartbeatNext
    PROVE  HeartbeatShape'
<1> USE BeatFacts
<1>1. /\ clock \in Nat \ {0} /\ MaxSkew \in 0..Tolerated
      /\ Beating \subseteq Nat \ {0} /\ Never \in Beats
  BY HeartbeatAssumption DEF HeartbeatShape, Beats
<1> DEFINE Ask == [phase : AskPhases, beat : Beats, began : 0..clock, latest : Beats]
<1>2. /\ beats \in [Beating -> 0..(clock + MaxSkew)] /\ asks \in [Requests -> Ask]
      /\ cell \in [beat : Beats, lapses : 0..(clock + Ttl)]
  BY DEF HeartbeatShape, AskPhases
<1>3. ASSUME NEW r \in Requests, NEW ask \in Ask, asks' = [asks EXCEPT ![r] = ask],
             UNCHANGED <<clock, beats, cell>>
      PROVE  HeartbeatShape'
  <2>1. asks' \in [Requests -> Ask]  BY <1>2, <1>3
  <2>2. Beats' = Beats  BY <1>3 DEF Beats
  <2>3. clock' = clock /\ beats' = beats /\ cell' = cell  BY <1>3
  <2> QED  BY <1>1, <1>2, <2>1, <2>2, <2>3 DEF HeartbeatShape
<1>4. \A r \in Requests : asks[r] \in Ask  BY <1>2
<1>5. NoAsk \in Ask  BY <1>1 DEF NoAsk, AskPhases
<1>6. Latest \in Beats  BY LatestFacts
<1>7. Cached \in Beats  BY <1>1 DEF Cached
<1>8. ASSUME NEW r \in Requests, NEW w \in Beating, NEW skew \in 0..MaxSkew, Beat(r, w, skew)
      PROVE  HeartbeatShape'
  <2>1. [worker |-> w, at |-> clock + skew] \in Beats  BY <1>1 DEF Beats, Tolerated
  <2>2. [NoAsk EXCEPT !.phase = "upsert", !.beat = [worker |-> w, at |-> clock + skew]] \in Ask
    BY <1>5, <2>1 DEF AskPhases
  <2> HIDE DEF Ask
  <2> QED  BY <1>3, <1>8, <2>2 DEF Beat
<1>9. ASSUME NEW r \in Requests, SelectLatest(r)
      PROVE  HeartbeatShape'
  <2>1. [NoAsk EXCEPT !.phase = "set", !.beat = Latest] \in Ask
    BY <1>5, <1>6 DEF AskPhases
  <2> HIDE DEF Ask
  <2> QED  BY <1>3, <1>5, <1>9, <2>1 DEF SelectLatest
<1>10. ASSUME NEW r \in Requests, Read(r)
       PROVE  HeartbeatShape'
  <2>1. [phase |-> "get", beat |-> Never, began |-> clock, latest |-> Latest] \in Ask
    BY <1>1, <1>6 DEF AskPhases
  <2> HIDE DEF Ask
  <2> QED  BY <1>3, <1>10, <2>1 DEF Read
<1>11. ASSUME NEW r \in Requests, Query(r)
       PROVE  HeartbeatShape'
  <2>1. [asks[r] EXCEPT !.phase = "queried", !.beat = Latest] \in Ask
    BY <1>4, <1>6 DEF AskPhases
  <2>2. asks' = [asks EXCEPT ![r] = [asks[r] EXCEPT !.phase = "queried", !.beat = Latest]]
    BY <1>2, <1>11 DEF Query
  <2>3. UNCHANGED <<clock, beats, cell>>  BY <1>11 DEF Query
  <2> HIDE DEF Ask
  <2> QED  BY <1>3, <2>1, <2>2, <2>3
<1>12. ASSUME NEW r \in Requests, Answer(r)
       PROVE  HeartbeatShape'
  <2>1. [NoAsk EXCEPT !.phase = "set", !.beat = asks[r].beat] \in Ask
    BY <1>4, <1>5 DEF AskPhases
  <2> HIDE DEF Ask
  <2> QED  BY <1>3, <1>5, <1>12, <2>1 DEF Answer
<1>13. ASSUME NEW r \in Requests, NEW lost \in BOOLEAN, Get(r, lost)
       PROVE  HeartbeatShape'
  <2>1. /\ [asks[r] EXCEPT !.phase = "cached", !.beat = Cached] \in Ask
        /\ [asks[r] EXCEPT !.phase = "query"] \in Ask
    BY <1>4, <1>7 DEF AskPhases
  <2> HIDE DEF Ask
  <2> QED  BY <1>3, <1>13, <2>1 DEF Get
<1>14. ASSUME NEW r \in Requests, Upsert(r)
       PROVE  HeartbeatShape'
  <2>1. [asks[r] EXCEPT !.phase = "latest"] \in Ask  BY <1>4 DEF AskPhases
  <2>2. asks' \in [Requests -> Ask]  BY <1>2, <1>14, <2>1 DEF Upsert
  <2>3. beats' \in [Beating -> 0..(clock + MaxSkew)]
    <3>1. asks[r].beat.at \in 0..(clock + MaxSkew)  BY <1>4
    <3> QED  BY <1>2, <1>14, <3>1 DEF Upsert
  <2> QED  BY <1>1, <1>2, <1>14, <2>2, <2>3 DEF Upsert, HeartbeatShape, Beats, AskPhases
<1>15. ASSUME NEW r \in Requests, NEW lost \in BOOLEAN, SetIfNewer(r, lost)
       PROVE  HeartbeatShape'
  <2>1. asks' \in [Requests -> Ask]  BY <1>2, <1>5, <1>15 DEF SetIfNewer
  <2>2. cell' \in [beat : Beats, lapses : 0..(clock + Ttl)]
    BY <1>1, <1>2, <1>4, <1>15 DEF SetIfNewer, Ttl
  <2> QED  BY <1>1, <1>2, <1>15, <2>1, <2>2 DEF SetIfNewer, HeartbeatShape, Beats, AskPhases
<1>16. CASE ClockTick
  <2>1. clock' = clock + 1 /\ clock' \in Nat \ {0} /\ UNCHANGED <<beats, cell, asks>>
    BY <1>1, <1>16 DEF ClockTick
  <2>2. Beats \subseteq Beats'  BY <1>1, <2>1 DEF Beats, Tolerated
  <2>3. beats \in [Beating -> 0..(clock' + MaxSkew)]
    <3>1. 0..(clock + MaxSkew) \subseteq 0..(clock' + MaxSkew)  BY <1>1, <2>1
    <3> QED  BY <1>2, <3>1
  <2>4. cell \in [beat : Beats', lapses : 0..(clock' + Ttl)]
    BY <1>1, <1>2, <2>1, <2>2 DEF Ttl
  <2>5. asks \in [Requests -> [phase : AskPhases, beat : Beats', began : 0..clock',
                               latest : Beats']]
    <3>1. 0..clock \subseteq 0..clock'  BY <1>1, <2>1
    <3> QED  BY <1>2, <2>2, <3>1
  <2> QED  BY <2>1, <2>3, <2>4, <2>5 DEF HeartbeatShape, AskPhases
<1> QED
  BY <1>8, <1>9, <1>10, <1>11, <1>12, <1>13, <1>14, <1>15, <1>16 DEF HeartbeatNext

\* What was committed stays committed: a row never goes back.
LEMMA RowsGrow ==
    ASSUME HeartbeatShape, HeartbeatNext
    PROVE  \A w \in Beating : beats[w] \in Nat /\ beats'[w] \in Nat /\ beats'[w] >= beats[w]
<1>1. beats \in [Beating -> 0..(clock + MaxSkew)] /\ clock \in Nat /\ MaxSkew \in Nat
  BY BeatFacts
<1>2. ASSUME NEW r \in Requests, Upsert(r)
      PROVE  \A w \in Beating : beats'[w] \in Nat /\ beats'[w] >= beats[w]
  <2>1. asks[r].beat.at \in Nat  BY BeatFacts
  <2> QED  BY <1>1, <1>2, <2>1 DEF Upsert
<1>3. beats' = beats \/ \E r \in Requests : Upsert(r)
  BY DEF HeartbeatNext, Beat, SelectLatest, SetIfNewer, Read, Get, Query, Answer, ClockTick
<1> QED  BY <1>1, <1>2, <1>3

LEMMA StaysCommitted ==
    ASSUME HeartbeatShape, HeartbeatNext, NEW b \in Beats, Committed(beats, b)
    PROVE  Committed(beats', b)
<1>1. CASE b = Never  BY <1>1 DEF Committed
<1>2. CASE b # Never
  <2>1. b.worker \in Beating /\ b.at \in Nat /\ beats[b.worker] >= b.at
    BY <1>2, BeatFacts DEF Committed
  <2> QED  BY <2>1, RowsGrow DEF Committed
<1> QED  BY <1>1, <1>2

\* What a step puts into a request was committed, and what it tells a reader
\* is young enough, or as late as the latest.
LEMMA AskedOfRows ==
    ASSUME HeartbeatInv, IsFiniteSet(Beating), NEW r \in Requests, NEW ask,
           asks' = [asks EXCEPT ![r] = ask], HeartbeatNext,
           ask.phase \in {"set", "cached", "queried"} => Committed(beats', ask.beat),
           Committed(beats', ask.latest),
           ask.phase \in {"cached", "queried"} =>
              \/ ask.beat.at + Ttl >= ask.began
              \/ Later(ask.beat, ask.latest)
    PROVE  CarriedCommitted' /\ LivingSeen'
<1>1. asks'[r] = ask /\ \A q \in Requests : q # r => asks'[q] = asks[q]
  BY DEF HeartbeatInv, HeartbeatShape
<1>2. \A q \in Requests :
         /\ asks[q].phase \in {"set", "cached", "queried"} => Committed(beats', asks[q].beat)
         /\ Committed(beats', asks[q].latest)
  BY StaysCommitted, BeatFacts DEF HeartbeatInv, CarriedCommitted
<1>3. ASSUME NEW q \in Requests
      PROVE  /\ asks'[q].phase \in {"set", "cached", "queried"} => Committed(beats', asks'[q].beat)
             /\ Committed(beats', asks'[q].latest)
             /\ asks'[q].phase \in {"cached", "queried"} =>
                   \/ asks'[q].beat.at + Ttl >= asks'[q].began
                   \/ Later(asks'[q].beat, asks'[q].latest)
  <2>1. CASE q = r  BY <1>1, <2>1
  <2>2. CASE q # r
    BY <1>1, <1>2, <2>2 DEF HeartbeatInv, LivingSeen
  <2> QED  BY <2>1, <2>2
<1> QED  BY <1>3 DEF CarriedCommitted, LivingSeen

\* What the cache answers is what it holds, or nothing.
LEMMA CachedFacts ==
    ASSUME HeartbeatInv PROVE Cached \in Beats /\ Committed(beats, Cached)
<1>1. Never \in Beats /\ Committed(beats, Never)  BY DEF Beats, Committed
<1> QED  BY <1>1, BeatFacts DEF HeartbeatInv, Cached

\* Only a request that carries a later heartbeat writes the cell.
LEMMA CellWritten ==
    ASSUME HeartbeatNext
    PROVE  \/ cell' = cell
           \/ \E r \in Requests : /\ asks[r].phase = "set" /\ cell'.beat = asks[r].beat
                                 /\ Later(asks[r].beat, Cached)
<1>1. cell' = cell \/ \E r \in Requests, lost \in BOOLEAN : SetIfNewer(r, lost)
  BY DEF HeartbeatNext, Beat, Upsert, SelectLatest, Read, Get, Query, Answer, ClockTick
<1>2. ASSUME NEW r \in Requests, NEW lost \in BOOLEAN, SetIfNewer(r, lost), cell' # cell
      PROVE  /\ asks[r].phase = "set" /\ cell'.beat = asks[r].beat
             /\ Later(asks[r].beat, Cached)
  <2>1. cell' = [beat |-> asks[r].beat, lapses |-> clock + Ttl]
    BY <1>2 DEF SetIfNewer
  <2> QED  BY <1>2, <2>1 DEF SetIfNewer
<1> QED  BY <1>1, <1>2

LEMMA FreshIsYoung ==
    ASSUME NEW b, NEW at, Fresh(b, at) PROVE b.at + Ttl >= at
BY DEF Fresh

LEMMA HeartbeatStep ==
    ASSUME IsFiniteSet(Beating), HeartbeatInv, HeartbeatNext
    PROVE  HeartbeatInv'
<1>1. HeartbeatShape /\ HeartbeatShape'  BY HeartbeatTypes DEF HeartbeatInv
<1>2. /\ Latest \in Beats /\ Committed(beats', Latest)
      /\ Cached \in Beats /\ Committed(beats', Cached)
      /\ Never \in Beats /\ Committed(beats', Never)
  BY <1>1, LatestFacts, CachedFacts, StaysCommitted DEF Beats, Committed
<1>3. \A r \in Requests :
         /\ asks[r].phase \in {"set", "cached", "queried"} => Committed(beats', asks[r].beat)
         /\ Committed(beats', asks[r].latest)
         /\ asks[r].beat \in Beats /\ asks[r].latest \in Beats
  BY <1>1, StaysCommitted, BeatFacts DEF HeartbeatInv, CarriedCommitted
<1>4. NoAsk.phase = "none" /\ NoAsk.latest = Never  BY DEF NoAsk
<1>5. \A r \in Requests : asks[r] \in [phase : AskPhases, beat : Beats, began : 0..clock,
                                       latest : Beats]
  BY <1>1 DEF HeartbeatShape, AskPhases
<1>6. Committed(beats', cell'.beat)
  <2>1. Committed(beats', cell.beat)
    BY <1>1, StaysCommitted, BeatFacts DEF HeartbeatInv
  <2>2. cell' = cell \/ \E r \in Requests : asks[r].phase = "set" /\ cell'.beat = asks[r].beat
    BY CellWritten
  <2> QED  BY <1>3, <2>1, <2>2
<1>7. CarriedCommitted' /\ LivingSeen'
  <2>1. ASSUME NEW r \in Requests, NEW w \in Beating, NEW skew \in 0..MaxSkew,
               Beat(r, w, skew)
        PROVE  CarriedCommitted' /\ LivingSeen'
    <3> DEFINE ask == [NoAsk EXCEPT !.phase = "upsert",
                                    !.beat = [worker |-> w, at |-> clock + skew]]
    <3>1. asks' = [asks EXCEPT ![r] = ask]  BY <2>1 DEF Beat
    <3>2. ask.phase = "upsert" /\ ask.latest = Never  BY <1>4 DEF NoAsk
    <3> HIDE DEF ask
    <3> QED  BY <1>2, <3>1, <3>2, AskedOfRows
  <2>2. ASSUME NEW r \in Requests, Upsert(r)
        PROVE  CarriedCommitted' /\ LivingSeen'
    <3> DEFINE ask == [asks[r] EXCEPT !.phase = "latest"]
    <3>1. asks' = [asks EXCEPT ![r] = ask]
      BY <1>1, <2>2 DEF Upsert, HeartbeatShape
    <3>2. ask.phase = "latest" /\ ask.latest = asks[r].latest  BY <1>5
    <3> HIDE DEF ask
    <3> QED  BY <1>3, <3>1, <3>2, AskedOfRows
  <2>3. ASSUME NEW r \in Requests, SelectLatest(r)
        PROVE  CarriedCommitted' /\ LivingSeen'
    <3>1. PICK ask : /\ asks' = [asks EXCEPT ![r] = ask]
                     /\ ask \in {[NoAsk EXCEPT !.phase = "set", !.beat = Latest], NoAsk}
      BY <2>3 DEF SelectLatest
    <3>2. /\ ask.latest = Never /\ ask.phase \in {"none", "set"}
          /\ ask.phase = "set" => ask.beat = Latest
      BY <1>4, <3>1 DEF NoAsk
    <3>3. Committed(beats', ask.latest) /\ (ask.phase = "set" => Committed(beats', ask.beat))
      BY <1>2, <3>2
    <3> QED  BY <3>1, <3>2, <3>3, AskedOfRows
  <2>4. ASSUME NEW r \in Requests, NEW lost \in BOOLEAN, SetIfNewer(r, lost)
        PROVE  CarriedCommitted' /\ LivingSeen'
    <3>1. asks' = [asks EXCEPT ![r] = NoAsk]  BY <2>4 DEF SetIfNewer
    <3> QED  BY <1>2, <1>4, <3>1, AskedOfRows
  <2>5. ASSUME NEW r \in Requests, Read(r)
        PROVE  CarriedCommitted' /\ LivingSeen'
    <3> DEFINE ask == [phase |-> "get", beat |-> Never, began |-> clock, latest |-> Latest]
    <3>1. asks' = [asks EXCEPT ![r] = ask]  BY <2>5 DEF Read
    <3>2. ask.phase = "get" /\ ask.latest = Latest  OBVIOUS
    <3> HIDE DEF ask
    <3> QED  BY <1>2, <3>1, <3>2, AskedOfRows
  <2>6. ASSUME NEW r \in Requests, NEW lost \in BOOLEAN, Get(r, lost)
        PROVE  CarriedCommitted' /\ LivingSeen'
    <3>1. CASE ~lost /\ Fresh(Cached, asks[r].began)
      <4> DEFINE ask == [asks[r] EXCEPT !.phase = "cached", !.beat = Cached]
      <4>1. asks' = [asks EXCEPT ![r] = ask]
        BY <1>1, <2>6, <3>1 DEF Get, HeartbeatShape
      <4>2. /\ ask.phase = "cached" /\ ask.beat = Cached /\ ask.latest = asks[r].latest
            /\ ask.began = asks[r].began
        BY <1>5
      <4>3. ask.beat.at + Ttl >= ask.began  BY <3>1, <4>2, FreshIsYoung
      <4> HIDE DEF ask
      <4> QED  BY <1>2, <1>3, <4>1, <4>2, <4>3, AskedOfRows
    <3>2. CASE ~(~lost /\ Fresh(Cached, asks[r].began))
      <4> DEFINE ask == [asks[r] EXCEPT !.phase = "query"]
      <4>1. asks' = [asks EXCEPT ![r] = ask]
        BY <1>1, <2>6, <3>2 DEF Get, HeartbeatShape
      <4>2. ask.phase = "query" /\ ask.latest = asks[r].latest  BY <1>5
      <4> HIDE DEF ask
      <4> QED  BY <1>3, <4>1, <4>2, AskedOfRows
    <3> QED  BY <3>1, <3>2
  <2>7. ASSUME NEW r \in Requests, Query(r)
        PROVE  CarriedCommitted' /\ LivingSeen'
    <3> DEFINE ask == [asks[r] EXCEPT !.phase = "queried", !.beat = Latest]
    <3>1. asks' = [asks EXCEPT ![r] = ask]
      BY <1>1, <2>7 DEF Query, HeartbeatShape
    <3>2. /\ ask.phase = "queried" /\ ask.beat = Latest /\ ask.latest = asks[r].latest
      BY <1>5
    <3>3. Later(Latest, asks[r].latest)
      BY <1>1, <1>3, LatestIsLater DEF HeartbeatInv, CarriedCommitted
    <3> HIDE DEF ask
    <3>4. Later(ask.beat, ask.latest)  BY <3>2, <3>3
    <3> QED  BY <1>2, <1>3, <3>1, <3>2, <3>4, AskedOfRows
  <2>8. ASSUME NEW r \in Requests, Answer(r)
        PROVE  CarriedCommitted' /\ LivingSeen'
    <3>1. PICK ask : /\ asks' = [asks EXCEPT ![r] = ask]
                     /\ ask \in {[NoAsk EXCEPT !.phase = "set", !.beat = asks[r].beat], NoAsk}
      BY <2>8 DEF Answer
    <3>2. /\ ask.latest = Never /\ ask.phase \in {"none", "set"}
          /\ ask.phase = "set" => ask.beat = asks[r].beat
      BY <1>4, <3>1 DEF NoAsk
    <3>3. Committed(beats', asks[r].beat)  BY <1>3, <2>8 DEF Answer
    <3>4. Committed(beats', ask.latest) /\ (ask.phase = "set" => Committed(beats', ask.beat))
      BY <1>2, <3>2, <3>3
    <3> QED  BY <3>1, <3>2, <3>4, AskedOfRows
  <2>9. CASE ClockTick
    BY <1>1, <2>9 DEF ClockTick, HeartbeatInv, CarriedCommitted, LivingSeen, Committed, Later
  <2> QED  BY <2>1, <2>2, <2>3, <2>4, <2>5, <2>6, <2>7, <2>8, <2>9 DEF HeartbeatNext
<1> QED  BY <1>1, <1>6, <1>7 DEF HeartbeatInv

\* A row and the cell only go forward.
LEMMA NothingGoesBack ==
    ASSUME HeartbeatInv, [HeartbeatNext]_heartbeatVars
    PROVE  /\ \A w \in Beating : beats'[w] >= beats[w]
           /\ Cached # Never => Later(cell'.beat, cell.beat)
<1>1. HeartbeatShape  BY DEF HeartbeatInv
<1>2. \A w \in Beating : beats'[w] >= beats[w]
  <2>1. CASE HeartbeatNext  BY <1>1, <2>1, RowsGrow
  <2>2. CASE UNCHANGED heartbeatVars
    <3>1. \A w \in Beating : beats[w] \in Nat  BY <1>1, BeatFacts
    <3> QED  BY <2>2, <3>1 DEF heartbeatVars
  <2> QED  BY <2>1, <2>2
<1>3. Later(cell.beat, cell.beat)  BY <1>1, BeatFacts DEF Later
<1>4. \/ cell' = cell
      \/ \E r \in Requests : Later(asks[r].beat, Cached) /\ cell'.beat = asks[r].beat
  BY CellWritten DEF heartbeatVars
<1>5. Cached # Never => Cached = cell.beat  BY DEF Cached
<1> QED  BY <1>2, <1>3, <1>4, <1>5

LEMMA HeartbeatFirst == HeartbeatInit => HeartbeatInv
<1> SUFFICES ASSUME HeartbeatInit PROVE HeartbeatInv  OBVIOUS
<1>1. MaxSkew \in 0..Tolerated  BY HeartbeatAssumption
<1>2. Never \in Beats  BY DEF Beats
<1>3. NoAsk \in [phase : AskPhases, beat : Beats, began : 0..clock, latest : Beats]
  BY <1>2 DEF HeartbeatInit, NoAsk, AskPhases
<1>4. HeartbeatShape
  BY <1>1, <1>2, <1>3 DEF HeartbeatInit, HeartbeatShape, Ttl, Tolerated
<1>5. Committed(beats, Never) /\ NoAsk.phase = "none" /\ NoAsk.latest = Never
  BY DEF Committed, NoAsk
<1> QED
  BY <1>4, <1>5 DEF HeartbeatInit, HeartbeatInv, CarriedCommitted, LivingSeen

LEMMA HeartbeatKept ==
    ASSUME IsFiniteSet(Beating), HeartbeatInv, [HeartbeatNext]_heartbeatVars
    PROVE  HeartbeatInv'
<1>1. CASE HeartbeatNext  BY <1>1, HeartbeatStep
<1>2. CASE UNCHANGED heartbeatVars
  BY <1>2 DEF heartbeatVars, HeartbeatInv, HeartbeatShape, Beats, CarriedCommitted,
              Committed, LivingSeen, Later
<1> QED  BY <1>1, <1>2

\* For any finite set of workers, any requests, losses and delays: the cache
\* holds what was committed, tells no reader of a dead worker what there is a
\* living one for, and neither it nor a row goes back to an older heartbeat
\* (heartbeat-cache.ts, recordHeartbeat).
THEOREM CacheIsSafe ==
    ASSUME IsFiniteSet(Beating)
    PROVE  HeartbeatSpec => CacheSafe
<1>1. HeartbeatInit => HeartbeatInv  BY HeartbeatFirst
<1>2. HeartbeatInv /\ [HeartbeatNext]_heartbeatVars => HeartbeatInv'
  BY HeartbeatKept
<1>3. HeartbeatInv => LivingSeen /\ CacheIsCommitted
  BY DEF HeartbeatInv, Committed, CacheIsCommitted
<1>4. HeartbeatInv /\ [HeartbeatNext]_heartbeatVars
      => [/\ \A w \in Beating : beats'[w] >= beats[w]
          /\ Cached # Never => Later(cell'.beat, cell.beat)]_heartbeatVars
  BY NothingGoesBack
<1> QED  BY <1>1, <1>2, <1>3, <1>4, PTL DEF HeartbeatSpec, CacheSafe, NeverBack

\* For any finite set of workers: no heartbeat, in the table, in the cache or
\* under way, is from later than the clock and its skew, and none lapses later
\* than its time to live.
THEOREM HeartbeatTypeCorrect ==
    ASSUME IsFiniteSet(Beating)
    PROVE  HeartbeatSpec => []HeartbeatTypeOK
<1> DEFINE Inv == HeartbeatInv /\ clock <= MaxClock
<1>1. HeartbeatInit => Inv  BY HeartbeatFirst, HeartbeatAssumption DEF HeartbeatInit
<1>2. Inv /\ [HeartbeatNext]_heartbeatVars => Inv'
  <2> SUFFICES ASSUME Inv, [HeartbeatNext]_heartbeatVars PROVE (clock <= MaxClock)'
    BY HeartbeatKept
  <2>1. clock \in Nat /\ MaxClock \in Nat
    BY HeartbeatAssumption DEF HeartbeatInv, HeartbeatShape
  <2>2. CASE ClockTick  BY <2>1, <2>2 DEF ClockTick
  <2>3. CASE clock' = clock  BY <2>3
  <2> QED
    BY <2>2, <2>3 DEF HeartbeatNext, heartbeatVars, Beat, Upsert, SelectLatest, Read,
                      Query, Answer, SetIfNewer, Get
<1>3. Inv => HeartbeatTypeOK
  BY HeartbeatAssumption
     DEF HeartbeatInv, HeartbeatShape, HeartbeatTypeOK, Beats, AskPhases
<1> QED  BY <1>1, <1>2, <1>3, PTL DEF HeartbeatSpec

-----------------------------------------------------------------------------
(***************************************************************************)
(* The candidate alerts, for any policies and number of captures, on       *)
(* either backend                                                          *)
(***************************************************************************)
AlertStates == {"none", "pending", "firing", "recovered"}
AlertRow    == [state : AlertStates, first : Nat, evaluated : Nat, since : Nat]

CaptureRow  == [phase : {"none", "measured", "prune", "sampled", "read"}, at : Nat,
                seen : [Policies -> {"none", "fine", "breach"}],
                read : [Policies -> AlertRow]]

AlertsShape ==
    /\ backend \in {"postgres", "d1"} /\ tick \in Nat \ {0}
    /\ alerts \in [Policies -> AlertRow]
    /\ captures \in [Captures -> CaptureRow]

\* D1 samples before it reads; PostgreSQL does both at once
PhasesOfBackend ==
    \A c \in Captures :
        /\ captures[c].phase \in {"sampled", "read"} => backend = "d1"
        /\ captures[c].at <= tick

\* A capture evaluates at a time whose sample is kept, or pruned by its age.
SampleKept(at) == at \in samples \/ at + Keep < tick

SampledFirst ==
    \A c \in Captures : captures[c].phase \in {"sampled", "read"} => SampleKept(captures[c].at)

\* A row that is pending, or firing, has its event, also while a capture holds
\* a copy of it.
RowHasEvent(p, row) ==
    /\ row.state = "pending" =>
          [policy |-> p, state |-> "pending", at |-> row.evaluated] \in events
    /\ row.state = "firing" => \E d \in events : d.policy = p /\ d.state = "firing"

RowsHaveEvents ==
    /\ \A p \in Policies : RowHasEvent(p, alerts[p])
    /\ \A c \in Captures, p \in Policies :
          captures[c].phase = "read" => RowHasEvent(p, captures[c].read[p])

AlertsInv ==
    /\ AlertsShape /\ PhasesOfBackend /\ SampledFirst /\ RowsHaveEvents
    /\ StateHasEvent /\ EvaluatedOnSample /\ FiredAfterPending

\* evaluateThreshold: only a pending alert begins to fire, only a firing one
\* recovers.
LEMMA ThresholdFacts ==
    ASSUME NEW state \in AlertStates, NEW breached \in BOOLEAN
    PROVE  LET next == EvaluateThreshold(state, breached) IN
           /\ next \in AlertStates
           /\ next = "pending" => state \in {"none", "recovered"}
           /\ next = "firing" => state \in {"pending", "firing"}
           /\ next = "recovered" => state = "firing"
           /\ state = "firing" => next \in {"firing", "recovered"}
BY DEF EvaluateThreshold, AlertStates

LEMMA WrittenFacts ==
    ASSUME NEW row \in AlertRow, NEW state \in AlertStates, NEW at \in Nat
    PROVE  LET new == Written(row, state, at) IN
           /\ new \in AlertRow /\ new.state = state
           /\ state = "none" => new.evaluated = 0
           /\ state # "none" => new.evaluated = at
           /\ state # "none" => new.since = IF row.state # state THEN at ELSE row.since
<1>1. NoAlert \in AlertRow /\ NoAlert.state = "none" /\ NoAlert.evaluated = 0
  BY DEF NoAlert, AlertRow, AlertStates
<1>2. CASE state = "none"  BY <1>1, <1>2 DEF Written
<1>3. CASE state # "none"
  <2>1. Written(row, state, at) =
           [state |-> state, evaluated |-> at,
            first |-> IF \/ row.state = "none"
                         \/ row.state = "recovered" /\ state = "pending"
                      THEN at ELSE row.first,
            since |-> IF row.state # state THEN at ELSE row.since]
    BY <1>3, Zenon DEF Written
  <2>2. PICK first \in Nat :
           first = (IF \/ row.state = "none"
                       \/ row.state = "recovered" /\ state = "pending"
                    THEN at ELSE row.first)
    BY DEF AlertRow
  <2>3. PICK since \in Nat : since = (IF row.state # state THEN at ELSE row.since)
    BY DEF AlertRow
  <2>4. Written(row, state, at) = [state |-> state, evaluated |-> at, first |-> first,
                                   since |-> since]
    BY <2>1, <2>2, <2>3
  <2>5. Written(row, state, at) \in AlertRow  BY <2>4 DEF AlertRow
  <2> QED  BY <1>3, <2>3, <2>4, <2>5
<1> QED  BY <1>2, <1>3

NextState(seen, previous, p) == EvaluateThreshold(previous[p].state, seen[p] = "breach")

LEMMA NextStateFacts ==
    ASSUME NEW seen, NEW previous \in [Policies -> AlertRow], NEW p \in Policies
    PROVE  /\ NextState(seen, previous, p) \in AlertStates
           /\ NextState(seen, previous, p) = "pending" =>
                 previous[p].state \in {"none", "recovered"}
           /\ NextState(seen, previous, p) = "firing" =>
                 previous[p].state \in {"pending", "firing"}
           /\ NextState(seen, previous, p) = "recovered" => previous[p].state = "firing"
           /\ previous[p].state = "firing" =>
                 NextState(seen, previous, p) \in {"firing", "recovered"}
<1>1. PICK breached \in BOOLEAN : breached = (seen[p] = "breach")  OBVIOUS
<1>2. previous[p].state \in AlertStates  BY DEF AlertRow
<1>3. NextState(seen, previous, p) = EvaluateThreshold(previous[p].state, breached)
  BY <1>1 DEF NextState
<1> QED  BY <1>2, <1>3, ThresholdFacts

\* What persisting a capture does to one policy: nothing, or the row and the
\* event of its next state.
LEMMA PersistFacts ==
    ASSUME AlertsShape, NEW seen, NEW previous \in [Policies -> AlertRow], NEW at \in Nat,
           Persist(seen, previous, at)
    PROVE  /\ alerts' \in [Policies -> AlertRow]
           /\ \A p \in Policies :
                 \/ alerts'[p] = alerts[p]
                 \/ /\ previous[p].evaluated # at
                    /\ alerts'[p] = Written(alerts[p], NextState(seen, previous, p), at)
                    /\ NextState(seen, previous, p) \notin {"none", previous[p].state} =>
                          [policy |-> p, state |-> NextState(seen, previous, p), at |-> at]
                             \in events'
           /\ events \subseteq events'
           /\ \A e \in events' \ events :
                 \E p \in Policies :
                    /\ e = [policy |-> p, state |-> NextState(seen, previous, p), at |-> at]
                    /\ previous[p].evaluated # at
                    /\ NextState(seen, previous, p) \notin {"none", previous[p].state}
<1> DEFINE next(p) == NextState(seen, previous, p)
<1>1. \A p \in Policies : alerts[p] \in AlertRow /\ next(p) \in AlertStates
  BY NextStateFacts DEF AlertsShape
<1> HIDE DEF next
<1>2. \A p \in Policies : Written(alerts[p], next(p), at) \in AlertRow
  BY <1>1, WrittenFacts
<1>3. /\ alerts' = [p \in Policies |->
                      IF p \in Evaluated(seen, previous, at)
                      THEN Written(alerts[p], next(p), at) ELSE alerts[p]]
      /\ events' = events \cup
            {[policy |-> p, state |-> next(p), at |-> at] :
               p \in {q \in Evaluated(seen, previous, at) :
                        next(q) \notin {"none", previous[q].state}}}
  BY DEF Persist, next, NextState
<1>4. alerts' \in [Policies -> AlertRow]  BY <1>1, <1>2, <1>3
<1>5. \A p \in Policies :
         \/ alerts'[p] = alerts[p]
         \/ /\ previous[p].evaluated # at
            /\ alerts'[p] = Written(alerts[p], next(p), at)
            /\ next(p) \notin {"none", previous[p].state} =>
                  [policy |-> p, state |-> next(p), at |-> at] \in events'
  BY <1>3 DEF Evaluated
<1>6. \A e \in events' \ events :
         \E p \in Policies :
            /\ e = [policy |-> p, state |-> next(p), at |-> at]
            /\ previous[p].evaluated # at
            /\ next(p) \notin {"none", previous[p].state}
  BY <1>3 DEF Evaluated
<1> QED  BY <1>3, <1>4, <1>5, <1>6 DEF next

\* The rows that are written have their events, and no event comes without
\* the one it follows.
LEMMA PersistKeeps ==
    ASSUME AlertsInv, NEW seen, NEW previous \in [Policies -> AlertRow], NEW at \in Nat,
           Persist(seen, previous, at),
           \A p \in Policies : RowHasEvent(p, previous[p])
    PROVE  /\ alerts' \in [Policies -> AlertRow] /\ events \subseteq events'
           /\ \A p \in Policies : RowHasEvent(p, alerts[p])'
           /\ FiredAfterPending'
           /\ \A p \in Policies :
                 \/ alerts'[p].evaluated = alerts[p].evaluated
                 \/ alerts'[p].evaluated \in {0, at}
<1>0. AlertsShape  BY DEF AlertsInv
<1>1. /\ alerts' \in [Policies -> AlertRow] /\ events \subseteq events'
      /\ \A p \in Policies :
            \/ alerts'[p] = alerts[p]
            \/ /\ previous[p].evaluated # at
               /\ alerts'[p] = Written(alerts[p], NextState(seen, previous, p), at)
               /\ NextState(seen, previous, p) \notin {"none", previous[p].state} =>
                     [policy |-> p, state |-> NextState(seen, previous, p), at |-> at] \in events'
      /\ \A e \in events' \ events :
            \E p \in Policies :
               /\ e = [policy |-> p, state |-> NextState(seen, previous, p), at |-> at]
               /\ previous[p].evaluated # at
               /\ NextState(seen, previous, p) \notin {"none", previous[p].state}
  BY <1>0, PersistFacts
<1>2. \A p \in Policies :
         /\ previous[p].state \in AlertStates /\ alerts[p] \in AlertRow
         /\ NextState(seen, previous, p) \in AlertStates
         /\ NextState(seen, previous, p) = "pending" => previous[p].state \in {"none", "recovered"}
         /\ NextState(seen, previous, p) = "firing" => previous[p].state \in {"pending", "firing"}
         /\ NextState(seen, previous, p) = "recovered" => previous[p].state = "firing"
  BY <1>0, NextStateFacts DEF AlertsShape, AlertRow
<1>3. \A p \in Policies :
         LET new == Written(alerts[p], NextState(seen, previous, p), at) IN
         /\ new.state = NextState(seen, previous, p)
         /\ NextState(seen, previous, p) = "none" => new.evaluated = 0
         /\ NextState(seen, previous, p) # "none" => new.evaluated = at
  BY <1>2, WrittenFacts
<1>4. ASSUME NEW p \in Policies
      PROVE  /\ RowHasEvent(p, alerts[p])'
             /\ \/ alerts'[p].evaluated = alerts[p].evaluated
                \/ alerts'[p].evaluated \in {0, at}
  <2>1. CASE alerts'[p] = alerts[p]
    <3>1. RowHasEvent(p, alerts[p])  BY DEF AlertsInv, RowsHaveEvents
    <3> QED  BY <1>1, <2>1, <3>1 DEF RowHasEvent
  <2>2. CASE /\ alerts'[p] = Written(alerts[p], NextState(seen, previous, p), at)
             /\ NextState(seen, previous, p) \notin {"none", previous[p].state} =>
                   [policy |-> p, state |-> NextState(seen, previous, p), at |-> at] \in events'
    <3>1. /\ alerts'[p].state = NextState(seen, previous, p)
          /\ NextState(seen, previous, p) = "none" => alerts'[p].evaluated = 0
          /\ NextState(seen, previous, p) # "none" => alerts'[p].evaluated = at
      BY <1>3, <2>2
    <3>2. ASSUME NextState(seen, previous, p) = "pending"
          PROVE  [policy |-> p, state |-> "pending", at |-> alerts'[p].evaluated] \in events'
      BY <1>2, <2>2, <3>1, <3>2
    <3>3. ASSUME NextState(seen, previous, p) = "firing"
          PROVE  \E d \in events' : d.policy = p /\ d.state = "firing"
      <4>1. CASE previous[p].state = "firing"
        <5>1. \E d \in events : d.policy = p /\ d.state = "firing"
          BY <4>1 DEF RowHasEvent
        <5> QED  BY <1>1, <5>1
      <4>2. CASE previous[p].state = "pending"
        <5> DEFINE d == [policy |-> p, state |-> "firing", at |-> at]
        <5>1. d \in events' /\ d.policy = p /\ d.state = "firing"  BY <2>2, <3>3, <4>2
        <5> QED  BY <5>1
      <4> QED  BY <1>2, <3>3, <4>1, <4>2
    <3> QED  BY <3>1, <3>2, <3>3 DEF RowHasEvent
  <2> QED  BY <1>1, <2>1, <2>2
<1>5. FiredAfterPending'
  <2> SUFFICES ASSUME NEW e \in events'
               PROVE  /\ e.state = "firing" =>
                           \E d \in events' :
                              d.policy = e.policy /\ d.state = "pending" /\ d.at # e.at
                      /\ e.state = "recovered" =>
                           \E d \in events' : d.policy = e.policy /\ d.state = "firing"
    BY DEF FiredAfterPending
  <2>1. CASE e \in events
    <3>1. FiredAfterPending  BY DEF AlertsInv
    <3> QED  BY <1>1, <2>1, <3>1 DEF FiredAfterPending
  <2>2. CASE e \notin events
    <3>1. PICK p \in Policies :
             /\ e = [policy |-> p, state |-> NextState(seen, previous, p), at |-> at]
             /\ previous[p].evaluated # at
             /\ NextState(seen, previous, p) \notin {"none", previous[p].state}
      BY <1>1, <2>2
    <3>2. e.policy = p /\ e.state = NextState(seen, previous, p) /\ e.at = at  BY <3>1
    <3>3. ASSUME NextState(seen, previous, p) = "firing"
          PROVE  \E d \in events' : d.policy = p /\ d.state = "pending" /\ d.at # at
      <4> DEFINE d == [policy |-> p, state |-> "pending", at |-> previous[p].evaluated]
      <4>1. previous[p].state = "pending"  BY <1>2, <3>1, <3>3
      <4>2. d \in events'  BY <1>1, <4>1 DEF RowHasEvent
      <4>3. d.policy = p /\ d.state = "pending" /\ d.at # at  BY <3>1
      <4> HIDE DEF d
      <4> QED  BY <4>2, <4>3
    <3>4. ASSUME NextState(seen, previous, p) = "recovered"
          PROVE  \E d \in events' : d.policy = p /\ d.state = "firing"
      <4>1. previous[p].state = "firing"  BY <1>2, <3>4
      <4> QED  BY <1>1, <4>1 DEF RowHasEvent
    <3> QED  BY <3>2, <3>3, <3>4
  <2> QED  BY <2>1, <2>2
<1> QED  BY <1>1, <1>4, <1>5

\* A step that writes no alert keeps the invariant when it forgets no sample
\* that is not aged, and copies only what the alerts say.
LEMMA QuietKeeps ==
    ASSUME AlertsAssumption, AlertsInv, AlertsShape',
           backend' = backend, alerts' = alerts, events' = events, tick <= tick',
           \A at \in Nat : SampleKept(at) => at \in samples' \/ at + Keep < tick',
           \A c \in Captures :
              /\ captures'[c].at <= tick'
              /\ captures'[c].phase \in {"sampled", "read"} =>
                    /\ backend = "d1"
                    /\ captures'[c].at \in samples' \/ captures'[c].at + Keep < tick'
              /\ captures'[c].phase = "read" =>
                    \/ captures'[c].read = alerts
                    \/ captures[c].phase = "read" /\ captures'[c].read = captures[c].read
    PROVE  AlertsInv'
<1>1. PhasesOfBackend' /\ SampledFirst'  BY DEF PhasesOfBackend, SampledFirst, SampleKept
<1>2. RowsHaveEvents'
  <2>1. \A p \in Policies : RowHasEvent(p, alerts[p])'
    BY DEF AlertsInv, RowsHaveEvents, RowHasEvent
  <2>2. ASSUME NEW c \in Captures, NEW p \in Policies, captures'[c].phase = "read"
        PROVE  RowHasEvent(p, captures[c].read[p])'
    <3>1. CASE captures'[c].read = alerts
      BY <3>1 DEF AlertsInv, RowsHaveEvents, RowHasEvent
    <3>2. CASE captures[c].phase = "read" /\ captures'[c].read = captures[c].read
      BY <3>2 DEF AlertsInv, RowsHaveEvents, RowHasEvent
    <3> QED  BY <2>2, <3>1, <3>2
  <2> QED  BY <2>1, <2>2 DEF RowsHaveEvents
<1>3. StateHasEvent' /\ FiredAfterPending'
  BY DEF AlertsInv, StateHasEvent, FiredAfterPending
<1>4. EvaluatedOnSample'
  <2> SUFFICES ASSUME NEW p \in Policies, alerts[p].evaluated # 0
               PROVE  alerts[p].evaluated \in samples' \/ alerts[p].evaluated + Keep < tick'
    BY DEF EvaluatedOnSample
  <2>1. alerts[p].evaluated \in Nat  BY DEF AlertsInv, AlertsShape, AlertRow
  <2>2. SampleKept(alerts[p].evaluated)
    BY DEF AlertsInv, EvaluatedOnSample, SampleKept
  <2> QED  BY <2>1, <2>2
<1> QED  BY <1>1, <1>2, <1>3, <1>4 DEF AlertsInv

LEMMA NoCaptureRow ==
    /\ NoCapture \in CaptureRow /\ NoCapture.phase = "none" /\ NoCapture.at = 0
    /\ [p \in Policies |-> NoAlert] \in [Policies -> AlertRow]
BY DEF NoCapture, CaptureRow, NoAlert, AlertRow, AlertStates

\* Persisting a capture keeps the invariant, whoever persists it and whatever
\* copy of the alerts it decides on, when the sample is there.
LEMMA PersistedKeeps ==
    ASSUME AlertsAssumption, AlertsInv, NEW c \in Captures,
           NEW previous \in [Policies -> AlertRow],
           Persist(captures[c].seen, previous, captures[c].at),
           \A p \in Policies : RowHasEvent(p, previous[p]),
           backend = "postgres" => previous = alerts,
           captures[c].at \in samples' \/ captures[c].at + Keep < tick,
           samples \subseteq samples', backend' = backend, tick' = tick,
           NEW mine \in CaptureRow, mine.phase \notin {"sampled", "read"}, mine.at <= tick,
           captures' = [captures EXCEPT ![c] = mine]
    PROVE  AlertsInv'
<1> DEFINE at   == captures[c].at
           seen == captures[c].seen
<1>1. AlertsShape /\ at \in Nat /\ tick \in Nat /\ Keep \in Nat
  BY DEF AlertsInv, AlertsShape, CaptureRow, AlertsAssumption
<1>2. /\ alerts' \in [Policies -> AlertRow] /\ events \subseteq events'
      /\ \A p \in Policies : RowHasEvent(p, alerts[p])'
      /\ FiredAfterPending'
      /\ \A p \in Policies : \/ alerts'[p].evaluated = alerts[p].evaluated
                             \/ alerts'[p].evaluated \in {0, at}
  BY <1>1, PersistKeeps
<1>11. \A p \in Policies :
          \/ alerts'[p] = alerts[p]
          \/ /\ previous[p].evaluated # at
             /\ alerts'[p] = Written(alerts[p], NextState(seen, previous, p), at)
             /\ NextState(seen, previous, p) \notin {"none", previous[p].state} =>
                   [policy |-> p, state |-> NextState(seen, previous, p), at |-> at]
                      \in events'
  BY <1>1, PersistFacts
<1>3. captures' \in [Captures -> CaptureRow]  BY <1>1 DEF AlertsShape
<1>4. AlertsShape'  BY <1>1, <1>2, <1>3 DEF AlertsShape
<1>5. \A d \in Captures : captures'[d] = IF d = c THEN mine ELSE captures[d]
  BY <1>1 DEF AlertsShape
<1>6. PhasesOfBackend'  BY <1>5 DEF AlertsInv, PhasesOfBackend
<1>7. SampledFirst'  BY <1>5 DEF AlertsInv, SampledFirst, SampleKept
<1>8. RowsHaveEvents'
  <2> SUFFICES ASSUME NEW d \in Captures, NEW p \in Policies, captures'[d].phase = "read"
               PROVE  RowHasEvent(p, captures[d].read[p])'
    BY <1>2 DEF RowsHaveEvents
  <2>1. d # c /\ captures'[d] = captures[d]  BY <1>5
  <2>2. RowHasEvent(p, captures[d].read[p])  BY <2>1 DEF AlertsInv, RowsHaveEvents
  <2> QED  BY <1>2, <2>1, <2>2 DEF RowHasEvent
<1>9. EvaluatedOnSample'
  <2> SUFFICES ASSUME NEW p \in Policies, alerts'[p].evaluated # 0
               PROVE  alerts'[p].evaluated \in samples' \/ alerts'[p].evaluated + Keep < tick
    BY DEF EvaluatedOnSample
  <2>1. CASE alerts'[p].evaluated = alerts[p].evaluated
    BY <2>1 DEF AlertsInv, EvaluatedOnSample
  <2>2. CASE alerts'[p].evaluated \in {0, at}  BY <2>2
  <2> QED  BY <1>2, <2>1, <2>2
<1>10. StateHasEvent'
  <2> SUFFICES ASSUME NEW p \in Policies, backend = "postgres", alerts'[p].state # "none"
               PROVE  [policy |-> p, state |-> alerts'[p].state, at |-> alerts'[p].since]
                         \in events'
    BY DEF StateHasEvent
  <2>1. CASE alerts'[p] = alerts[p]  BY <1>2, <2>1 DEF AlertsInv, StateHasEvent
  <2>2. CASE alerts'[p] # alerts[p]
    <3> DEFINE next == NextState(seen, previous, p)
    <3>1. /\ alerts'[p] = Written(alerts[p], next, at)
          /\ next \notin {"none", previous[p].state} =>
                [policy |-> p, state |-> next, at |-> at] \in events'
      BY <1>11, <2>2
    <3>2. alerts[p] \in AlertRow /\ next \in AlertStates
      BY <1>1, NextStateFacts DEF AlertsShape
    <3> HIDE DEF next
    <3>3. /\ alerts'[p].state = next
          /\ next # "none" =>
                alerts'[p].since = IF alerts[p].state # next THEN at ELSE alerts[p].since
      BY <1>1, <3>1, <3>2, WrittenFacts
    <3>4. CASE alerts[p].state = next
      <4>1. [policy |-> p, state |-> alerts[p].state, at |-> alerts[p].since] \in events
        BY <3>3, <3>4 DEF AlertsInv, StateHasEvent
      <4> QED  BY <1>2, <3>3, <3>4, <4>1
    <3>5. CASE alerts[p].state # next  BY <3>1, <3>3, <3>5
    <3> QED  BY <3>4, <3>5
  <2> QED  BY <2>1, <2>2
<1> QED  BY <1>2, <1>4, <1>6, <1>7, <1>8, <1>9, <1>10 DEF AlertsInv

LEMMA AlertsStep ==
    ASSUME AlertsAssumption, AlertsInv, [AlertsNext]_alertVars
    PROVE  AlertsInv'
<1> USE DEF alertVars
<1>0. /\ AlertsShape /\ PhasesOfBackend /\ SampledFirst /\ RowsHaveEvents
      /\ tick \in Nat \ {0} /\ Keep \in Nat
  BY DEF AlertsInv, AlertsShape, AlertsAssumption
<1>00. \A c \in Captures :
          /\ captures[c] \in CaptureRow /\ captures[c].at \in Nat /\ captures[c].at <= tick
          /\ captures[c].phase \in {"sampled", "read"} =>
                backend = "d1" /\ SampleKept(captures[c].at)
  BY <1>0 DEF AlertsShape, CaptureRow, PhasesOfBackend, SampledFirst
<1>1. CASE UNCHANGED alertVars
  <2>1. AlertsShape'  BY <1>0, <1>1 DEF AlertsShape
  <2> QED  BY <1>0, <1>00, <1>1, <2>1, QuietKeeps DEF SampleKept
<1>2. CASE NextWindow
  <2>1. AlertsShape'  BY <1>0, <1>2 DEF AlertsShape, NextWindow
  <2>2. tick <= tick' /\ \A at \in Nat : at + Keep < tick => at + Keep < tick'
    BY <1>0, <1>2 DEF NextWindow
  <2>3. \A c \in Captures : captures'[c] = captures[c] /\ captures[c].at <= tick'
    BY <1>0, <1>00, <1>2 DEF NextWindow
  <2> QED  BY <1>00, <1>2, <2>1, <2>2, <2>3, QuietKeeps DEF NextWindow, SampleKept
<1>3. ASSUME NEW c \in Captures, Measure(c) PROVE AlertsInv'
  <2>1. PICK seen \in [Policies -> {"none", "fine", "breach"}] :
           captures' = [captures EXCEPT ![c] =
                          [NoCapture EXCEPT !.phase = "measured", !.at = tick, !.seen = seen]]
    BY <1>3 DEF Measure
  <2> DEFINE mine == [NoCapture EXCEPT !.phase = "measured", !.at = tick, !.seen = seen]
  <2>2. mine \in CaptureRow /\ mine.phase = "measured" /\ mine.at = tick
    BY <1>0, NoCaptureRow DEF CaptureRow
  <2> HIDE DEF mine
  <2>3. captures' = [captures EXCEPT ![c] = mine]  BY <2>1 DEF mine
  <2>4. UNCHANGED <<backend, tick, alerts, events, samples>>  BY <1>3 DEF Measure
  <2>5. AlertsShape'  BY <1>0, <2>2, <2>3, <2>4 DEF AlertsShape
  <2>6. \A d \in Captures : captures'[d] = IF d = c THEN mine ELSE captures[d]
    BY <1>0, <2>3 DEF AlertsShape
  <2>7. \A d \in Captures :
           /\ captures'[d].at <= tick
           /\ captures'[d].phase \in {"sampled", "read"} => captures'[d] = captures[d]
    BY <1>0, <1>00, <2>2, <2>6
  <2> QED  BY <1>0, <1>00, <2>4, <2>5, <2>7, QuietKeeps DEF SampleKept
<1>4. ASSUME NEW c \in Captures, CommitCapture(c) PROVE AlertsInv'
  <2> DEFINE mine == [NoCapture EXCEPT !.phase = "prune", !.at = captures[c].at]
  <2>1. mine \in CaptureRow /\ mine.phase = "prune" /\ mine.at = captures[c].at
    BY <1>00, NoCaptureRow DEF CaptureRow
  <2> HIDE DEF mine
  <2>2. captures' = [captures EXCEPT ![c] = mine]  BY <1>4 DEF CommitCapture, mine
  <2>3. /\ Persist(captures[c].seen, alerts, captures[c].at)
        /\ samples' = samples \cup {captures[c].at} /\ UNCHANGED <<backend, tick>>
    BY <1>4 DEF CommitCapture
  <2>4. alerts \in [Policies -> AlertRow] /\ \A p \in Policies : RowHasEvent(p, alerts[p])
    BY <1>0 DEF AlertsShape, RowsHaveEvents
  <2> QED  BY <1>00, <2>1, <2>2, <2>3, <2>4, PersistedKeeps
<1>5. ASSUME NEW c \in Captures, PruneSamples(c) PROVE AlertsInv'
  <2>1. PICK some \in SUBSET {at \in Instants : Aged(at, captures[c].at)} :
           samples' = samples \ some
    BY <1>5 DEF PruneSamples
  <2>2. \A at \in Nat : at \in some => at + Keep < tick
    <3> SUFFICES ASSUME NEW at \in Nat, at \in some PROVE at + Keep < tick  OBVIOUS
    <3>1. at + Keep < captures[c].at  BY <2>1 DEF Aged
    <3> QED  BY <1>0, <1>00, <3>1
  <2>3. UNCHANGED <<backend, tick, alerts, events>>  BY <1>5 DEF PruneSamples
  <2>4. \A d \in Captures : captures'[d] = IF d = c THEN NoCapture ELSE captures[d]
    BY <1>0, <1>5 DEF AlertsShape, PruneSamples
  <2>5. AlertsShape'
    BY <1>0, <1>5, <2>3, NoCaptureRow DEF AlertsShape, PruneSamples
  <2>6. \A at \in Nat : SampleKept(at) => at \in samples' \/ at + Keep < tick
    BY <2>1, <2>2 DEF SampleKept
  <2>7. \A d \in Captures :
           /\ captures'[d].at <= tick
           /\ captures'[d].phase \in {"sampled", "read"} => captures'[d] = captures[d]
    BY <1>0, <1>00, <2>4, NoCaptureRow
  <2> QED  BY <1>0, <1>00, <2>3, <2>5, <2>6, <2>7, QuietKeeps
<1>6. ASSUME NEW c \in Captures, D1Sample(c) PROVE AlertsInv'
  <2> DEFINE mine == [captures[c] EXCEPT !.phase = "sampled"]
  <2>1. mine \in CaptureRow /\ mine.phase = "sampled" /\ mine.at = captures[c].at
    BY <1>00 DEF CaptureRow
  <2> HIDE DEF mine
  <2>2. captures' = [captures EXCEPT ![c] = mine]  BY <1>6 DEF D1Sample, mine
  <2>3. /\ UNCHANGED <<backend, tick, alerts, events>> /\ backend = "d1"
        /\ samples' = samples \cup {captures[c].at}
    BY <1>6 DEF D1Sample
  <2>4. \A d \in Captures : captures'[d] = IF d = c THEN mine ELSE captures[d]
    BY <1>0, <2>2 DEF AlertsShape
  <2>5. AlertsShape'  BY <1>0, <2>1, <2>2, <2>3 DEF AlertsShape
  <2>6. \A d \in Captures :
           /\ captures'[d].at <= tick
           /\ captures'[d].phase \in {"sampled", "read"} =>
                 /\ captures'[d].at \in samples' \/ captures'[d].at + Keep < tick
                 /\ captures'[d].phase = "read" =>
                       captures[d].phase = "read" /\ captures'[d].read = captures[d].read
    BY <1>00, <2>1, <2>3, <2>4 DEF SampleKept
  <2> QED  BY <1>0, <2>3, <2>5, <2>6, QuietKeeps DEF SampleKept
<1>7. ASSUME NEW c \in Captures, D1ReadAlerts(c) PROVE AlertsInv'
  <2> DEFINE mine == [captures[c] EXCEPT !.phase = "read", !.read = alerts]
  <2>1. /\ mine \in CaptureRow /\ mine.phase = "read" /\ mine.at = captures[c].at
        /\ mine.read = alerts
    BY <1>0, <1>00 DEF CaptureRow, AlertsShape
  <2> HIDE DEF mine
  <2>2. captures' = [captures EXCEPT ![c] = mine]  BY <1>7 DEF D1ReadAlerts, mine
  <2>3. UNCHANGED <<backend, tick, alerts, events, samples>> /\ captures[c].phase = "sampled"
    BY <1>7 DEF D1ReadAlerts
  <2>4. \A d \in Captures : captures'[d] = IF d = c THEN mine ELSE captures[d]
    BY <1>0, <2>2 DEF AlertsShape
  <2>5. AlertsShape'  BY <1>0, <2>1, <2>2, <2>3 DEF AlertsShape
  <2>6. \A d \in Captures :
           /\ captures'[d].at <= tick
           /\ captures'[d].phase \in {"sampled", "read"} =>
                 /\ backend = "d1"
                 /\ captures'[d].at \in samples \/ captures'[d].at + Keep < tick
           /\ captures'[d].phase = "read" =>
                 \/ captures'[d].read = alerts
                 \/ captures[d].phase = "read" /\ captures'[d].read = captures[d].read
    BY <1>00, <2>1, <2>3, <2>4 DEF SampleKept
  <2> QED  BY <1>0, <2>3, <2>5, <2>6, QuietKeeps DEF SampleKept
<1>8. ASSUME NEW c \in Captures, D1PersistAlerts(c) PROVE AlertsInv'
  <2>1. /\ Persist(captures[c].seen, captures[c].read, captures[c].at)
        /\ captures[c].phase = "read" /\ UNCHANGED <<backend, tick, samples>>
        /\ captures' = [captures EXCEPT ![c] = NoCapture]
    BY <1>8 DEF D1PersistAlerts
  <2>2. /\ captures[c].read \in [Policies -> AlertRow] /\ backend = "d1"
        /\ captures[c].at \in samples \/ captures[c].at + Keep < tick
        /\ \A p \in Policies : RowHasEvent(p, captures[c].read[p])
    BY <1>0, <1>00, <2>1 DEF CaptureRow, RowsHaveEvents, SampleKept
  <2>3. NoCapture.at <= tick  BY <1>0, NoCaptureRow
  <2>4. backend # "postgres"  BY <2>2
  <2>5. \A p \in Policies : RowHasEvent(p, captures[c].read[p])  BY <2>2
  <2> QED  BY <2>1, <2>2, <2>3, <2>4, <2>5, NoCaptureRow, PersistedKeeps
<1>9. ASSUME NEW c \in Captures, CaptureFails(c) PROVE AlertsInv'
  <2>1. UNCHANGED <<backend, tick, alerts, events, samples>>  BY <1>9 DEF CaptureFails
  <2>2. \A d \in Captures : captures'[d] = IF d = c THEN NoCapture ELSE captures[d]
    BY <1>0, <1>9 DEF AlertsShape, CaptureFails
  <2>3. AlertsShape'  BY <1>0, <1>9, <2>1, NoCaptureRow DEF AlertsShape, CaptureFails
  <2>4. \A d \in Captures :
           /\ captures'[d].at <= tick
           /\ captures'[d].phase \in {"sampled", "read"} => captures'[d] = captures[d]
    BY <1>0, <1>00, <2>2, NoCaptureRow
  <2> QED  BY <1>0, <1>00, <2>1, <2>3, <2>4, QuietKeeps DEF SampleKept
<1> QED
  BY <1>1, <1>2, <1>3, <1>4, <1>5, <1>6, <1>7, <1>8, <1>9 DEF AlertsNext

LEMMA AlertsFirst == AlertsAssumption /\ AlertsInit => AlertsInv
<1> SUFFICES ASSUME AlertsAssumption, AlertsInit PROVE AlertsInv  OBVIOUS
<1>1. AlertsShape
  BY NoCaptureRow DEF AlertsInit, AlertsShape
<1>2. \A c \in Captures : captures[c].phase = "none" /\ captures[c].at = 0
  BY NoCaptureRow DEF AlertsInit
<1>3. \A p \in Policies : alerts[p].state = "none" /\ alerts[p].evaluated = 0
  BY DEF AlertsInit, NoAlert
<1>4. events = {} /\ tick = 1  BY DEF AlertsInit
<1> QED
  BY <1>1, <1>2, <1>3, <1>4
     DEF AlertsInv, PhasesOfBackend, SampledFirst, RowsHaveEvents, RowHasEvent, StateHasEvent,
         EvaluatedOnSample, FiredAfterPending

\* In one transaction on locked rows a firing alert either still fires or has
\* recovered.
LEMMA FiringStep ==
    ASSUME AlertsInv, [AlertsNext]_alertVars, backend = "postgres",
           NEW p \in Policies, alerts[p].state = "firing"
    PROVE  alerts'[p].state \in {"firing", "recovered"}
<1>1. AlertsShape /\ PhasesOfBackend  BY DEF AlertsInv
<1>2. CASE alerts' = alerts  BY <1>2
<1>3. ASSUME NEW c \in Captures, CommitCapture(c)
      PROVE  alerts'[p].state \in {"firing", "recovered"}
  <2>1. /\ Persist(captures[c].seen, alerts, captures[c].at)
        /\ captures[c].at \in Nat /\ alerts \in [Policies -> AlertRow]
    BY <1>1, <1>3 DEF CommitCapture, AlertsShape, CaptureRow
  <2> DEFINE next == NextState(captures[c].seen, alerts, p)
             at   == captures[c].at
  <2>5. \A q \in Policies :
           \/ alerts'[q] = alerts[q]
           \/ /\ alerts[q].evaluated # at
              /\ alerts'[q] = Written(alerts[q], NextState(captures[c].seen, alerts, q), at)
              /\ NextState(captures[c].seen, alerts, q) \notin {"none", alerts[q].state} =>
                    [policy |-> q, state |-> NextState(captures[c].seen, alerts, q),
                     at |-> at] \in events'
    BY <1>1, <2>1, PersistFacts
  <2>2. alerts'[p] = alerts[p] \/ alerts'[p] = Written(alerts[p], next, at)
    BY <2>5
  <2>3. next \in {"firing", "recovered"} /\ next \in AlertStates
    BY <2>1, NextStateFacts
  <2> HIDE DEF next
  <2>4. Written(alerts[p], next, captures[c].at).state = next
    BY <2>1, <2>3, WrittenFacts
  <2> QED  BY <2>2, <2>3, <2>4
<1>4. ASSUME NEW c \in Captures, D1PersistAlerts(c) PROVE FALSE
  BY <1>1, <1>4 DEF D1PersistAlerts, PhasesOfBackend
<1> QED
  BY <1>2, <1>3, <1>4
     DEF AlertsNext, alertVars, NextWindow, Measure, PruneSamples, D1Sample, D1ReadAlerts,
         CaptureFails

\* The alerts, their events and their samples tell one story, whatever captures
\* overlap, fail or are delayed (captureMetrics, evaluateThreshold).
THEOREM AlertsAreSafe == AlertsSpec => AlertsSafe
<1>1. AlertsInit => AlertsInv  BY AlertsFirst, AlertsAssumption
<1>2. AlertsInv /\ [AlertsNext]_alertVars => AlertsInv'  BY AlertsStep, AlertsAssumption
<1>3. AlertsInv => StateHasEvent /\ EvaluatedOnSample /\ FiredAfterPending  BY DEF AlertsInv
<1>4. AlertsInv /\ [AlertsNext]_alertVars =>
         [backend = "postgres" =>
            \A p \in Policies : alerts[p].state = "firing" =>
               alerts'[p].state \in {"firing", "recovered"}]_alertVars
  BY FiringStep
<1> QED  BY <1>1, <1>2, <1>3, <1>4, PTL DEF AlertsSpec, AlertsSafe, FiringRecovers

(* No time of an alert is in the future. *)

AlertRowBy(t) == [state : AlertStates, first : 0..t, evaluated : 0..t, since : 0..t]

CaptureRowBy(t) ==
    [phase : {"none", "measured", "prune", "sampled", "read"}, at : 0..t,
     seen : [Policies -> {"none", "fine", "breach"}],
     read : [Policies -> AlertRowBy(t)]]

EventRowBy(t) == [policy : Policies, state : AlertStates, at : 0..t]

AlertsTyped ==
    /\ backend \in {"postgres", "d1"} /\ tick \in Instants
    /\ alerts \in [Policies -> AlertRowBy(tick)]
    /\ events \subseteq EventRowBy(tick)
    /\ samples \subseteq Instants
    /\ captures \in [Captures -> CaptureRowBy(tick)]
    /\ \A c \in Captures : captures[c].phase = "measured" => captures[c].at # 0

LEMMA NoCaptureBy ==
    ASSUME NEW t \in Nat
    PROVE  /\ NoAlert \in AlertRowBy(t) /\ NoCapture \in CaptureRowBy(t)
           /\ NoCapture.phase = "none"
BY DEF NoAlert, NoCapture, AlertRowBy, CaptureRowBy, AlertStates

LEMMA WrittenBy ==
    ASSUME NEW t \in Nat, NEW row \in AlertRowBy(t), NEW state \in AlertStates,
           NEW at \in 0..t
    PROVE  Written(row, state, at) \in AlertRowBy(t)
<1>1. CASE state = "none"  BY <1>1, NoCaptureBy DEF Written
<1>2. CASE state # "none"
  <2> DEFINE first == IF \/ row.state = "none"
                         \/ row.state = "recovered" /\ state = "pending"
                      THEN at ELSE row.first
             since == IF row.state # state THEN at ELSE row.since
  <2>1. first \in 0..t /\ since \in 0..t  BY DEF AlertRowBy
  <2>2. Written(row, state, at) =
          [state |-> state, evaluated |-> at, first |-> first, since |-> since]
    BY <1>2 DEF Written
  <2> HIDE DEF first, since
  <2> QED  BY <2>1, <2>2 DEF AlertRowBy
<1> QED  BY <1>1, <1>2

LEMMA PersistTyped ==
    ASSUME AlertsTyped, NEW seen, NEW previous \in [Policies -> AlertRowBy(tick)],
           NEW at \in 0..tick, Persist(seen, previous, at)
    PROVE  /\ alerts' \in [Policies -> AlertRowBy(tick)]
           /\ events' \subseteq EventRowBy(tick)
<1>1. tick \in Nat  BY DEF AlertsTyped, Instants
<1> DEFINE next(p) == EvaluateThreshold(previous[p].state, seen[p] = "breach")
           moved == {p \in Evaluated(seen, previous, at) :
                       next(p) \notin {"none", previous[p].state}}
<1>2. \A p \in Policies : next(p) \in AlertStates
  BY DEF EvaluateThreshold, AlertStates
<1>3. /\ alerts' = [p \in Policies |->
                      IF p \in Evaluated(seen, previous, at)
                      THEN Written(alerts[p], next(p), at) ELSE alerts[p]]
      /\ events' = events \cup {[policy |-> p, state |-> next(p), at |-> at] : p \in moved}
  BY DEF Persist
<1>4. moved \subseteq Policies  BY DEF Evaluated
<1> HIDE DEF next, moved
<1>5. \A p \in Policies : Written(alerts[p], next(p), at) \in AlertRowBy(tick)
  BY <1>1, <1>2, WrittenBy DEF AlertsTyped
<1>6. alerts' \in [Policies -> AlertRowBy(tick)]
  BY <1>3, <1>5 DEF AlertsTyped
<1>7. \A p \in moved : [policy |-> p, state |-> next(p), at |-> at] \in EventRowBy(tick)
  BY <1>2, <1>4 DEF EventRowBy
<1> QED  BY <1>3, <1>6, <1>7 DEF AlertsTyped

\* What a step does to one capture.
LEMMA CaptureTyped ==
    ASSUME AlertsTyped, NEW c \in Captures, NEW row \in CaptureRowBy(tick),
           row.phase = "measured" => row.at # 0,
           captures' = [captures EXCEPT ![c] = row]
    PROVE  /\ captures' \in [Captures -> CaptureRowBy(tick)]
           /\ \A d \in Captures : captures'[d].phase = "measured" => captures'[d].at # 0
BY DEF AlertsTyped

LEMMA AlertsTypedStep ==
    ASSUME AlertsTyped, [AlertsNext]_alertVars
    PROVE  AlertsTyped'
<1>0. /\ tick \in Instants /\ tick \in Nat \ {0} /\ MaxTick \in Nat
      /\ \A c \in Captures : captures[c] \in CaptureRowBy(tick)
  BY AlertsAssumption DEF AlertsTyped, Instants
<1>1. ASSUME NEW c \in Captures, Measure(c) PROVE AlertsTyped'
  <2>1. PICK seen \in [Policies -> {"none", "fine", "breach"}] :
           captures' = [captures EXCEPT ![c] =
                          [NoCapture EXCEPT !.phase = "measured", !.at = tick, !.seen = seen]]
    BY <1>1 DEF Measure
  <2> DEFINE row == [NoCapture EXCEPT !.phase = "measured", !.at = tick, !.seen = seen]
  <2>2. row \in CaptureRowBy(tick) /\ row.at # 0
    <3> DEFINE at0 == [NoCapture EXCEPT !.phase = "measured"]
               at1 == [at0 EXCEPT !.at = tick]
    <3>0. NoCapture \in CaptureRowBy(tick)  BY <1>0, NoCaptureBy
    <3>1. at0 \in CaptureRowBy(tick)  BY <3>0 DEF CaptureRowBy
    <3> HIDE DEF at0
    <3>2. at1 \in CaptureRowBy(tick) /\ at1.at = tick  BY <1>0, <3>1 DEF CaptureRowBy
    <3> HIDE DEF at1
    <3>3. [at1 EXCEPT !.seen = seen] \in CaptureRowBy(tick)
          /\ [at1 EXCEPT !.seen = seen].at = tick
      BY <3>2 DEF CaptureRowBy
    <3>4. row = [at1 EXCEPT !.seen = seen]  BY DEF at0, at1
    <3> QED  BY <1>0, <3>3, <3>4
  <2> HIDE DEF row
  <2>3. captures' = [captures EXCEPT ![c] = row]  BY <2>1 DEF row
  <2>4. UNCHANGED <<backend, tick, alerts, events, samples>>  BY <1>1 DEF Measure
  <2> QED  BY <2>2, <2>3, <2>4, CaptureTyped DEF AlertsTyped
<1>2. ASSUME NEW c \in Captures, CommitCapture(c) PROVE AlertsTyped'
  <2> DEFINE row == [NoCapture EXCEPT !.phase = "prune", !.at = captures[c].at]
  <2>1. captures[c].at \in 0..tick /\ captures[c].at # 0
    BY <1>0, <1>2 DEF CommitCapture, AlertsTyped, CaptureRowBy
  <2>2. row \in CaptureRowBy(tick) /\ row.phase = "prune"
    BY <1>0, <2>1, NoCaptureBy DEF CaptureRowBy
  <2> HIDE DEF row
  <2>3. /\ captures' = [captures EXCEPT ![c] = row] /\ UNCHANGED <<backend, tick>>
        /\ Persist(captures[c].seen, alerts, captures[c].at)
        /\ samples' = samples \cup {captures[c].at}
    BY <1>2 DEF CommitCapture, row
  <2>4. captures[c].at \in Instants  BY <1>0, <2>1 DEF Instants
  <2>5. alerts \in [Policies -> AlertRowBy(tick)]  BY DEF AlertsTyped
  <2> QED
    BY <2>1, <2>2, <2>3, <2>4, <2>5, CaptureTyped, PersistTyped DEF AlertsTyped
<1>3. ASSUME NEW c \in Captures, PruneSamples(c) PROVE AlertsTyped'
  <2>1. samples' \subseteq samples /\ UNCHANGED <<backend, tick, alerts, events>>
        /\ captures' = [captures EXCEPT ![c] = NoCapture]
    BY <1>3 DEF PruneSamples
  <2> QED  BY <1>0, <2>1, NoCaptureBy, CaptureTyped DEF AlertsTyped
<1>4. ASSUME NEW c \in Captures, D1Sample(c) PROVE AlertsTyped'
  <2> DEFINE row == [captures[c] EXCEPT !.phase = "sampled"]
  <2>1. captures[c].at \in 0..tick /\ captures[c].at # 0
    BY <1>0, <1>4 DEF D1Sample, AlertsTyped, CaptureRowBy
  <2>2. row \in CaptureRowBy(tick) /\ row.phase = "sampled"
    BY <1>0 DEF CaptureRowBy
  <2> HIDE DEF row
  <2>3. /\ captures' = [captures EXCEPT ![c] = row]
        /\ samples' = samples \cup {captures[c].at}
        /\ UNCHANGED <<backend, tick, alerts, events>>
    BY <1>4 DEF D1Sample, row
  <2>4. captures[c].at \in Instants  BY <1>0, <2>1 DEF Instants
  <2> QED  BY <2>2, <2>3, <2>4, CaptureTyped DEF AlertsTyped
<1>5. ASSUME NEW c \in Captures, D1ReadAlerts(c) PROVE AlertsTyped'
  <2> DEFINE row == [captures[c] EXCEPT !.phase = "read", !.read = alerts]
  <2>1. row \in CaptureRowBy(tick) /\ row.phase = "read"
    BY <1>0 DEF CaptureRowBy, AlertsTyped
  <2> HIDE DEF row
  <2>2. /\ captures' = [captures EXCEPT ![c] = row]
        /\ UNCHANGED <<backend, tick, alerts, events, samples>>
    BY <1>5 DEF D1ReadAlerts, row
  <2> QED  BY <2>1, <2>2, CaptureTyped DEF AlertsTyped
<1>6. ASSUME NEW c \in Captures, D1PersistAlerts(c) PROVE AlertsTyped'
  <2>1. /\ captures' = [captures EXCEPT ![c] = NoCapture]
        /\ Persist(captures[c].seen, captures[c].read, captures[c].at)
        /\ UNCHANGED <<backend, tick, samples>>
    BY <1>6 DEF D1PersistAlerts
  <2>2. captures[c].at \in 0..tick /\ captures[c].read \in [Policies -> AlertRowBy(tick)]
    BY <1>0 DEF CaptureRowBy
  <2> QED
    BY <1>0, <2>1, <2>2, NoCaptureBy, CaptureTyped, PersistTyped DEF AlertsTyped
<1>7. ASSUME NEW c \in Captures, CaptureFails(c) PROVE AlertsTyped'
  <2>1. /\ captures' = [captures EXCEPT ![c] = NoCapture]
        /\ UNCHANGED <<backend, tick, alerts, events, samples>>
    BY <1>7 DEF CaptureFails
  <2> QED  BY <1>0, <2>1, NoCaptureBy, CaptureTyped DEF AlertsTyped
<1>8. CASE NextWindow
  <2>1. /\ tick' = tick + 1 /\ tick' \in Instants
        /\ UNCHANGED <<backend, alerts, events, samples, captures>>
    BY <1>0, <1>8 DEF NextWindow, Instants
  <2>2. 0..tick \subseteq 0..tick'  BY <1>0, <2>1
  <2>3. AlertRowBy(tick) \subseteq AlertRowBy(tick')
    BY <2>2 DEF AlertRowBy
  <2>4. CaptureRowBy(tick) \subseteq CaptureRowBy(tick')
    BY <2>2, <2>3 DEF CaptureRowBy
  <2>5. EventRowBy(tick) \subseteq EventRowBy(tick')
    BY <2>2 DEF EventRowBy
  <2> QED  BY <2>1, <2>3, <2>4, <2>5 DEF AlertsTyped
<1>9. CASE UNCHANGED alertVars  BY <1>9 DEF alertVars, AlertsTyped
<1> QED
  BY <1>1, <1>2, <1>3, <1>4, <1>5, <1>6, <1>7, <1>8, <1>9 DEF AlertsNext

\* No time of an alert, an event or a capture is in the future, for any policies
\* and captures that overlap (captureMetrics).
THEOREM AlertsTypeCorrect == AlertsSpec => []AlertsTypeOK
<1>1. AlertsInit => AlertsTyped
  <2> SUFFICES ASSUME AlertsInit PROVE AlertsTyped  OBVIOUS
  <2>1. tick = 1 /\ tick \in Instants /\ tick \in Nat
    BY AlertsAssumption DEF AlertsInit, Instants
  <2> QED  BY <2>1, NoCaptureBy DEF AlertsInit, AlertsTyped
<1>2. AlertsTyped => AlertsTypeOK
  BY DEF AlertsTyped, AlertsTypeOK, AlertRowBy, CaptureRowBy, EventRowBy, AlertStates
<1> QED  BY <1>1, <1>2, AlertsTypedStep, PTL DEF AlertsSpec

-----------------------------------------------------------------------------
(***************************************************************************)
(* The article archive, for any articles, workers, days, faults and        *)
(* commits of the owner, in either deployment                              *)
(***************************************************************************)
FileRow == [title : Titles, day : Nat, print : Urls \cup {NoUrl},
            url : Urls \cup {NoUrl}, by : Archivers \cup {NoUrl}]

SaveRow == [phase : Phases, url : Urls \cup {NoUrl}, day : Nat, pushes : Nat]

ArchiveShape ==
    /\ deployment \in {"pod", "instances"}
    /\ remote \subseteq FileRow
    /\ head \in [Archivers -> SUBSET FileRow]
    /\ index \in [Archivers -> SUBSET FileRow]
    /\ tree \in [Archivers -> SUBSET FileRow]
    /\ saves \in [Archivers -> SaveRow]
    /\ \A w \in Archivers : saves[w].phase = "idle" <=> saves[w].url = NoUrl
    /\ verdict \in [Urls -> Verdicts]
    /\ day \in Nat /\ notes \in Nat

\* Who is not deployed has no clone, and who has none has no files.
OwnClones ==
    \A w \in Archivers :
        /\ ~Deployed(w) => saves[w].phase = "idle" /\ w \notin cloned
        /\ w \notin cloned => Visible(w) = {}

\* A file set in which every name stands for one file; a fingerprint is of the
\* file's own url, and the owner's names of the notes to come are free.
Named(F, n) ==
    /\ \A f, g \in F : PathOf(f) = PathOf(g) => f = g
    /\ \A f \in F : f.print \in {NoUrl, f.url} /\ (f.title = Note => f.day < n)

NamesInv ==
    /\ Named(remote, notes)
    /\ \A w \in Archivers : Named(Visible(w), notes)

\* What a worker has achieved at each phase of save.
Pursues(w) ==
    LET u == saves[w].url IN
    /\ saves[w].phase \notin {"idle", "open"} => w \in cloned
    /\ saves[w].phase = "find" /\ u \notin shared => Holding(remote, u) \subseteq Visible(w)
    /\ saves[w].phase = "status" => Holding(Visible(w), u) # {}
    /\ saves[w].phase = "commit" => Holding(index[w], u) # {}
    /\ saves[w].phase \in {"push", "repull"} => Holding(head[w], u) # {}
    /\ saves[w].phase = "mirror" => Holding(remote, u) # {}

\* An article that two workers were never at together has at most one file, in
\* whatever clones; as long as it is open, who is not at it has what the remote
\* branch has.
OneCopy(u) ==
    /\ \A w, v \in Archivers : saves[w].url = u /\ saves[v].url = u => w = v
    /\ verdict[u] # "open" => \A w \in Archivers : saves[w].url # u
    /\ \A f, g \in remote : f.url = u /\ g.url = u => f = g
    /\ \A w \in Archivers : \A f \in Visible(w), g \in remote :
          f.url = u /\ g.url = u => f = g
    /\ \A w, v \in Archivers : \A f \in Visible(w), g \in Visible(v) :
          f.url = u /\ g.url = u => f = g
    /\ verdict[u] = "open" /\ deployment = "instances" =>
          \A w \in Archivers : saves[w].url # u => Holding(Visible(w), u) \subseteq remote

ArchiveInv ==
    /\ ArchiveShape /\ OwnClones /\ NamesInv /\ SavedMeansPushed
    /\ \A w \in Archivers : Pursues(w)
    /\ \A u \in Urls \ shared : OneCopy(u)

LEMMA NamedFewer ==
    ASSUME NEW F, NEW G, NEW n, F \subseteq G, Named(G, n)
    PROVE  Named(F, n)
BY DEF Named

\* git pull --rebase: the names that come in clash with none that is there.
LEMMA NamedRebase ==
    ASSUME NEW H, NEW T, NEW R, NEW n, Named(H \cup T, n), Named(R, n),
           PathsOf(R \ H) \cap PathsOf((H \ R) \cup T) = {}
    PROVE  Named(H \cup R \cup T, n)
<1>1. ASSUME NEW f \in H \cup R \cup T, NEW g \in H \cup R \cup T, PathOf(f) = PathOf(g)
      PROVE  f = g
  <2>1. CASE f \in H \cup T /\ g \in H \cup T  BY <1>1, <2>1 DEF Named
  <2>2. CASE f \in R /\ g \in R  BY <1>1, <2>2 DEF Named
  <2>3. CASE f \in R \ H /\ g \in (H \ R) \cup T
    <3>1. PathOf(f) \in PathsOf(R \ H) /\ PathOf(g) \in PathsOf((H \ R) \cup T)
      BY <2>3 DEF PathsOf
    <3> QED  BY <1>1, <3>1
  <2>4. CASE g \in R \ H /\ f \in (H \ R) \cup T
    <3>1. PathOf(g) \in PathsOf(R \ H) /\ PathOf(f) \in PathsOf((H \ R) \cup T)
      BY <2>4 DEF PathsOf
    <3> QED  BY <1>1, <3>1
  <2> QED  BY <2>1, <2>2, <2>3, <2>4
<1>2. \A f \in H \cup R \cup T : f.print \in {NoUrl, f.url} /\ (f.title = Note => f.day < n)
  BY DEF Named
<1> QED  BY <1>1, <1>2, Zenon DEF Named

LEMMA NamedLater ==
    ASSUME NEW F \in SUBSET FileRow, NEW n \in Nat, Named(F, n)
    PROVE  Named(F, n + 1)
BY DEF Named, FileRow

\* What one worker does to an article and to its own clone keeps the
\* invariant when it keeps the names, and when what is new in its clone comes
\* from the remote branch or is the first copy of its article.
LEMMA WorkerKeeps ==
    ASSUME ArchiveAssumption, ArchiveInv, ArchiveShape', NEW w \in Archivers, Deployed(w),
           UNCHANGED <<deployment, shared, notes>>,
           \A v \in Archivers \ {w} :
              /\ head'[v] = head[v] /\ index'[v] = index[v] /\ tree'[v] = tree[v]
              /\ saves'[v] = saves[v] /\ (v \in cloned' <=> v \in cloned),
           w \notin cloned' => Visible(w)' = {},
           remote \subseteq remote', remote' \subseteq remote \cup head[w],
           Named(remote', notes), Named(Visible(w)', notes),
           NEW new,
           \A f \in Visible(w)' :
              \/ f \in Visible(w) \cup remote
              \/ /\ f = new /\ new.url = saves[w].url /\ saves'[w].url = saves[w].url
                 /\ saves[w].phase = "find" /\ Holding(Visible(w), new.url) = {},
           saves'[w].url \in {saves[w].url, NoUrl},
           \A u \in Urls :
              \/ verdict'[u] = verdict[u]
              \/ /\ u = saves[w].url /\ saves'[w].url = NoUrl /\ verdict'[u] # "open"
                 /\ verdict'[u] = "saved" => Holding(remote', u) # {},
           saves[w].url # NoUrl /\ saves'[w].url = NoUrl =>
              verdict'[saves[w].url] # "open" \/ Visible(w)' = {} \/ deployment = "pod",
           Pursues(w)'
    PROVE  ArchiveInv'
<1>0. /\ ArchiveShape /\ OwnClones /\ NamesInv /\ SavedMeansPushed
      /\ \A v \in Archivers : Pursues(v)
      /\ \A u \in Urls \ shared : OneCopy(u)
      /\ NoUrl \notin Urls
  BY DEF ArchiveInv, ArchiveAssumption
<1>1. \A v \in Archivers \ {w} : Visible(v)' = Visible(v)  BY DEF Visible
<1>2. OwnClones'
  <2>1. \A v \in Archivers : Deployed(v)' <=> Deployed(v)  BY DEF Deployed
  <2>2. ASSUME NEW v \in Archivers
        PROVE  /\ ~Deployed(v)' => saves'[v].phase = "idle" /\ v \notin cloned'
               /\ v \notin cloned' => Visible(v)' = {}
    <3>1. CASE v = w  BY <2>1, <3>1
    <3>2. CASE v # w  BY <1>0, <1>1, <2>1, <3>2 DEF OwnClones
    <3> QED  BY <3>1, <3>2
  <2> QED  BY <2>2 DEF OwnClones
<1>3. NamesInv'
  <2>1. \A v \in Archivers : Named(Visible(v)', notes)
    BY <1>0, <1>1, Zenon DEF NamesInv
  <2> QED  BY <2>1 DEF NamesInv, Named, PathOf
<1>4. SavedMeansPushed'
  BY <1>0 DEF SavedMeansPushed, Holding
<1>5. \* between two workers at work there is no traffic but over the remote
      ASSUME NEW v \in Archivers, v # w, NEW u \in Urls \ shared,
             verdict[u] = "open", saves[v].url = u \/ saves[w].url = u
      PROVE  /\ saves[v].url = u => Holding(head[w], u) \subseteq remote
             /\ saves[w].url = u => Holding(Visible(v), u) \subseteq remote
  <2>1. CASE deployment = "instances"
    <3>1. saves[v].url = u => saves[w].url # u  BY <1>0, <1>5 DEF OneCopy
    <3> QED  BY <1>0, <1>5, <2>1, <3>1 DEF OneCopy, Visible, Holding
  <2>2. CASE deployment = "pod"
    <3>1. w = Pod /\ ~Deployed(v)  BY <1>5, <2>2 DEF Deployed
    <3>2. saves[v].phase = "idle" /\ Visible(v) = {}  BY <1>0, <3>1 DEF OwnClones
    <3>3. saves[v].url = NoUrl  BY <1>0, <3>2 DEF ArchiveShape
    <3> QED  BY <1>0, <3>2, <3>3 DEF Holding
  <2> QED  BY <1>0, <2>1, <2>2 DEF ArchiveShape
<1>6. ASSUME NEW v \in Archivers PROVE Pursues(v)'
  <2>1. CASE v = w  BY <2>1
  <2>2. CASE v # w
    <3>1. ASSUME saves[v].phase = "find", saves[v].url \notin shared
          PROVE  Holding(remote', saves[v].url) \subseteq Visible(v)
      <4>1. saves[v].url \in Urls \ shared
        BY <1>0, <3>1 DEF ArchiveShape, SaveRow
      <4>2. verdict[saves[v].url] = "open"  BY <1>0, <4>1 DEF OneCopy
      <4>3. Holding(head[w], saves[v].url) \subseteq remote  BY <1>5, <2>2, <4>1, <4>2
      <4>4. Holding(remote, saves[v].url) \subseteq Visible(v)
        BY <1>0, <3>1 DEF Pursues
      <4> QED  BY <4>3, <4>4 DEF Holding
    <3>2. /\ saves'[v] = saves[v] /\ index'[v] = index[v] /\ head'[v] = head[v]
          /\ Visible(v)' = Visible(v) /\ (v \in cloned' <=> v \in cloned)
      BY <1>1, <2>2
    <3>3. Pursues(v)  BY <1>0
    <3>4. Holding(remote, saves[v].url) # {} => Holding(remote', saves[v].url) # {}
      BY DEF Holding
    <3> QED  BY <3>1, <3>2, <3>3, <3>4 DEF Pursues, Holding
  <2> QED  BY <2>1, <2>2

<1>7. ASSUME NEW u \in Urls \ shared PROVE OneCopy(u)'
  <2>0. OneCopy(u)  BY <1>0
  <2>1. \A v \in Archivers : saves'[v].url = u => saves[v].url = u
    BY <1>0, <1>7
  <2>2. \A v, x \in Archivers : saves'[v].url = u /\ saves'[x].url = u => v = x
    BY <2>0, <2>1 DEF OneCopy
  <2>3. verdict'[u] # "open" => \A v \in Archivers : saves'[v].url # u
    <3> SUFFICES ASSUME NEW v \in Archivers, saves'[v].url = u PROVE verdict'[u] = "open"
      OBVIOUS
    <3>1. saves[v].url = u  BY <2>1
    <3>2. verdict[u] = "open"  BY <2>0, <3>1 DEF OneCopy
    <3>3. CASE verdict'[u] = verdict[u]  BY <3>2, <3>3
    <3>4. CASE u = saves[w].url /\ saves'[w].url = NoUrl
      <4>1. v = w  BY <2>0, <3>1, <3>4 DEF OneCopy
      <4> QED  BY <1>0, <3>4, <4>1
    <3> QED  BY <3>3, <3>4
  \* a copy that is there after the step was there before, or is the first one
  <2> DEFINE Had(f) == f \in remote \/ \E v \in Archivers : f \in Visible(v)
  <2>4. \A f, g : Had(f) /\ Had(g) /\ f.url = u /\ g.url = u => f = g
    BY <2>0 DEF OneCopy
  <2>5. ASSUME new.url = u, saves[w].url = u, saves[w].phase = "find",
               Holding(Visible(w), u) = {}
        PROVE  \A f : Had(f) => f.url # u
    <3>1. Holding(remote, u) = {}  BY <1>0, <2>5 DEF Pursues, Holding
    <3>2. verdict[u] = "open"  BY <2>0, <2>5 DEF OneCopy
    <3>3. \A v \in Archivers : v # w => Holding(Visible(v), u) \subseteq remote
      BY <1>5, <2>5, <3>2
    <3> QED  BY <2>5, <3>1, <3>3 DEF Holding
  <2>6. \A f \in remote' : Had(f)  BY DEF Visible
  <2>7. \A v \in Archivers : \A f \in Visible(v)' :
           \/ Had(f)
           \/ f = new /\ new.url = saves[w].url /\ saves[w].phase = "find"
              /\ Holding(Visible(w), new.url) = {}
    BY <1>1
  <2>8. \A f, g : /\ \/ Had(f)
                     \/ f = new /\ new.url = saves[w].url /\ saves[w].phase = "find"
                        /\ Holding(Visible(w), new.url) = {}
                  /\ \/ Had(g)
                     \/ g = new /\ new.url = saves[w].url /\ saves[w].phase = "find"
                        /\ Holding(Visible(w), new.url) = {}
                  /\ f.url = u /\ g.url = u
                  => f = g
    <3> HIDE DEF Had
    <3> QED  BY <2>4, <2>5
  <2>9. /\ \A f, g \in remote' : f.url = u /\ g.url = u => f = g
        /\ \A v \in Archivers : \A f \in Visible(v)', g \in remote' :
              f.url = u /\ g.url = u => f = g
        /\ \A v, x \in Archivers : \A f \in Visible(v)', g \in Visible(x)' :
              f.url = u /\ g.url = u => f = g
    <3> HIDE DEF Had
    <3> QED  BY <2>6, <2>7, <2>8
  <2>10. ASSUME verdict'[u] = "open", deployment = "instances", NEW v \in Archivers,
                saves'[v].url # u
         PROVE  Holding(Visible(v)', u) \subseteq remote'
    <3>1. verdict[u] = "open"  BY <2>10
    <3>2. saves[v].url # u => Holding(Visible(v), u) \subseteq remote
      BY <2>0, <2>10, <3>1 DEF OneCopy
    <3>3. CASE v # w
      BY <1>1, <2>10, <3>2, <3>3 DEF Holding
    <3>4. CASE v = w /\ saves[w].url # u
      <4>1. Holding(Visible(w), u) \subseteq remote  BY <3>2, <3>4
      <4> QED  BY <3>4, <4>1 DEF Holding
    <3>5. CASE v = w /\ saves[w].url = u
      <4>1. saves'[w].url = NoUrl /\ saves[w].url # NoUrl  BY <1>0, <2>10, <3>5
      <4>2. Visible(w)' = {}  BY <2>10, <3>5, <4>1
      <4> QED  BY <3>5, <4>2 DEF Holding
    <3> QED  BY <3>3, <3>4, <3>5
  <2>11. verdict'[u] = "open" /\ deployment' = "instances" =>
            \A v \in Archivers : saves'[v].url # u => Holding(Visible(v)', u) \subseteq remote'
    BY <2>10
  <2> HIDE DEF Had
  <2> QED  BY <2>2, <2>3, <2>9, <2>11 DEF OneCopy, Holding
<1> QED  BY <1>2, <1>3, <1>4, <1>6, <1>7 DEF ArchiveInv

\* The same for a step that writes no file
LEMMA OwnKeeps ==
    ASSUME ArchiveAssumption, ArchiveInv, ArchiveShape', NEW w \in Archivers, Deployed(w),
           UNCHANGED <<deployment, shared, notes>>,
           \A v \in Archivers \ {w} :
              /\ head'[v] = head[v] /\ index'[v] = index[v] /\ tree'[v] = tree[v]
              /\ saves'[v] = saves[v] /\ (v \in cloned' <=> v \in cloned),
           w \notin cloned' => Visible(w)' = {},
           remote \subseteq remote', remote' \subseteq remote \cup head[w],
           Named(remote', notes), Named(Visible(w)', notes),
           \A f \in Visible(w)' : f \in Visible(w) \cup remote,
           saves'[w].url \in {saves[w].url, NoUrl},
           \A u \in Urls :
              \/ verdict'[u] = verdict[u]
              \/ /\ u = saves[w].url /\ saves'[w].url = NoUrl /\ verdict'[u] # "open"
                 /\ verdict'[u] = "saved" => Holding(remote', u) # {},
           saves[w].url # NoUrl /\ saves'[w].url = NoUrl =>
              verdict'[saves[w].url] # "open" \/ Visible(w)' = {} \/ deployment = "pod",
           Pursues(w)'
    PROVE  ArchiveInv'
<1> DEFINE new == w
<1>1. \A f \in Visible(w)' :
         \/ f \in Visible(w) \cup remote
         \/ /\ f = new /\ new.url = saves[w].url /\ saves'[w].url = saves[w].url
            /\ saves[w].phase = "find" /\ Holding(Visible(w), new.url) = {}
  OBVIOUS
<1> HIDE DEF new
<1> QED  BY <1>1, WorkerKeeps

LEMMA CopiesCounted ==
    ASSUME NEW F, \A f, g \in F : f = g
    PROVE  Cardinality(F) <= 1
<1>1. CASE F = {}  BY <1>1, FS_EmptySet
<1>2. CASE F # {}
  <2>1. PICK f \in F : TRUE  BY <1>2
  <2>2. F = {f}  BY <2>1
  <2> QED  BY <2>2, FS_Singleton
<1> QED  BY <1>1, <1>2

\* Advance, for a worker that is at an article
LEMMA Advanced ==
    ASSUME ArchiveShape, NEW w \in Archivers, saves[w].phase # "idle",
           NEW phase \in Phases \ {"idle"}, Advance(w, phase)
    PROVE  /\ saves' \in [Archivers -> SaveRow]
           /\ saves'[w].phase = phase /\ saves'[w].url = saves[w].url
           /\ \A v \in Archivers \ {w} : saves'[v] = saves[v]
           /\ \A v \in Archivers : saves'[v].phase = "idle" <=> saves'[v].url = NoUrl
<1> DEFINE mine == [saves[w] EXCEPT !.phase = phase]
<1>1. saves[w] \in SaveRow  BY DEF ArchiveShape
<1>2. mine \in SaveRow /\ mine.phase = phase /\ mine.url = saves[w].url
  BY <1>1 DEF SaveRow
<1>3. saves' = [saves EXCEPT ![w] = mine]  BY DEF Advance
<1> HIDE DEF mine
<1> QED  BY <1>2, <1>3 DEF ArchiveShape

LEMMA IdleRow ==
    ASSUME ArchiveAssumption
    PROVE  Idle \in SaveRow /\ Idle.phase = "idle" /\ Idle.url = NoUrl
BY DEF Idle, SaveRow, Phases

\* Abandon: the article is uncertain, unless another worker settled it
LEMMA Abandoned ==
    ASSUME ArchiveAssumption, ArchiveShape, NEW w \in Archivers, saves[w].phase # "idle",
           Abandon(w)
    PROVE  /\ saves' \in [Archivers -> SaveRow] /\ verdict' \in [Urls -> Verdicts]
           /\ saves'[w] = Idle /\ \A v \in Archivers \ {w} : saves'[v] = saves[v]
           /\ \A v \in Archivers : saves'[v].phase = "idle" <=> saves'[v].url = NoUrl
           /\ \A u \in Urls : \/ verdict'[u] = verdict[u]
                              \/ u = saves[w].url /\ verdict'[u] = "uncertain"
           /\ saves[w].url \in Urls /\ verdict'[saves[w].url] # "open"
<1>1. saves[w] \in SaveRow /\ saves[w].url \in Urls  BY DEF ArchiveShape, SaveRow
<1>2. saves' = [saves EXCEPT ![w] = Idle]  BY DEF Abandon
<1>3. verdict' = [verdict EXCEPT ![saves[w].url] =
                     IF verdict[saves[w].url] = "open" THEN "uncertain"
                     ELSE verdict[saves[w].url]]
  BY DEF Abandon
<1>4. verdict' \in [Urls -> Verdicts]  BY <1>1, <1>3 DEF ArchiveShape, Verdicts
<1> QED  BY <1>1, <1>2, <1>3, <1>4, IdleRow DEF ArchiveShape

LEMMA BusyFacts ==
    ASSUME ArchiveInv, NEW w \in Archivers, saves[w].phase # "idle"
    PROVE  /\ Deployed(w) /\ saves[w].url \in Urls /\ saves[w].url # NoUrl
           /\ saves[w].phase # "open" => w \in cloned
BY DEF ArchiveInv, ArchiveShape, OwnClones, Pursues, SaveRow

-----------------------------------------------------------------------------
LEMMA PullStep ==
    ASSUME ArchiveAssumption, ArchiveInv, NEW w \in Archivers, NEW from, NEW to,
           <<from, to>> \in {<<"pull", "find">>, <<"repull", "push">>},
           PullRebaseSafely(w, from, to)
    PROVE  ArchiveInv'
<1> USE DEF cloneVars
<1>0. ArchiveShape /\ NamesInv /\ Pursues(w)  BY DEF ArchiveInv
<1>1. /\ \/ from = "pull" /\ to = "find"
         \/ from = "repull" /\ to = "push"
      /\ to \in Phases \ {"idle"} /\ from # "idle" /\ saves[w].phase = from
  BY DEF PullRebaseSafely, Phases
<1>2. /\ head' = [head EXCEPT ![w] = head[w] \cup remote] /\ Advance(w, to)
      /\ UNCHANGED <<deployment, remote, cloned, index, tree, verdict, shared, day, notes>>
      /\ CanRebase(w)
  BY DEF PullRebaseSafely
<1>3. Deployed(w) /\ w \in cloned  BY <1>1, BusyFacts
<1>4. /\ saves' \in [Archivers -> SaveRow]
      /\ saves'[w].phase = to /\ saves'[w].url = saves[w].url
      /\ \A v \in Archivers \ {w} : saves'[v] = saves[v]
      /\ \A v \in Archivers : saves'[v].phase = "idle" <=> saves'[v].url = NoUrl
  BY <1>0, <1>1, <1>2, Advanced
<1>5. head' \in [Archivers -> SUBSET FileRow]  BY <1>0, <1>2 DEF ArchiveShape
<1>6. ArchiveShape'  BY <1>0, <1>2, <1>4, <1>5 DEF ArchiveShape
<1>7. head'[w] = head[w] \cup remote /\ \A v \in Archivers \ {w} : head'[v] = head[v]
  BY <1>0, <1>2 DEF ArchiveShape
<1>8. index[w] = {} /\ Visible(w)' = head[w] \cup remote \cup tree[w]
  BY <1>2, <1>7 DEF CanRebase, Visible
<1>9. Named(Visible(w)', notes)
  <2>1. Named(head[w] \cup tree[w], notes)
    BY <1>0, NamedFewer DEF NamesInv, Visible
  <2>2. Named(remote, notes)  BY <1>0 DEF NamesInv
  <2>3. PathsOf(remote \ head[w]) \cap PathsOf((head[w] \ remote) \cup tree[w]) = {}
    BY <1>2 DEF CanRebase
  <2>4. Named(head[w] \cup remote \cup tree[w], notes)
    BY <2>1, <2>2, <2>3, NamedRebase
  <2> QED  BY <1>8, <2>4
<1>10. Pursues(w)'
  <2>1. to = "push" => Holding(head'[w], saves[w].url) # {}
    BY <1>0, <1>1, <1>7 DEF Pursues, Holding
  <2>2. to = "find" => Holding(remote, saves[w].url) \subseteq Visible(w)'
    BY <1>8 DEF Holding
  <2> QED  BY <1>1, <1>2, <1>3, <1>4, <2>1, <2>2 DEF Pursues, Holding
<1>11. /\ \A v \in Archivers \ {w} :
             /\ head'[v] = head[v] /\ index'[v] = index[v] /\ tree'[v] = tree[v]
             /\ saves'[v] = saves[v] /\ (v \in cloned' <=> v \in cloned)
       /\ \A f \in Visible(w)' : f \in Visible(w) \cup remote
       /\ w \in cloned' /\ remote \subseteq remote' /\ remote' \subseteq remote \cup head[w]
       /\ Named(remote', notes) /\ \A u \in Urls : verdict'[u] = verdict[u]
       /\ saves'[w].url = saves[w].url
  BY <1>0, <1>2, <1>3, <1>4, <1>7, <1>8 DEF Visible, NamesInv
<1> QED  BY <1>2, <1>3, <1>6, <1>9, <1>10, <1>11, OwnKeeps


\* Steps that leave every clone, the branch and the verdicts alone, and steps
\* that give up: what the worker holds is what it held.
LEMMA LsRemoteStep ==
    ASSUME ArchiveAssumption, ArchiveInv, NEW w \in Archivers, LsRemote(w)
    PROVE  ArchiveInv'
<1> USE DEF cloneVars
<1>0. ArchiveShape /\ NamesInv  BY DEF ArchiveInv
<1>1. PICK to \in {"find", "pull"} :
         to = (IF remote = head[w] THEN "find" ELSE "pull")
  OBVIOUS
<1>2. /\ saves[w].phase = "open" /\ w \in cloned /\ Advance(w, to)
      /\ UNCHANGED <<deployment, remote, cloned, head, index, tree, verdict, shared, day, notes>>
  BY <1>1 DEF LsRemote
<1>3. Deployed(w) /\ to \in Phases \ {"idle"}  BY <1>1, <1>2, BusyFacts DEF Phases
<1>4. /\ saves' \in [Archivers -> SaveRow]
      /\ saves'[w].phase = to /\ saves'[w].url = saves[w].url
      /\ \A v \in Archivers \ {w} : saves'[v] = saves[v]
      /\ \A v \in Archivers : saves'[v].phase = "idle" <=> saves'[v].url = NoUrl
  BY <1>0, <1>2, <1>3, Advanced
<1>5. ArchiveShape'  BY <1>0, <1>2, <1>4 DEF ArchiveShape
<1>6. Visible(w)' = Visible(w)  BY <1>2 DEF Visible
<1>7. Pursues(w)'
  <2>1. to = "find" => Holding(remote, saves[w].url) \subseteq Visible(w)
    BY <1>1 DEF Holding, Visible
  <2> QED  BY <1>1, <1>2, <1>4, <1>6, <2>1 DEF Pursues, Holding
<1>8. Named(remote', notes) /\ Named(Visible(w)', notes)
  BY <1>0, <1>2, <1>6, Zenon DEF NamesInv
<1>9. /\ \A v \in Archivers \ {w} :
             /\ head'[v] = head[v] /\ index'[v] = index[v] /\ tree'[v] = tree[v]
             /\ saves'[v] = saves[v] /\ (v \in cloned' <=> v \in cloned)
      /\ \A f \in Visible(w)' : f \in Visible(w) \cup remote
      /\ w \in cloned' /\ remote \subseteq remote' /\ remote' \subseteq remote \cup head[w]
      /\ \A u \in Urls : verdict'[u] = verdict[u]
      /\ saves'[w].url = saves[w].url
  BY <1>2, <1>4, <1>6
<1> QED  BY <1>2, <1>3, <1>5, <1>7, <1>8, <1>9, OwnKeeps

LEMMA CloneStep ==
    ASSUME ArchiveAssumption, ArchiveInv, NEW w \in Archivers, Clone(w)
    PROVE  ArchiveInv'
<1> USE DEF cloneVars
<1>0. ArchiveShape /\ NamesInv /\ OwnClones  BY DEF ArchiveInv
<1>2. /\ saves[w].phase = "open" /\ w \notin cloned /\ Advance(w, "find")
      /\ UNCHANGED <<deployment, remote, index, tree, verdict, shared, day, notes>>
      /\ cloned' = cloned \cup {w} /\ head' = [head EXCEPT ![w] = remote]
  BY DEF Clone
<1>3. Deployed(w) /\ "find" \in Phases \ {"idle"}  BY <1>2, BusyFacts DEF Phases
<1>4. /\ saves' \in [Archivers -> SaveRow]
      /\ saves'[w].phase = "find" /\ saves'[w].url = saves[w].url
      /\ \A v \in Archivers \ {w} : saves'[v] = saves[v]
      /\ \A v \in Archivers : saves'[v].phase = "idle" <=> saves'[v].url = NoUrl
  BY <1>0, <1>2, <1>3, Advanced
<1>5. head' \in [Archivers -> SUBSET FileRow]  BY <1>0, <1>2 DEF ArchiveShape
<1>55. ArchiveShape'  BY <1>0, <1>2, <1>4, <1>5 DEF ArchiveShape
<1>57. head'[w] = remote /\ \A v \in Archivers \ {w} : head'[v] = head[v]
  BY <1>0, <1>2 DEF ArchiveShape
<1>6. Visible(w)' = remote  BY <1>0, <1>2, <1>57 DEF Visible, OwnClones
<1>7. Pursues(w)'  BY <1>2, <1>4, <1>6 DEF Pursues, Holding
<1>8. Named(remote', notes) /\ Named(Visible(w)', notes)
  BY <1>0, <1>2, <1>6, Zenon DEF NamesInv
<1>9. /\ \A v \in Archivers \ {w} :
             /\ head'[v] = head[v] /\ index'[v] = index[v] /\ tree'[v] = tree[v]
             /\ saves'[v] = saves[v] /\ (v \in cloned' <=> v \in cloned)
      /\ \A f \in Visible(w)' : f \in Visible(w) \cup remote
      /\ w \in cloned' /\ remote \subseteq remote' /\ remote' \subseteq remote \cup head[w]
      /\ \A u \in Urls : verdict'[u] = verdict[u]
      /\ saves'[w].url = saves[w].url
  BY <1>2, <1>4, <1>57, <1>6
<1> QED  BY <1>2, <1>3, <1>55, <1>7, <1>8, <1>9, OwnKeeps

\* PullConflict, GitFails, RecordFails, and a last push that fails: the
\* article is given up, with or without its last push on the branch.
LEMMA GivenUp ==
    ASSUME ArchiveAssumption, ArchiveInv, NEW w \in Archivers, saves[w].phase # "idle",
           Abandon(w), UNCHANGED <<deployment, cloneVars, shared, day, notes>>,
           \/ remote' = remote
           \/ remote' = head[w] /\ remote \subseteq head[w]
    PROVE  ArchiveInv'
<1> USE DEF cloneVars
<1>0. ArchiveShape /\ NamesInv /\ OwnClones  BY DEF ArchiveInv
<1>1. Deployed(w)  BY BusyFacts
<1>2. /\ saves' \in [Archivers -> SaveRow] /\ verdict' \in [Urls -> Verdicts]
      /\ saves'[w] = Idle /\ \A v \in Archivers \ {w} : saves'[v] = saves[v]
      /\ \A v \in Archivers : saves'[v].phase = "idle" <=> saves'[v].url = NoUrl
      /\ \A u \in Urls : \/ verdict'[u] = verdict[u]
                         \/ u = saves[w].url /\ verdict'[u] = "uncertain"
      /\ saves[w].url \in Urls /\ verdict'[saves[w].url] # "open"
  BY <1>0, Abandoned
<1>3. Idle.phase = "idle" /\ Idle.url = NoUrl  BY IdleRow
<1>4. remote \subseteq remote' /\ remote' \subseteq remote \cup head[w]
      /\ remote' \subseteq FileRow
  BY <1>0 DEF ArchiveShape
<1>5. ArchiveShape'  BY <1>0, <1>2, <1>4 DEF ArchiveShape
<1>6. Visible(w)' = Visible(w)  BY DEF Visible
<1>7. Pursues(w)'  BY <1>2, <1>3 DEF Pursues
<1>8. Named(remote', notes) /\ Named(Visible(w)', notes)
  <2>1. Named(remote, notes) /\ Named(Visible(w), notes) /\ head[w] \subseteq Visible(w)
    BY <1>0 DEF NamesInv, Visible
  <2>2. Named(head[w], notes)  BY <2>1, NamedFewer
  <2> QED  BY <1>6, <2>1, <2>2, Zenon
<1>9. /\ \A v \in Archivers \ {w} :
             /\ head'[v] = head[v] /\ index'[v] = index[v] /\ tree'[v] = tree[v]
             /\ saves'[v] = saves[v] /\ (v \in cloned' <=> v \in cloned)
      /\ \A f \in Visible(w)' : f \in Visible(w) \cup remote
      /\ w \notin cloned' => Visible(w)' = {}
      /\ saves'[w].url = NoUrl
  BY <1>0, <1>2, <1>3, <1>6 DEF OwnClones
<1>10. \A u \in Urls :
          \/ verdict'[u] = verdict[u]
          \/ /\ u = saves[w].url /\ saves'[w].url = NoUrl /\ verdict'[u] # "open"
             /\ verdict'[u] = "saved" => Holding(remote', u) # {}
  BY <1>2, <1>9
<1> QED  BY <1>1, <1>2, <1>4, <1>5, <1>7, <1>8, <1>9, <1>10, OwnKeeps

\* Push, and a push whose failure is answered by another attempt
LEMMA PushedStep ==
    ASSUME ArchiveAssumption, ArchiveInv, NEW w \in Archivers, saves[w].phase = "push",
           NEW phase \in {"mirror", "repull"},
           saves' \in [Archivers -> SaveRow],
           saves'[w].phase = phase, saves'[w].url = saves[w].url,
           \A v \in Archivers \ {w} : saves'[v] = saves[v],
           \A v \in Archivers : saves'[v].phase = "idle" <=> saves'[v].url = NoUrl,
           UNCHANGED <<deployment, cloneVars, verdict, shared, day, notes>>,
           \/ remote' = remote /\ phase = "repull"
           \/ remote' = head[w] /\ remote \subseteq head[w]
    PROVE  ArchiveInv'
<1> USE DEF cloneVars
<1>0. ArchiveShape /\ NamesInv /\ OwnClones /\ Pursues(w)  BY DEF ArchiveInv
<1>1. Deployed(w) /\ w \in cloned  BY BusyFacts
<1>4. remote \subseteq remote' /\ remote' \subseteq remote \cup head[w]
      /\ remote' \subseteq FileRow
  BY <1>0 DEF ArchiveShape
<1>5. ArchiveShape'  BY <1>0, <1>4 DEF ArchiveShape
<1>6. Visible(w)' = Visible(w)  BY DEF Visible
<1>7. Pursues(w)'
  <2>1. Holding(head[w], saves[w].url) # {}  BY <1>0 DEF Pursues
  <2>2. phase = "mirror" => Holding(remote', saves[w].url) # {}  BY <2>1
  <2> QED  BY <1>1, <2>1, <2>2 DEF Pursues, Holding
<1>8. Named(remote', notes) /\ Named(Visible(w)', notes)
  <2>1. Named(remote, notes) /\ Named(Visible(w), notes) /\ head[w] \subseteq Visible(w)
    BY <1>0 DEF NamesInv, Visible
  <2>2. Named(head[w], notes)  BY <2>1, NamedFewer
  <2> QED  BY <1>6, <2>1, <2>2, Zenon
<1>9. /\ \A v \in Archivers \ {w} :
             /\ head'[v] = head[v] /\ index'[v] = index[v] /\ tree'[v] = tree[v]
             /\ saves'[v] = saves[v] /\ (v \in cloned' <=> v \in cloned)
      /\ \A f \in Visible(w)' : f \in Visible(w) \cup remote
      /\ w \in cloned' /\ \A u \in Urls : verdict'[u] = verdict[u]
  BY <1>1, <1>6
<1> QED  BY <1>1, <1>4, <1>5, <1>7, <1>8, <1>9, OwnKeeps


\* The same for a step that only moves files within the clone
LEMMA MovedKeeps ==
    ASSUME ArchiveAssumption, ArchiveInv, ArchiveShape', NEW w \in Archivers, Deployed(w),
           UNCHANGED <<deployment, remote, cloned, verdict, shared, notes>>, w \in cloned,
           \A v \in Archivers \ {w} :
              /\ head'[v] = head[v] /\ index'[v] = index[v] /\ tree'[v] = tree[v]
              /\ saves'[v] = saves[v],
           Visible(w)' = Visible(w), saves'[w].url = saves[w].url, Pursues(w)'
    PROVE  ArchiveInv'
<1>1. Named(remote', notes) /\ Named(Visible(w)', notes)
  BY Zenon DEF ArchiveInv, NamesInv
<1>2. /\ w \notin cloned' => Visible(w)' = {}
      /\ \A f \in Visible(w)' : f \in Visible(w) \cup remote
      /\ remote \subseteq remote' /\ remote' \subseteq remote \cup head[w]
      /\ \A v \in Archivers \ {w} : v \in cloned' <=> v \in cloned
      /\ \A u \in Urls : verdict'[u] = verdict[u]
      /\ saves[w].url # NoUrl /\ saves'[w].url = NoUrl => deployment = "pod"
  OBVIOUS
<1> QED  BY <1>1, <1>2, OwnKeeps

\* git add moves a file within the clone, git commit too
LEMMA AddStep ==
    ASSUME ArchiveAssumption, ArchiveInv, NEW w \in Archivers, Add(w)
    PROVE  ArchiveInv'
<1> USE DEF cloneVars
<1> DEFINE u     == saves[w].url
           found == Holding(tree[w], u)
<1>0. ArchiveShape /\ NamesInv /\ Pursues(w)  BY DEF ArchiveInv
<1>1. PICK to \in {"push", "commit"} : to = AfterStatus(w, u)  BY DEF AfterStatus
<1>2. /\ saves[w].phase = "status" /\ Advance(w, to)
      /\ UNCHANGED <<deployment, remote, cloned, head, verdict, shared, day, notes>>
      /\ index' = [index EXCEPT ![w] = index[w] \cup found]
      /\ tree' = [tree EXCEPT ![w] = tree[w] \ found]
  BY <1>1 DEF Add
<1>3. Deployed(w) /\ w \in cloned /\ to \in Phases \ {"idle"}
  BY <1>1, <1>2, BusyFacts DEF Phases
<1>4. /\ saves' \in [Archivers -> SaveRow]
      /\ saves'[w].phase = to /\ saves'[w].url = u
      /\ \A v \in Archivers \ {w} : saves'[v] = saves[v]
      /\ \A v \in Archivers : saves'[v].phase = "idle" <=> saves'[v].url = NoUrl
  BY <1>0, <1>2, <1>3, Advanced
<1>5. /\ index[w] \in SUBSET FileRow /\ tree[w] \in SUBSET FileRow
      /\ found \subseteq tree[w] /\ found \in SUBSET FileRow
  BY <1>0 DEF ArchiveShape, Holding
<1>6. /\ index' \in [Archivers -> SUBSET FileRow] /\ tree' \in [Archivers -> SUBSET FileRow]
      /\ index'[w] = index[w] \cup found /\ tree'[w] = tree[w] \ found
      /\ \A v \in Archivers \ {w} : index'[v] = index[v] /\ tree'[v] = tree[v]
  <2> HIDE DEF found
  <2> QED  BY <1>0, <1>2, <1>5 DEF ArchiveShape
<1>7. ArchiveShape'  BY <1>0, <1>2, <1>4, <1>6 DEF ArchiveShape
<1>8. Visible(w)' = Visible(w)
  <2>1. (index[w] \cup found) \cup (tree[w] \ found) = index[w] \cup tree[w]  BY <1>5
  <2> HIDE DEF found
  <2> QED  BY <1>2, <1>6, <2>1 DEF Visible
<1>9. Pursues(w)'
  <2>1. to = "push" => Holding(head[w], u) # {}
    BY <1>0, <1>1, <1>2 DEF AfterStatus, Pursues, Holding, Visible
  <2>2. to = "commit" => Holding(index[w] \cup found, u) # {}
    <3>1. to = "commit" => Holding(tree[w] \cup index[w], u) # {}
      BY <1>1 DEF AfterStatus
    <3>2. Holding(index[w] \cup found, u) = Holding(tree[w] \cup index[w], u)
      BY DEF Holding
    <3> QED  BY <3>1, <3>2
  <2> HIDE DEF found
  <2> QED  BY <1>1, <1>2, <1>3, <1>4, <1>6, <2>1, <2>2 DEF Pursues, Holding
<1>10. \A v \in Archivers \ {w} :
          /\ head'[v] = head[v] /\ index'[v] = index[v] /\ tree'[v] = tree[v]
          /\ saves'[v] = saves[v]
  BY <1>2, <1>4, <1>6
<1>11. saves'[w].url = saves[w].url  BY <1>4
<1>12. UNCHANGED <<deployment, remote, cloned, verdict, shared, notes>>  BY <1>2
<1> HIDE DEF found, u
<1> QED  BY <1>3, <1>7, <1>8, <1>9, <1>10, <1>11, <1>12, MovedKeeps

LEMMA CommitStep ==
    ASSUME ArchiveAssumption, ArchiveInv, NEW w \in Archivers, Commit(w)
    PROVE  ArchiveInv'
<1> USE DEF cloneVars
<1> DEFINE u     == saves[w].url
           files == Holding(index[w], u)
<1>0. ArchiveShape /\ NamesInv /\ Pursues(w)  BY DEF ArchiveInv
<1>2. /\ saves[w].phase = "commit" /\ Advance(w, "push")
      /\ UNCHANGED <<deployment, remote, cloned, tree, verdict, shared, day, notes>>
      /\ head' = [head EXCEPT ![w] = head[w] \cup files]
      /\ index' = [index EXCEPT ![w] = index[w] \ files]
  BY DEF Commit
<1>3. Deployed(w) /\ w \in cloned /\ "push" \in Phases \ {"idle"}
  BY <1>2, BusyFacts DEF Phases
<1>4. /\ saves' \in [Archivers -> SaveRow]
      /\ saves'[w].phase = "push" /\ saves'[w].url = u
      /\ \A v \in Archivers \ {w} : saves'[v] = saves[v]
      /\ \A v \in Archivers : saves'[v].phase = "idle" <=> saves'[v].url = NoUrl
  BY <1>0, <1>2, <1>3, Advanced
<1>5. /\ index[w] \in SUBSET FileRow /\ head[w] \in SUBSET FileRow
      /\ files \subseteq index[w] /\ files \in SUBSET FileRow
  BY <1>0 DEF ArchiveShape, Holding
<1>6. /\ index' \in [Archivers -> SUBSET FileRow] /\ head' \in [Archivers -> SUBSET FileRow]
      /\ index'[w] = index[w] \ files /\ head'[w] = head[w] \cup files
      /\ \A v \in Archivers \ {w} : index'[v] = index[v] /\ head'[v] = head[v]
  <2> HIDE DEF files
  <2> QED  BY <1>0, <1>2, <1>5 DEF ArchiveShape
<1>7. ArchiveShape'  BY <1>0, <1>2, <1>4, <1>6 DEF ArchiveShape
<1>8. Visible(w)' = Visible(w)
  <2>1. (head[w] \cup files) \cup (index[w] \ files) = head[w] \cup index[w]  BY <1>5
  <2> HIDE DEF files
  <2> QED  BY <1>2, <1>6, <2>1 DEF Visible
<1>9. Pursues(w)'
  <2>1. files # {} /\ files \subseteq Holding(head'[w], u)
    BY <1>0, <1>2, <1>6 DEF Pursues, Holding
  <2> HIDE DEF files
  <2> QED  BY <1>2, <1>3, <1>4, <2>1 DEF Pursues, Holding
<1>10. \A v \in Archivers \ {w} :
          /\ head'[v] = head[v] /\ index'[v] = index[v] /\ tree'[v] = tree[v]
          /\ saves'[v] = saves[v]
  BY <1>2, <1>4, <1>6
<1>11. saves'[w].url = saves[w].url  BY <1>4
<1>12. UNCHANGED <<deployment, remote, cloned, verdict, shared, notes>>  BY <1>2
<1> HIDE DEF files, u
<1> QED  BY <1>3, <1>7, <1>8, <1>9, <1>10, <1>11, <1>12, MovedKeeps

\* A new file has a name of its own: the plain one is free, or its fingerprint
\* is that of an article nobody here has a file of.
LEMMA NewFileFacts ==
    ASSUME ArchiveAssumption, ArchiveInv, NEW w \in Archivers, NEW u \in Urls,
           Holding(Visible(w), u) = {}
    PROVE  /\ NewFile(w, u) \in FileRow /\ NewFile(w, u).url = u
           /\ Named(Visible(w) \cup {NewFile(w, u)}, notes)
<1>0. /\ ArchiveShape /\ Named(Visible(w), notes) /\ saves[w].day \in Nat
      /\ ArticleTitle[u] # Note /\ ArticleTitle[u] \in Titles /\ NoUrl \notin Urls
  BY DEF ArchiveInv, NamesInv, ArchiveShape, SaveRow, ArchiveAssumption, Titles
<1>1. PICK print \in {u, NoUrl} :
         /\ NewFile(w, u) = [title |-> ArticleTitle[u], day |-> saves[w].day,
                             print |-> print, url |-> u, by |-> w]
         /\ print = NoUrl => PathOf(PlainFile(w, u)) \notin PathsOf(Visible(w))
  <2>1. CASE PathOf(PlainFile(w, u)) \in PathsOf(Visible(w))
    <3>1. [PlainFile(w, u) EXCEPT !.print = u] =
             [title |-> ArticleTitle[u], day |-> saves[w].day, print |-> u,
              url |-> u, by |-> w]
      BY DEF PlainFile
    <3> QED  BY <1>0, <2>1, <3>1 DEF NewFile
  <2>2. CASE PathOf(PlainFile(w, u)) \notin PathsOf(Visible(w))
    BY <2>2 DEF NewFile, PlainFile
  <2> QED  BY <2>1, <2>2
<1> DEFINE new == NewFile(w, u)
<1>2. /\ new \in FileRow /\ new.url = u /\ new.print = print /\ new.title = ArticleTitle[u]
      /\ PathOf(new) = <<ArticleTitle[u], saves[w].day, print>>
  BY <1>0, <1>1 DEF FileRow, PathOf
<1>3. PathOf(PlainFile(w, u)) = <<ArticleTitle[u], saves[w].day, NoUrl>>
  BY DEF PathOf, PlainFile
<1> HIDE DEF new
<1>4. ASSUME NEW f \in Visible(w), PathOf(f) = PathOf(new) PROVE FALSE
  <2>1. CASE print = NoUrl  BY <1>1, <1>2, <1>3, <1>4, <2>1 DEF PathsOf
  <2>2. CASE print = u
    <3>1. f.print = u  BY <1>2, <1>4, <2>2 DEF PathOf
    <3>2. f.url = u  BY <1>0, <3>1 DEF Named
    <3> QED  BY <3>2 DEF Holding
  <2> QED  BY <2>1, <2>2
<1>5. \A f, g \in Visible(w) \cup {new} : PathOf(f) = PathOf(g) => f = g
  BY <1>0, <1>4 DEF Named
<1>6. \A f \in Visible(w) \cup {new} :
         f.print \in {NoUrl, f.url} /\ (f.title = Note => f.day < notes)
  BY <1>0, <1>2 DEF Named
<1>7. Named(Visible(w) \cup {new}, notes)  BY <1>5, <1>6, Zenon DEF Named
<1> QED  BY <1>2, <1>7 DEF new

LEMMA FindOrWriteStep ==
    ASSUME ArchiveAssumption, ArchiveInv, NEW w \in Archivers, FindOrWrite(w)
    PROVE  ArchiveInv'
<1> USE DEF cloneVars
<1> DEFINE u == saves[w].url
<1>0. ArchiveShape /\ NamesInv /\ Pursues(w)  BY DEF ArchiveInv
<1>2. /\ saves[w].phase = "find" /\ Advance(w, "status")
      /\ UNCHANGED <<deployment, remote, cloned, head, index, verdict, shared, day, notes>>
      /\ tree' = [tree EXCEPT ![w] = IF FindSourceUrl(w, u) THEN tree[w]
                                     ELSE tree[w] \cup {NewFile(w, u)}]
  BY DEF FindOrWrite
<1>3. Deployed(w) /\ w \in cloned /\ "status" \in Phases \ {"idle"} /\ u \in Urls
  BY <1>2, BusyFacts DEF Phases
<1>4. /\ saves' \in [Archivers -> SaveRow]
      /\ saves'[w].phase = "status" /\ saves'[w].url = u
      /\ \A v \in Archivers \ {w} : saves'[v] = saves[v]
      /\ \A v \in Archivers : saves'[v].phase = "idle" <=> saves'[v].url = NoUrl
  BY <1>0, <1>2, <1>3, Advanced
<1>5. PICK new : new = NewFile(w, u)  OBVIOUS
<1>6. Holding(Visible(w), u) = {} =>
         new \in FileRow /\ new.url = u /\ Named(Visible(w) \cup {new}, notes)
  BY <1>3, <1>5, NewFileFacts
<1>7. PICK mine \in SUBSET FileRow :
         /\ tree' = [tree EXCEPT ![w] = mine]
         /\ \/ mine = tree[w] /\ Holding(Visible(w), u) # {}
            \/ mine = tree[w] \cup {new} /\ Holding(Visible(w), u) = {}
  <2>0. tree[w] \in SUBSET FileRow  BY <1>0 DEF ArchiveShape
  <2>1. CASE Holding(Visible(w), u) # {}  BY <1>2, <2>0, <2>1 DEF FindSourceUrl
  <2>2. CASE Holding(Visible(w), u) = {}
    <3>1. tree' = [tree EXCEPT ![w] = tree[w] \cup {new}]
      BY <1>2, <1>5, <2>2 DEF FindSourceUrl
    <3>2. tree[w] \cup {new} \in SUBSET FileRow  BY <1>6, <2>0, <2>2
    <3> QED  BY <2>2, <3>1, <3>2
  <2> QED  BY <2>1, <2>2
<1>8. /\ tree' \in [Archivers -> SUBSET FileRow] /\ tree'[w] = mine
      /\ \A v \in Archivers \ {w} : tree'[v] = tree[v]
  BY <1>0, <1>7 DEF ArchiveShape
<1>9. ArchiveShape'  BY <1>0, <1>2, <1>4, <1>8 DEF ArchiveShape
<1>10. \/ Visible(w)' = Visible(w) /\ Holding(Visible(w), u) # {}
       \/ Visible(w)' = Visible(w) \cup {new} /\ Holding(Visible(w), u) = {}
  BY <1>2, <1>7, <1>8 DEF Visible
<1>11. Named(remote', notes) /\ Named(Visible(w)', notes)
  <2>1. Named(remote, notes) /\ Named(Visible(w), notes)  BY <1>0 DEF NamesInv
  <2> QED  BY <1>2, <1>6, <1>10, <2>1, Zenon
<1>12. Pursues(w)'
  <2>1. Holding(Visible(w)', u) # {}
    BY <1>6, <1>10 DEF Holding
  <2> QED  BY <1>2, <1>3, <1>4, <2>1 DEF Pursues, Holding
<1>13. \A f \in Visible(w)' :
          \/ f \in Visible(w) \cup remote
          \/ /\ f = new /\ new.url = saves[w].url /\ saves'[w].url = saves[w].url
             /\ saves[w].phase = "find" /\ Holding(Visible(w), new.url) = {}
  BY <1>2, <1>4, <1>6, <1>10
<1>14. /\ \A v \in Archivers \ {w} :
             /\ head'[v] = head[v] /\ index'[v] = index[v] /\ tree'[v] = tree[v]
             /\ saves'[v] = saves[v] /\ (v \in cloned' <=> v \in cloned)
       /\ w \in cloned' /\ remote \subseteq remote' /\ remote' \subseteq remote \cup head[w]
       /\ \A x \in Urls : verdict'[x] = verdict[x]
       /\ saves'[w].url = saves[w].url /\ saves[w].url # NoUrl
  BY <1>2, <1>3, <1>4, <1>8 DEF ArchiveAssumption
<1> QED  BY <1>2, <1>3, <1>9, <1>11, <1>12, <1>13, <1>14, WorkerKeeps


LEMMA PushStep ==
    ASSUME ArchiveAssumption, ArchiveInv, NEW w \in Archivers,
           Push(w) \/ \E arrived \in BOOLEAN : PushFails(w, arrived)
    PROVE  ArchiveInv'
<1>0. ArchiveShape  BY DEF ArchiveInv
<1>1. CASE Push(w)
  <2>1. /\ saves[w].phase = "push" /\ Advance(w, "mirror") /\ "mirror" \in Phases \ {"idle"}
        /\ remote' = head[w] /\ remote \subseteq head[w]
        /\ UNCHANGED <<deployment, cloneVars, verdict, shared, day, notes>>
    BY <1>1 DEF Push, MayPush, Descends, Phases
  <2>2. /\ saves' \in [Archivers -> SaveRow]
        /\ saves'[w].phase = "mirror" /\ saves'[w].url = saves[w].url
        /\ \A v \in Archivers \ {w} : saves'[v] = saves[v]
        /\ \A v \in Archivers : saves'[v].phase = "idle" <=> saves'[v].url = NoUrl
    BY <1>0, <2>1, Advanced
  <2> QED  BY <2>1, <2>2, PushedStep
<1>2. ASSUME NEW arrived \in BOOLEAN, PushFails(w, arrived) PROVE ArchiveInv'
  <2>1. /\ saves[w].phase = "push"
        /\ \/ remote' = remote
           \/ remote' = head[w] /\ remote \subseteq head[w]
        /\ UNCHANGED <<deployment, cloneVars, shared, day, notes>>
    BY <1>2 DEF PushFails, MayPush, Descends
  <2>2. CASE MorePushes(w)
    <3>1. /\ saves' = [saves EXCEPT ![w].phase = "repull", ![w].pushes = @ + 1]
          /\ verdict' = verdict
      BY <1>2, <2>2 DEF PushFails
    <3>2. saves[w] \in SaveRow /\ saves[w].pushes \in Nat  BY <1>0 DEF ArchiveShape, SaveRow
    <3>6. PICK more \in Nat : saves[w].pushes + 1 = more  BY <3>2
    <3> DEFINE mine == [saves[w] EXCEPT !.phase = "repull", !.pushes = more]
    <3>3. mine \in SaveRow /\ mine.phase = "repull" /\ mine.url = saves[w].url
      BY <3>2 DEF SaveRow, Phases
    <3>4. saves' = [saves EXCEPT ![w] = mine]  BY <1>0, <3>1, <3>6 DEF ArchiveShape
    <3> HIDE DEF mine
    <3>5. /\ saves' \in [Archivers -> SaveRow]
          /\ saves'[w].phase = "repull" /\ saves'[w].url = saves[w].url
          /\ \A v \in Archivers \ {w} : saves'[v] = saves[v]
          /\ \A v \in Archivers : saves'[v].phase = "idle" <=> saves'[v].url = NoUrl
      BY <1>0, <2>1, <3>3, <3>4 DEF ArchiveShape
    <3> QED  BY <2>1, <3>1, <3>5, PushedStep
  <2>3. CASE ~MorePushes(w)
    <3>1. Abandon(w)  BY <1>2, <2>3 DEF PushFails
    <3> QED  BY <2>1, <3>1, GivenUp
  <2> QED  BY <2>2, <2>3
<1> QED  BY <1>1, <1>2

\* An article is reported as saved by a worker whose push arrived.
LEMMA RecordStep ==
    ASSUME ArchiveAssumption, ArchiveInv, NEW w \in Archivers, Record(w)
    PROVE  ArchiveInv'
<1> USE DEF cloneVars
<1>0. ArchiveShape /\ NamesInv /\ OwnClones /\ Pursues(w)  BY DEF ArchiveInv
<1>1. /\ saves[w].phase = "mirror" /\ saves' = [saves EXCEPT ![w] = Idle]
      /\ verdict' = [verdict EXCEPT ![saves[w].url] = "saved"]
      /\ UNCHANGED <<deployment, remote, cloned, head, index, tree, shared, day, notes>>
  BY DEF Record
<1>2. Deployed(w) /\ w \in cloned /\ saves[w].url \in Urls  BY <1>1, BusyFacts
<1>3. Idle \in SaveRow /\ Idle.phase = "idle" /\ Idle.url = NoUrl  BY IdleRow
<1>4. /\ saves' \in [Archivers -> SaveRow] /\ verdict' \in [Urls -> Verdicts]
      /\ saves'[w] = Idle /\ \A v \in Archivers \ {w} : saves'[v] = saves[v]
      /\ \A v \in Archivers : saves'[v].phase = "idle" <=> saves'[v].url = NoUrl
      /\ \A u \in Urls : verdict'[u] = IF u = saves[w].url THEN "saved" ELSE verdict[u]
  BY <1>0, <1>1, <1>2, <1>3 DEF ArchiveShape, Verdicts
<1>5. ArchiveShape'  BY <1>0, <1>1, <1>4 DEF ArchiveShape
<1>6. Visible(w)' = Visible(w)  BY <1>1 DEF Visible
<1>7. Pursues(w)'  BY <1>3, <1>4 DEF Pursues
<1>8. Named(remote', notes) /\ Named(Visible(w)', notes)
  BY <1>0, <1>1, <1>6, Zenon DEF NamesInv
<1>9. Holding(remote', saves[w].url) # {}  BY <1>0, <1>1 DEF Pursues
<1>10. \A v \in Archivers \ {w} :
          /\ head'[v] = head[v] /\ index'[v] = index[v] /\ tree'[v] = tree[v]
          /\ saves'[v] = saves[v] /\ (v \in cloned' <=> v \in cloned)
  BY <1>1, <1>4
<1>11. \A u \in Urls :
          \/ verdict'[u] = verdict[u]
          \/ /\ u = saves[w].url /\ saves'[w].url = NoUrl /\ verdict'[u] # "open"
             /\ verdict'[u] = "saved" => Holding(remote', u) # {}
  <2>1. saves'[w].url = NoUrl  BY <1>3, <1>4
  <2> QED  BY <1>4, <1>9, <2>1
<1>12. saves'[w].url \in {saves[w].url, NoUrl} /\ verdict'[saves[w].url] # "open"
  BY <1>2, <1>3, <1>4
<1>13. w \notin cloned' => Visible(w)' = {}  BY <1>1, <1>2
<1>14. \A f \in Visible(w)' : f \in Visible(w) \cup remote  BY <1>6
<1>15. UNCHANGED <<deployment, shared, notes>> /\ remote' = remote  BY <1>1
<1>16. remote \subseteq remote' /\ remote' \subseteq remote \cup head[w]  BY <1>15
<1> QED  BY <1>2, <1>5, <1>7, <1>8, <1>10, <1>11, <1>12, <1>13, <1>14, <1>15, <1>16, OwnKeeps

\* A crash takes the clone of an instance with it, and leaves that of a pod.
LEMMA CrashStep ==
    ASSUME ArchiveAssumption, ArchiveInv, NEW w \in Archivers, Crash(w)
    PROVE  ArchiveInv'
<1> USE DEF cloneVars
<1>0. ArchiveShape /\ NamesInv /\ OwnClones  BY DEF ArchiveInv
<1>1. /\ saves[w].phase # "idle" /\ saves' = [saves EXCEPT ![w] = Idle]
      /\ UNCHANGED <<deployment, remote, verdict, shared, day, notes>>
  BY DEF Crash
<1>2. Deployed(w)  BY <1>1, BusyFacts
<1>3. Idle \in SaveRow /\ Idle.phase = "idle" /\ Idle.url = NoUrl  BY IdleRow
<1>4. /\ saves' \in [Archivers -> SaveRow]
      /\ saves'[w] = Idle /\ \A v \in Archivers \ {w} : saves'[v] = saves[v]
      /\ \A v \in Archivers : saves'[v].phase = "idle" <=> saves'[v].url = NoUrl
  BY <1>0, <1>1, <1>3 DEF ArchiveShape
<1>5. /\ head' \in [Archivers -> SUBSET FileRow] /\ index' \in [Archivers -> SUBSET FileRow]
      /\ tree' \in [Archivers -> SUBSET FileRow]
      /\ \A v \in Archivers \ {w} :
            /\ head'[v] = head[v] /\ index'[v] = index[v] /\ tree'[v] = tree[v]
            /\ (v \in cloned' <=> v \in cloned)
      /\ \/ /\ w = Pod /\ head'[w] = head[w] /\ index'[w] = index[w] /\ tree'[w] = tree[w]
            /\ (w \in cloned' <=> w \in cloned)
         \/ /\ w # Pod /\ head'[w] = {} /\ index'[w] = {} /\ tree'[w] = {} /\ w \notin cloned'
  <2>1. CASE w = Pod  BY <1>0, <2>1 DEF Crash, ArchiveShape
  <2>2. CASE w # Pod
    <3>1. /\ cloned' = cloned \ {w} /\ head' = [head EXCEPT ![w] = {}]
          /\ index' = [index EXCEPT ![w] = {}] /\ tree' = [tree EXCEPT ![w] = {}]
      BY <2>2 DEF Crash
    <3>2. {} \in SUBSET FileRow  OBVIOUS
    <3>3. /\ head \in [Archivers -> SUBSET FileRow] /\ index \in [Archivers -> SUBSET FileRow]
          /\ tree \in [Archivers -> SUBSET FileRow]
      BY <1>0 DEF ArchiveShape
    <3> QED  BY <2>2, <3>1, <3>2, <3>3
  <2> QED  BY <2>1, <2>2
<1>6. ArchiveShape'  BY <1>0, <1>1, <1>4, <1>5 DEF ArchiveShape
<1>7. \/ w = Pod /\ Visible(w)' = Visible(w)
      \/ w # Pod /\ Visible(w)' = {}
  BY <1>5 DEF Visible
<1>8. Pursues(w)'  BY <1>3, <1>4 DEF Pursues
<1>9. Named(remote', notes) /\ Named(Visible(w)', notes)
  <2>1. Named(remote, notes) /\ Named(Visible(w), notes)  BY <1>0 DEF NamesInv
  <2>2. Named({}, notes)  BY DEF Named
  <2> QED  BY <1>1, <1>7, <2>1, <2>2, Zenon
<1>10. deployment = "pod" \/ Visible(w)' = {}
  BY <1>0, <1>2, <1>7 DEF ArchiveShape, Deployed, ArchiveAssumption
<1>11. w \notin cloned' => Visible(w)' = {}
  BY <1>0, <1>5, <1>7 DEF OwnClones
<1>12. /\ \A f \in Visible(w)' : f \in Visible(w) \cup remote
       /\ \A v \in Archivers \ {w} :
            /\ head'[v] = head[v] /\ index'[v] = index[v] /\ tree'[v] = tree[v]
            /\ saves'[v] = saves[v] /\ (v \in cloned' <=> v \in cloned)
       /\ saves'[w].url = NoUrl /\ \A u \in Urls : verdict'[u] = verdict[u]
       /\ remote \subseteq remote' /\ remote' \subseteq remote \cup head[w]
  BY <1>1, <1>3, <1>4, <1>5, <1>7
<1> QED  BY <1>1, <1>2, <1>6, <1>8, <1>9, <1>10, <1>11, <1>12, OwnKeeps

\* When nobody touches a clone, and the branch grows by nothing but a note of
\* the owner, the copies of an article are what they were.
LEMMA CopiesStay ==
    ASSUME ArchiveInv, NEW u \in Urls \ shared,
           UNCHANGED <<deployment, cloneVars>>,
           \A f \in remote' : f.url = u => f \in remote,
           remote \subseteq remote',
           \A w, v \in Archivers : saves'[w].url = u /\ saves'[v].url = u => w = v,
           verdict'[u] # "open" => \A w \in Archivers : saves'[w].url # u,
           \/ verdict'[u] # "open"
           \/ /\ verdict[u] = "open"
              /\ \A w \in Archivers : saves'[w].url # u => saves[w].url # u
    PROVE  OneCopy(u)'
<1>1. OneCopy(u)  BY DEF ArchiveInv
<1>2. \A w \in Archivers : Visible(w)' = Visible(w)  BY DEF Visible, cloneVars
<1>3. /\ \A f, g \in remote' : f.url = u /\ g.url = u => f = g
      /\ \A w \in Archivers : \A f \in Visible(w)', g \in remote' :
            f.url = u /\ g.url = u => f = g
      /\ \A w, v \in Archivers : \A f \in Visible(w)', g \in Visible(v)' :
            f.url = u /\ g.url = u => f = g
  BY <1>1, <1>2 DEF OneCopy
<1>4. verdict'[u] = "open" /\ deployment' = "instances" =>
         \A w \in Archivers : saves'[w].url # u => Holding(Visible(w)', u) \subseteq remote'
  BY <1>1, <1>2 DEF OneCopy, Holding
<1> QED  BY <1>3, <1>4 DEF OneCopy, Holding


LEMMA ExtractStep ==
    ASSUME ArchiveAssumption, ArchiveInv, NEW w \in Archivers, NEW u \in Urls, Extract(w, u)
    PROVE  ArchiveInv'
<1>0. ArchiveShape /\ OwnClones /\ NamesInv /\ SavedMeansPushed /\ NoUrl \notin Urls
  BY DEF ArchiveInv, ArchiveAssumption
<1> DEFINE mine == [phase |-> "open", url |-> u, day |-> day, pushes |-> 1]
<1>1. mine \in SaveRow /\ mine.phase = "open" /\ mine.url = u
  BY <1>0 DEF SaveRow, Phases, ArchiveShape
<1> HIDE DEF mine
<1>2. /\ Deployed(w) /\ saves[w].phase = "idle" /\ verdict[u] = "open"
      /\ saves' = [saves EXCEPT ![w] = mine]
      /\ UNCHANGED <<deployment, remote, cloneVars, verdict, day, notes>>
  BY DEF Extract, mine
<1>3. shared \subseteq shared' /\ (u \notin shared' => Busy(u) = {})  BY DEF Extract
<1>4. saves[w].url = NoUrl  BY <1>0, <1>2 DEF ArchiveShape
<1>5. /\ saves' \in [Archivers -> SaveRow]
      /\ \A v \in Archivers : saves'[v] = IF v = w THEN mine ELSE saves[v]
  BY <1>0, <1>1, <1>2 DEF ArchiveShape
<1>6. ArchiveShape'
  <2>1. \A v \in Archivers : saves'[v].phase = "idle" <=> saves'[v].url = NoUrl
    BY <1>0, <1>1, <1>5 DEF ArchiveShape
  <2> QED  BY <1>0, <1>2, <1>5, <2>1 DEF ArchiveShape, cloneVars
<1>7. \A v \in Archivers : Visible(v)' = Visible(v) /\ Deployed(v)' = Deployed(v)
  BY <1>2 DEF Visible, Deployed, cloneVars
<1>8. OwnClones'
  BY <1>0, <1>1, <1>2, <1>5, <1>7 DEF OwnClones, cloneVars
<1>9. NamesInv' /\ SavedMeansPushed'
  <2>1. NamesInv'  BY <1>0, <1>2 DEF NamesInv, Named, PathOf, Visible, cloneVars
  <2>2. SavedMeansPushed'  BY <1>0, <1>2 DEF SavedMeansPushed, Holding
  <2> QED  BY <2>1, <2>2
<1>10. ASSUME NEW v \in Archivers PROVE Pursues(v)'
  <2>1. Pursues(v)  BY DEF ArchiveInv
  <2>2. CASE v = w  BY <1>1, <1>5, <2>2 DEF Pursues
  <2>3. CASE v # w
    BY <1>2, <1>3, <1>5, <1>7, <2>1, <2>3 DEF Pursues, Holding, cloneVars
  <2> QED  BY <2>2, <2>3
<1>11. ASSUME NEW x \in Urls \ shared' PROVE OneCopy(x)'
  <2>1. OneCopy(x)  BY <1>3 DEF ArchiveInv
  <2>2. \A v, y \in Archivers : saves'[v].url = x /\ saves'[y].url = x => v = y
    <3>1. CASE x = u  BY <1>1, <1>3, <1>5, <3>1 DEF Busy
    <3>2. CASE x # u  BY <1>1, <1>5, <2>1, <3>2 DEF OneCopy
    <3> QED  BY <3>1, <3>2
  <2>3. verdict'[x] # "open" => \A v \in Archivers : saves'[v].url # x
    BY <1>1, <1>2, <1>5, <2>1 DEF OneCopy
  <2>4. \A v \in Archivers : saves'[v].url # x => saves[v].url # x
    BY <1>0, <1>4, <1>5
  <2> QED  BY <1>2, <1>3, <2>2, <2>3, <2>4, CopiesStay
<1> QED  BY <1>6, <1>8, <1>9, <1>10, <1>11 DEF ArchiveInv

\* Skip, the owner and the calendar: no worker moves, and no clone
LEMMA OutsideKeeps ==
    ASSUME ArchiveAssumption, ArchiveInv, ArchiveShape',
           UNCHANGED <<deployment, cloneVars, saves, shared>>,
           remote \subseteq remote', \A f \in remote' : f.url # NoUrl => f \in remote,
           Named(remote', notes'), \A w \in Archivers : Named(Visible(w), notes'),
           \A u \in Urls : \/ verdict'[u] = verdict[u]
                           \/ verdict'[u] = "skipped" /\ Busy(u) = {}
    PROVE  ArchiveInv'
<1>0. OwnClones /\ SavedMeansPushed /\ NoUrl \notin Urls /\ ArchiveShape
  BY DEF ArchiveInv, ArchiveAssumption
<1>1. \A v \in Archivers : Visible(v)' = Visible(v) /\ Deployed(v)' = Deployed(v)
  BY DEF Visible, Deployed, cloneVars
<1>2. OwnClones'  BY <1>0, <1>1 DEF OwnClones, cloneVars
<1>3. NamesInv'
  <2>1. \A v \in Archivers : Named(Visible(v)', notes')  BY <1>1, Zenon
  <2> QED  BY <2>1 DEF NamesInv, Named, PathOf
<1>4. SavedMeansPushed'  BY <1>0 DEF SavedMeansPushed, Holding
<1>5. ASSUME NEW v \in Archivers PROVE Pursues(v)'
  <2>1. Pursues(v) /\ (saves[v].phase # "idle" => saves[v].url # NoUrl)
    BY <1>0 DEF ArchiveInv, ArchiveShape
  <2>2. /\ Holding(remote, saves[v].url) \subseteq Holding(remote', saves[v].url)
        /\ saves[v].url # NoUrl =>
              Holding(remote', saves[v].url) = Holding(remote, saves[v].url)
    BY DEF Holding
  <2>3. /\ saves'[v] = saves[v] /\ Visible(v)' = Visible(v) /\ index'[v] = index[v]
        /\ head'[v] = head[v] /\ cloned' = cloned /\ shared' = shared
    BY <1>1 DEF cloneVars
  <2> QED  BY <2>1, <2>2, <2>3 DEF Pursues, Holding
<1>6. ASSUME NEW u \in Urls \ shared PROVE OneCopy(u)'
  <2>1. OneCopy(u) /\ u # NoUrl  BY <1>0 DEF ArchiveInv
  <2>2. verdict'[u] # "open" => \A v \in Archivers : saves'[v].url # u
    BY <2>1 DEF OneCopy, Busy
  <2>3. \A v, y \in Archivers : saves'[v].url = u /\ saves'[y].url = u => v = y
    BY <2>1 DEF OneCopy
  <2>4. \A f \in remote' : f.url = u => f \in remote  BY <2>1
  <2>5. \/ verdict'[u] # "open"
        \/ /\ verdict[u] = "open"
           /\ \A v \in Archivers : saves'[v].url # u => saves[v].url # u
    OBVIOUS
  <2> QED  BY <2>2, <2>3, <2>4, <2>5, CopiesStay
<1> QED  BY <1>2, <1>3, <1>4, <1>5, <1>6 DEF ArchiveInv

LEMMA SkipStep ==
    ASSUME ArchiveAssumption, ArchiveInv, NEW w \in Archivers, NEW u \in Urls, Skip(w, u)
    PROVE  ArchiveInv'
<1>0. ArchiveShape /\ NamesInv  BY DEF ArchiveInv
<1>1. /\ verdict' = [verdict EXCEPT ![u] = "skipped"] /\ Busy(u) = {}
      /\ UNCHANGED <<deployment, remote, cloneVars, saves, shared, day, notes>>
  BY DEF Skip
<1>2. ArchiveShape'  BY <1>0, <1>1 DEF ArchiveShape, cloneVars, Verdicts
<1>3. \A x \in Urls : \/ verdict'[x] = verdict[x]
                      \/ verdict'[x] = "skipped" /\ Busy(x) = {}
  BY <1>0, <1>1 DEF ArchiveShape
<1>4. Named(remote', notes') /\ \A v \in Archivers : Named(Visible(v), notes')
  BY <1>0, <1>1, Zenon DEF NamesInv
<1> QED  BY <1>1, <1>2, <1>3, <1>4, OutsideKeeps

LEMMA OwnerStep ==
    ASSUME ArchiveAssumption, ArchiveInv, OwnerPush
    PROVE  ArchiveInv'
<1>0. ArchiveShape /\ NamesInv /\ notes \in Nat  BY DEF ArchiveInv, ArchiveShape
<1> DEFINE note == [title |-> Note, day |-> notes, print |-> NoUrl,
                    url |-> NoUrl, by |-> NoUrl]
<1>1. /\ note \in FileRow /\ note.title = Note /\ note.day = notes /\ note.print = NoUrl
      /\ note.url = NoUrl /\ PathOf(note) = <<Note, notes, NoUrl>>
  BY <1>0 DEF FileRow, Titles, PathOf
<1> HIDE DEF note
<1>2. /\ remote' = remote \cup {note} /\ notes' = notes + 1
      /\ UNCHANGED <<deployment, cloneVars, saves, verdict, shared, day>>
  BY DEF OwnerPush, note
<1>3. ArchiveShape'  BY <1>0, <1>1, <1>2 DEF ArchiveShape, cloneVars
<1>4. \A v \in Archivers : Named(Visible(v), notes')
  <2>1. ASSUME NEW v \in Archivers PROVE Named(Visible(v), notes')
    <3>1. Visible(v) \in SUBSET FileRow  BY <1>0 DEF ArchiveShape, Visible
    <3>2. Named(Visible(v), notes)  BY <1>0 DEF NamesInv
    <3>3. Named(Visible(v), notes + 1)  BY <1>0, <3>1, <3>2, NamedLater
    <3> QED  BY <1>2, <3>3
  <2> QED  BY <2>1
<1>5. Named(remote', notes')
  <2>1. \A f \in remote : PathOf(f) # PathOf(note)
    <3> SUFFICES ASSUME NEW f \in remote, PathOf(f) = PathOf(note) PROVE FALSE  OBVIOUS
    <3>1. f.title = Note /\ f.day = notes  BY <1>1 DEF PathOf
    <3>2. f.day < notes  BY <1>0, <3>1 DEF NamesInv, Named
    <3> QED  BY <1>0, <3>1, <3>2
  <2>2. \A f, g \in remote' : PathOf(f) = PathOf(g) => f = g
    BY <1>0, <1>2, <2>1 DEF NamesInv, Named
  <2>3. \A f \in remote' : f.print \in {NoUrl, f.url} /\ (f.title = Note => f.day < notes + 1)
    <3>1. \A f \in remote : f.day \in Nat  BY <1>0 DEF ArchiveShape, FileRow
    <3> QED  BY <1>0, <1>1, <1>2, <3>1 DEF NamesInv, Named
  <2>4. Named(remote', notes + 1)  BY <2>2, <2>3, Zenon DEF Named
  <2> QED  BY <1>2, <2>4
<1>6. /\ remote \subseteq remote' /\ \A f \in remote' : f.url # NoUrl => f \in remote
      /\ \A u \in Urls : verdict'[u] = verdict[u]
  BY <1>1, <1>2
<1> QED  BY <1>2, <1>3, <1>4, <1>5, <1>6, OutsideKeeps

LEMMA ArchiveStep ==
    ASSUME ArchiveAssumption, ArchiveInv, [ArchiveNext]_archiveVars
    PROVE  ArchiveInv'
<1>0. ArchiveShape /\ NamesInv  BY DEF ArchiveInv
<1>1. CASE UNCHANGED archiveVars \/ NextDay
  <2>1. /\ UNCHANGED <<deployment, cloneVars, saves, shared, remote, notes, verdict>>
        /\ day' \in Nat
    BY <1>0, <1>1 DEF archiveVars, cloneVars, NextDay, ArchiveShape
  <2>2. ArchiveShape'  BY <1>0, <2>1 DEF ArchiveShape, cloneVars
  <2>3. Named(remote', notes') /\ \A v \in Archivers : Named(Visible(v), notes')
    BY <1>0, <2>1, Zenon DEF NamesInv
  <2>4. /\ remote \subseteq remote' /\ \A f \in remote' : f.url # NoUrl => f \in remote
        /\ \A u \in Urls : verdict'[u] = verdict[u]
    BY <2>1
  <2> QED  BY <2>1, <2>2, <2>3, <2>4, OutsideKeeps
<1>2. CASE OwnerPush  BY <1>2, OwnerStep
<1>3. ASSUME NEW w \in Archivers, SaveStep(w) PROVE ArchiveInv'
  <2>1. CASE PullConflict(w) \/ GitFails(w) \/ RecordFails(w)
    <3>1. /\ saves[w].phase # "idle" /\ Abandon(w)
          /\ UNCHANGED <<deployment, cloneVars, shared, day, notes>> /\ remote' = remote
      BY <2>1 DEF PullConflict, GitFails, RecordFails
    <3> QED  BY <3>1, GivenUp
  <2>2. CASE PullRebaseSafely(w, "pull", "find") \/ PullRebaseSafely(w, "repull", "push")
    BY <2>2, PullStep
  <2>3. CASE Push(w) \/ \E arrived \in BOOLEAN : PushFails(w, arrived)
    BY <2>3, PushStep
  <2> QED
    BY <1>3, <2>1, <2>2, <2>3, CloneStep, LsRemoteStep, FindOrWriteStep, AddStep, CommitStep,
       RecordStep
       DEF SaveStep
<1>4. ASSUME NEW w \in Archivers, NEW u \in Urls, Extract(w, u) \/ Skip(w, u)
      PROVE  ArchiveInv'
  BY <1>4, ExtractStep, SkipStep
<1>5. ASSUME NEW w \in Archivers, Crash(w) PROVE ArchiveInv'
  BY <1>5, CrashStep
<1> QED  BY <1>1, <1>2, <1>3, <1>4, <1>5 DEF ArchiveNext

LEMMA ArchiveFirst == ArchiveAssumption /\ ArchiveInit => ArchiveInv
<1> SUFFICES ASSUME ArchiveAssumption, ArchiveInit PROVE ArchiveInv  OBVIOUS
<1>1. Idle \in SaveRow /\ Idle.phase = "idle" /\ Idle.url = NoUrl  BY IdleRow
<1>2. ArchiveShape  BY <1>1 DEF ArchiveInit, ArchiveShape, Verdicts
<1>3. /\ remote = {} /\ cloned = {} /\ \A w \in Archivers : saves[w] = Idle /\ Visible(w) = {}
      /\ \A u \in Urls : verdict[u] = "open"
  BY DEF ArchiveInit, Visible
<1>4. OwnClones /\ NamesInv /\ SavedMeansPushed
  BY <1>1, <1>3 DEF OwnClones, NamesInv, Named, SavedMeansPushed
<1>5. \A w \in Archivers : Pursues(w)  BY <1>1, <1>3 DEF Pursues
<1>6. \A u \in Urls : OneCopy(u)
  BY <1>1, <1>3 DEF OneCopy, Holding, ArchiveAssumption
<1> QED  BY <1>2, <1>4, <1>5, <1>6 DEF ArchiveInv

\* The branch only ever grows: a push is taken when it adds to what is there.
LEMMA BranchGrows ==
    ASSUME [ArchiveNext]_archiveVars
    PROVE  remote \subseteq remote'
<1>1. ASSUME NEW w \in Archivers, SaveStep(w) PROVE remote \subseteq remote'
  BY <1>1
     DEF SaveStep, PullConflict, GitFails, RecordFails, PullRebaseSafely, Push, PushFails,
         MayPush, Descends, Clone, LsRemote, FindOrWrite, Add, Commit, Record
<1> QED
  BY <1>1 DEF ArchiveNext, archiveVars, Extract, Skip, Crash, OwnerPush, NextDay

\* Nothing that was archived is lost, doubled or overwritten, for any articles,
\* workers, faults, crashes between commands of git, and commits of the owner
\* (GitArticleRepository.save).
THEOREM ArchiveIsSafe == ArchiveSpec => ArchiveSafe
<1>1. ArchiveInit => ArchiveInv  BY ArchiveFirst, ArchiveAssumption
<1>2. ArchiveInv /\ [ArchiveNext]_archiveVars => ArchiveInv'
  BY ArchiveStep, ArchiveAssumption
<1>3. ArchiveInv => SavedMeansPushed /\ OneFilePerUrl /\ NothingOverwritten
  <2> SUFFICES ASSUME ArchiveInv PROVE SavedMeansPushed /\ OneFilePerUrl /\ NothingOverwritten
    OBVIOUS
  <2>1. ASSUME NEW u \in Urls \ shared PROVE Cardinality(Holding(remote, u)) <= 1
    <3>1. \A f, g \in Holding(remote, u) : f = g  BY DEF ArchiveInv, OneCopy, Holding
    <3> QED  BY <3>1, CopiesCounted
  <2>2. NothingOverwritten  BY DEF ArchiveInv, NamesInv, Named, NothingOverwritten
  <2> QED  BY <2>1, <2>2 DEF ArchiveInv, OneFilePerUrl
<1>4. [ArchiveNext]_archiveVars => [remote \subseteq remote']_archiveVars
  BY BranchGrows
<1> QED  BY <1>1, <1>2, <1>3, <1>4, PTL DEF ArchiveSpec, ArchiveSafe, HistoryKept

(* The types of the archive, within its bounds. *)

SaveWithin == [phase : Phases, url : Urls \cup {NoUrl}, day : 0..MaxDay,
               pushes : 0..PushAttempts]

\* What a step leaves of the types when it keeps the files, the days and the
\* counters within their bounds.
LEMMA AdvancedWithin ==
    ASSUME ArchiveTypeOK, NEW w \in Archivers, NEW phase \in Phases, Advance(w, phase)
    PROVE  saves' \in [Archivers -> SaveWithin]
<1> DEFINE row == [saves[w] EXCEPT !.phase = phase]
<1>1. saves \in [Archivers -> SaveWithin]  BY DEF ArchiveTypeOK, SaveWithin
<1>2. row \in SaveWithin  BY <1>1 DEF SaveWithin
<1>3. saves' = [saves EXCEPT ![w] = row]  BY DEF Advance
<1> HIDE DEF row
<1> QED  BY <1>1, <1>2, <1>3

LEMMA AbandonedWithin ==
    ASSUME ArchiveAssumption, ArchiveInv, ArchiveTypeOK, NEW w \in Archivers,
           saves[w].phase # "idle", Abandon(w)
    PROVE  saves' \in [Archivers -> SaveWithin] /\ verdict' \in [Urls -> Verdicts]
<1>1. saves \in [Archivers -> SaveWithin] /\ ArchiveShape
  BY DEF ArchiveTypeOK, SaveWithin, ArchiveInv
<1>2. Idle \in SaveWithin
  BY DEF ArchiveAssumption, Idle, SaveWithin, Phases, PushAttempts
<1>3. saves' = [saves EXCEPT ![w] = Idle]  BY DEF Abandon
<1> QED  BY <1>1, <1>2, <1>3, Abandoned

LEMMA NewFileWithin ==
    ASSUME ArchiveTypeOK, NEW w \in Archivers, NEW u \in Urls
    PROVE  NewFile(w, u) \in Files
<1>1. saves[w].day \in 0..MaxDay  BY DEF ArchiveTypeOK
<1>2. ArticleTitle[u] \in Titles  BY DEF Titles
<1>3. PlainFile(w, u) \in Files  BY <1>1, <1>2 DEF PlainFile, Files
<1>4. [PlainFile(w, u) EXCEPT !.print = u] \in Files  BY <1>3 DEF Files
<1> QED  BY <1>3, <1>4 DEF NewFile

LEMMA SaveStepWithin ==
    ASSUME ArchiveAssumption, ArchiveInv, ArchiveTypeOK, NEW w \in Archivers, SaveStep(w)
    PROVE  ArchiveTypeOK'
<1> USE DEF cloneVars
<1>0. /\ saves \in [Archivers -> SaveWithin] /\ ArchiveShape
      /\ gitFaults \in Nat /\ MaxGitFaults \in Nat
      /\ \A phase \in {"find", "pull", "push", "status", "commit", "mirror", "repull"} :
            phase \in Phases
  BY DEF ArchiveTypeOK, SaveWithin, ArchiveInv, ArchiveAssumption, Phases
<1>1. CASE Clone(w)
  <2>1. saves' \in [Archivers -> SaveWithin]
    BY <1>0, <1>1, AdvancedWithin DEF Clone
  <2> QED  BY <1>1, <2>1 DEF Clone, ArchiveTypeOK, SaveWithin
<1>2. CASE LsRemote(w)
  <2>1. saves' \in [Archivers -> SaveWithin]
    BY <1>0, <1>2, AdvancedWithin DEF LsRemote
  <2> QED  BY <1>2, <2>1 DEF LsRemote, ArchiveTypeOK, SaveWithin
<1>3. ASSUME NEW from \in Phases, NEW to \in Phases, PullRebaseSafely(w, from, to)
      PROVE  ArchiveTypeOK'
  <2>1. saves' \in [Archivers -> SaveWithin]
    BY <1>3, AdvancedWithin DEF PullRebaseSafely
  <2>2. head' = [head EXCEPT ![w] = head[w] \cup remote]
    BY <1>3 DEF PullRebaseSafely
  <2>3. head' \in [Archivers -> SUBSET Files]
    BY <2>2 DEF ArchiveTypeOK
  <2> QED  BY <1>3, <2>1, <2>3 DEF PullRebaseSafely, ArchiveTypeOK, SaveWithin
<1>4. CASE PullConflict(w) \/ GitFails(w) \/ RecordFails(w)
  <2>1. /\ saves[w].phase # "idle" /\ Abandon(w) /\ gitFaults' \in 0..MaxGitFaults
        /\ UNCHANGED <<deployment, remote, cloneVars, shared, day, notes>>
    BY <1>0, <1>4 DEF PullConflict, GitFails, RecordFails, ArchiveTypeOK
  <2>2. saves' \in [Archivers -> SaveWithin] /\ verdict' \in [Urls -> Verdicts]
    BY <2>1, AbandonedWithin
  <2> QED  BY <2>1, <2>2 DEF ArchiveTypeOK, SaveWithin
<1>5. CASE FindOrWrite(w)
  <2>1. /\ saves[w].phase = "find" /\ Advance(w, "status")
        /\ tree' = [tree EXCEPT ![w] = IF FindSourceUrl(w, saves[w].url) THEN tree[w]
                                       ELSE tree[w] \cup {NewFile(w, saves[w].url)}]
        /\ UNCHANGED <<deployment, remote, cloned, head, index, verdict, shared, day,
                       gitFaults, notes>>
    BY <1>5 DEF FindOrWrite
  <2>2. saves' \in [Archivers -> SaveWithin]  BY <1>0, <2>1, AdvancedWithin
  <2>3. NewFile(w, saves[w].url) \in Files  BY <2>1, BusyFacts, NewFileWithin
  <2>4. tree' \in [Archivers -> SUBSET Files]  BY <2>1, <2>3 DEF ArchiveTypeOK
  <2> QED  BY <2>1, <2>2, <2>4 DEF ArchiveTypeOK, SaveWithin
<1>6. CASE Add(w)
  <2> DEFINE files == Holding(tree[w], saves[w].url)
  <2>1. /\ index' = [index EXCEPT ![w] = index[w] \cup files]
        /\ tree' = [tree EXCEPT ![w] = tree[w] \ files]
        /\ UNCHANGED <<deployment, remote, cloned, head, verdict, shared, day,
                       gitFaults, notes>>
    BY <1>6 DEF Add
  <2>2. files \subseteq Files  BY DEF ArchiveTypeOK, Holding
  <2>3. index' \in [Archivers -> SUBSET Files] /\ tree' \in [Archivers -> SUBSET Files]
    BY <2>1, <2>2 DEF ArchiveTypeOK
  <2>4. saves' \in [Archivers -> SaveWithin]
    BY <1>0, <1>6, AdvancedWithin DEF Add, AfterStatus
  <2> QED  BY <2>1, <2>3, <2>4 DEF ArchiveTypeOK, SaveWithin
<1>7. CASE Commit(w)
  <2> DEFINE files == Holding(index[w], saves[w].url)
  <2>1. /\ head' = [head EXCEPT ![w] = head[w] \cup files]
        /\ index' = [index EXCEPT ![w] = index[w] \ files]
        /\ UNCHANGED <<deployment, remote, cloned, tree, verdict, shared, day,
                       gitFaults, notes>>
    BY <1>7 DEF Commit
  <2>2. files \subseteq Files  BY DEF ArchiveTypeOK, Holding
  <2>3. head' \in [Archivers -> SUBSET Files] /\ index' \in [Archivers -> SUBSET Files]
    BY <2>1, <2>2 DEF ArchiveTypeOK
  <2>4. saves' \in [Archivers -> SaveWithin]
    BY <1>0, <1>7, AdvancedWithin DEF Commit
  <2> QED  BY <2>1, <2>3, <2>4 DEF ArchiveTypeOK, SaveWithin
<1>8. CASE Push(w)
  <2>1. saves' \in [Archivers -> SaveWithin]
    BY <1>0, <1>8, AdvancedWithin DEF Push
  <2>2. remote' \subseteq Files  BY <1>8 DEF Push, ArchiveTypeOK
  <2> QED  BY <1>8, <2>1, <2>2 DEF Push, ArchiveTypeOK, SaveWithin
<1>9. ASSUME NEW arrived \in BOOLEAN, PushFails(w, arrived) PROVE ArchiveTypeOK'
  <2>1. /\ saves[w].phase = "push" /\ remote' \in {remote, head[w]}
        /\ UNCHANGED <<deployment, cloneVars, shared, day, notes>>
    BY <1>9 DEF PushFails
  <2>2. gitFaults' \in 0..MaxGitFaults
    BY <1>0, <1>9 DEF PushFails, ArchiveTypeOK
  <2>3. remote' \subseteq Files  BY <2>1 DEF ArchiveTypeOK
  <2>4. saves' \in [Archivers -> SaveWithin] /\ verdict' \in [Urls -> Verdicts]
    <3>1. CASE MorePushes(w)
      <4> DEFINE once == [saves[w] EXCEPT !.phase = "repull"]
                 row  == [once EXCEPT !.pushes = saves[w].pushes + 1]
      <4>1. saves[w] \in SaveWithin /\ saves[w].pushes < PushAttempts
        BY <1>0, <3>1 DEF MorePushes
      <4>2. once \in SaveWithin  BY <1>0, <4>1 DEF SaveWithin
      <4>3. saves[w].pushes + 1 \in 0..PushAttempts
        BY <4>1 DEF SaveWithin, PushAttempts
      <4> HIDE DEF once
      <4>4. row \in SaveWithin  BY <4>2, <4>3 DEF SaveWithin
      <4>5. /\ saves' = [saves EXCEPT ![w].phase = "repull",
                                      ![w].pushes = saves[w].pushes + 1]
            /\ verdict' = verdict
        BY <1>9, <3>1 DEF PushFails
      <4>6. saves' = [saves EXCEPT ![w] = row]  BY <4>5 DEF once
      <4> HIDE DEF row
      <4> QED  BY <1>0, <4>4, <4>5, <4>6 DEF ArchiveTypeOK
    <3>2. CASE ~MorePushes(w)
      <4>1. Abandon(w)  BY <1>9, <3>2 DEF PushFails
      <4> QED  BY <2>1, <4>1, AbandonedWithin
    <3> QED  BY <3>1, <3>2
  <2> QED  BY <2>1, <2>2, <2>3, <2>4 DEF ArchiveTypeOK, SaveWithin
<1>10. CASE Record(w)
  <2>1. Idle \in SaveWithin
    BY DEF ArchiveAssumption, Idle, SaveWithin, Phases, PushAttempts
  <2>2. /\ saves' = [saves EXCEPT ![w] = Idle]
        /\ verdict' = [verdict EXCEPT ![saves[w].url] = "saved"]
        /\ UNCHANGED <<deployment, remote, cloneVars, shared, day, gitFaults, notes>>
    BY <1>10 DEF Record
  <2>3. saves' \in [Archivers -> SaveWithin]  BY <1>0, <2>1, <2>2
  <2>4. verdict' \in [Urls -> Verdicts]  BY <2>2 DEF ArchiveTypeOK, Verdicts
  <2> QED  BY <2>2, <2>3, <2>4 DEF ArchiveTypeOK, SaveWithin
<1> QED
  BY <1>0, <1>1, <1>2, <1>3, <1>4, <1>5, <1>6, <1>7, <1>8, <1>9, <1>10 DEF SaveStep

LEMMA ArchiveStepWithin ==
    ASSUME ArchiveAssumption, ArchiveInv, ArchiveTypeOK, [ArchiveNext]_archiveVars
    PROVE  ArchiveTypeOK'
<1> USE DEF cloneVars
<1>0. /\ saves \in [Archivers -> SaveWithin] /\ MaxDay \in Nat /\ MaxNotes \in Nat
      /\ Idle \in SaveWithin /\ day \in 0..MaxDay /\ notes \in 0..MaxNotes
  BY DEF ArchiveTypeOK, SaveWithin, ArchiveAssumption, Idle, Phases, PushAttempts
<1>1. ASSUME NEW w \in Archivers, NEW u \in Urls, Extract(w, u) PROVE ArchiveTypeOK'
  <2> DEFINE row == [phase |-> "open", url |-> u, day |-> day, pushes |-> 1]
  <2>1. row \in SaveWithin  BY <1>0 DEF SaveWithin, Phases, PushAttempts
  <2>2. /\ saves' = [saves EXCEPT ![w] = row]
        /\ shared' \in {shared, shared \cup {u}}
        /\ UNCHANGED <<deployment, remote, cloneVars, verdict, day, gitFaults, notes>>
    BY <1>1 DEF Extract
  <2> HIDE DEF row
  <2>3. saves' \in [Archivers -> SaveWithin]  BY <1>0, <2>1, <2>2
  <2> QED  BY <2>2, <2>3 DEF ArchiveTypeOK, SaveWithin
<1>2. ASSUME NEW w \in Archivers, NEW u \in Urls, Skip(w, u) PROVE ArchiveTypeOK'
  <2>1. verdict' \in [Urls -> Verdicts]  BY <1>2 DEF Skip, ArchiveTypeOK, Verdicts
  <2> QED  BY <1>2, <2>1 DEF Skip, ArchiveTypeOK
<1>3. ASSUME NEW w \in Archivers, SaveStep(w) PROVE ArchiveTypeOK'
  BY <1>3, SaveStepWithin
<1>4. ASSUME NEW w \in Archivers, Crash(w) PROVE ArchiveTypeOK'
  <2>1. /\ saves' = [saves EXCEPT ![w] = Idle]
        /\ UNCHANGED <<deployment, remote, verdict, shared, day, gitFaults, notes>>
    BY <1>4 DEF Crash
  <2>2. saves' \in [Archivers -> SaveWithin]  BY <1>0, <2>1
  <2>3. CASE w = Pod  BY <1>4, <2>1, <2>2, <2>3 DEF Crash, ArchiveTypeOK, SaveWithin
  <2>4. CASE w # Pod
    <3>1. /\ cloned' \subseteq Archivers /\ head' \in [Archivers -> SUBSET Files]
          /\ index' \in [Archivers -> SUBSET Files]
          /\ tree' \in [Archivers -> SUBSET Files]
      BY <1>4, <2>4 DEF Crash, ArchiveTypeOK
    <3> QED  BY <2>1, <2>2, <3>1 DEF ArchiveTypeOK, SaveWithin
  <2> QED  BY <2>3, <2>4
<1>5. CASE OwnerPush
  <2> DEFINE note == [title |-> Note, day |-> notes, print |-> NoUrl, url |-> NoUrl,
                      by |-> NoUrl]
  <2>1. note \in Files  BY <1>0 DEF Files, Titles
  <2>2. /\ remote' = remote \cup {note} /\ notes' = notes + 1 /\ notes < MaxNotes
        /\ UNCHANGED <<deployment, cloneVars, saves, verdict, shared, day, gitFaults>>
    BY <1>5 DEF OwnerPush
  <2> HIDE DEF note
  <2>3. notes' \in 0..MaxNotes /\ remote' \subseteq Files
    BY <1>0, <2>1, <2>2 DEF ArchiveTypeOK
  <2> QED  BY <2>2, <2>3 DEF ArchiveTypeOK
<1>6. CASE NextDay
  <2>1. day' \in 0..MaxDay  BY <1>0, <1>6 DEF NextDay
  <2> QED  BY <1>6, <2>1 DEF NextDay, ArchiveTypeOK
<1>7. CASE UNCHANGED archiveVars  BY <1>7 DEF archiveVars, ArchiveTypeOK
<1> QED
  BY <1>1, <1>2, <1>3, <1>4, <1>5, <1>6, <1>7 DEF ArchiveNext

\* For any articles, workers, days and commits of the owner: a clone, its index
\* and its tree hold only files of the archive, and no save pushes more often
\* than it may (GitArticleRepository).
THEOREM ArchiveTypeCorrect == ArchiveSpec => []ArchiveTypeOK
<1>1. ArchiveInit => ArchiveInv /\ ArchiveTypeOK
  <2> SUFFICES ASSUME ArchiveInit PROVE ArchiveTypeOK
    BY ArchiveFirst, ArchiveAssumption
  <2>1. Idle \in SaveWithin
    BY ArchiveAssumption DEF ArchiveAssumption, Idle, SaveWithin, Phases, PushAttempts
  <2> QED
    BY <2>1, ArchiveAssumption
       DEF ArchiveInit, ArchiveTypeOK, ArchiveAssumption, SaveWithin, Verdicts
<1>2. ArchiveInv /\ ArchiveTypeOK /\ [ArchiveNext]_archiveVars
         => (ArchiveInv /\ ArchiveTypeOK)'
  BY ArchiveStep, ArchiveStepWithin, ArchiveAssumption
<1> QED  BY <1>1, <1>2, PTL DEF ArchiveSpec

(***************************************************************************)
(* Two collections of one source, for any number of collectors, items,     *)
(* pages, parsers and faults: nothing that can be read is passed over.     *)
(***************************************************************************)

\* the items up to one of a set
Below(S) == {i \in Saved : \E j \in S : i <= j}

\* of the items that can be read, a set has all that are older than one of it
Gapless(S) ==
    \A i, j \in feed \ Unreadable : i < j /\ j \in S => i \in S

\* a collection, and the range of what it has read
Collections ==
    [phase : {"idle", "read", "publish", "store", "delete"},
     base : SUBSET (Saved \cup {TitleOf[i] : i \in Saved}),
     page : 1..MaxPages, fresh : SUBSET Saved, counted : SUBSET Saved,
     doomed : SUBSET Saved]

CollectShape == collects \in [Collectors -> Collections]

\* nothing is known by its number before it was saved
SavedFirst ==
    /\ source # "tasks" => known \subseteq 1..saved
    /\ \A w \in Collectors :
         /\ source # "tasks" => collects[w].base \subseteq 1..saved
         /\ collects[w].fresh \subseteq 1..saved
         /\ collects[w].counted \subseteq 1..saved

\* what is out of the way: published, or an update that nothing is made of
Out == published \cup Dropped

\* what a collection starts from was published, and what it has read is
\* before anything is stored
PublishedRow(c) ==
    /\ c.base \subseteq KeysOf(Out)
    /\ c.phase \in {"store", "delete"} => c.fresh \subseteq published

PublishedBefore ==
    /\ KnownMeansPublished
    /\ GoneMeansPublished
    /\ \A w \in Collectors : PublishedRow(collects[w])

\* only tasks are deleted, those that were known and those that are new
DoomedRow(c) ==
    /\ c.doomed # {} => source = "tasks"
    /\ KeysOf(c.doomed) \subseteq c.base \cup KeysOf(c.fresh)

DoomedAreRead == \A w \in Collectors : DoomedRow(collects[w])

\* the offset: all below it is out of the way, and what the source does not hold
\* any more lies below it
OffsetRow(c) ==
    /\ Below(c.base) \subseteq c.base
    /\ c.phase \in {"publish", "store"} =>
         Below(c.base \cup c.counted) \subseteq Out \cup c.fresh

OffsetHolds ==
    source = "updates" =>
      /\ 1..saved \subseteq feed \cup gone
      /\ Below(known) \subseteq known
      /\ \A w \in Collectors : OffsetRow(collects[w])

\* pages: no gap in the state, none in what a collection starts from and ends
\* with; and while it reads, none in the pages that it has behind it
PageRow(c) ==
    /\ Gapless(c.base)
    /\ c.phase \in {"publish", "store"} => Gapless(c.base \cup c.fresh)
    /\ c.phase = "read" =>
         \A i \in feed \ Unreadable, j \in c.fresh :
           i < j /\ Rank(i) < (c.page - 1) * PageSize => i \in c.base \cup c.fresh

PagesHold ==
    source \notin {"updates", "tasks"} /\ ~torn =>
      /\ Gapless(known)
      /\ \A w \in Collectors : PageRow(collects[w])

CollectInv ==
    /\ CollectTypeOK /\ CollectShape /\ SavedFirst
    /\ PublishedBefore /\ DoomedAreRead /\ OffsetHolds /\ PagesHold

LEMMA CollectConstants ==
    /\ MaxSaved \in Nat /\ PageSize \in Nat \ {0} /\ MaxPages \in Nat \ {0}
    /\ MaxCollectFaults \in Nat
BY CollectionAssumption

\* Items of every source but the task list are known by their number.
LEMMA KeysAreItems ==
    ASSUME source # "tasks", NEW S
    PROVE  KeysOf(S) = S
BY DEF KeysOf, KeyOf

LEMMA KeysGrow ==
    ASSUME NEW S, NEW T, S \subseteq T
    PROVE  KeysOf(S) \subseteq KeysOf(T)
BY DEF KeysOf

\* a step replaces one collection
Becomes(w, row) ==
    /\ collects' = [v \in Collectors |-> collects'[v]]
    /\ collects'[w] = row
    /\ \A v \in Collectors \ {w} : collects'[v] = collects[v]

\* What a collection becomes as it begins, asks for updates, publishes, stores
\* and deletes, and when it ends or fails.
LEMMA CollectMoves ==
    ASSUME CollectShape, NEW w \in Collectors
    PROVE  LET c == collects[w] IN
           /\ Begin(w) => Becomes(w,
                [phase |-> "read", base |-> known, page |-> 1, fresh |-> {},
                 counted |-> {},
                 doomed |-> {}])
           /\ GetUpdates(w) => Becomes(w,
                [phase |-> "publish", base |-> c.base, page |-> c.page,
                 fresh |-> Readable(Oldest(feed \ c.base)),
                 counted |-> Oldest(feed \ c.base), doomed |-> c.doomed])
           /\ Publish(w) => Becomes(w,
                [phase |-> "store", base |-> c.base, page |-> c.page,
                 fresh |-> c.fresh,
                 counted |-> c.counted, doomed |-> c.doomed])
           /\ PutState(w) => Becomes(w,
                [phase |-> "delete", base |-> c.base, page |-> c.page,
                 fresh |-> c.fresh,
                 counted |-> c.counted, doomed |-> c.doomed])
           /\ DeleteTask(w) => \E i \in Saved :
                /\ Deletes(w, i)
                /\ Becomes(w,
                     [phase |-> c.phase, base |-> c.base, page |-> c.page,
                      fresh |-> c.fresh,
                      counted |-> c.counted, doomed |-> c.doomed \ {i}])
<1> DEFINE c == collects[w]
<1>1. c \in Collections /\ w \in DOMAIN collects
  BY DEF CollectShape
<1>2. c = [phase |-> c.phase, base |-> c.base, page |-> c.page,
           fresh |-> c.fresh,
           counted |-> c.counted, doomed |-> c.doomed]
  BY <1>1 DEF Collections
<1>3. ASSUME Begin(w)
      PROVE  Becomes(w,
                [phase |-> "read", base |-> known, page |-> 1, fresh |-> {},
                 counted |-> {},
                 doomed |-> {}])
  BY <1>3 DEF Begin, NoCollection, Becomes, CollectShape
<1>4. ASSUME GetUpdates(w)
      PROVE  Becomes(w,
                [phase |-> "publish", base |-> c.base, page |-> c.page,
                 fresh |-> Readable(Oldest(feed \ c.base)),
                 counted |-> Oldest(feed \ c.base), doomed |-> c.doomed])
  BY <1>1, <1>2, <1>4 DEF GetUpdates, CollectShape, Collections, Becomes
<1>5. ASSUME Publish(w)
      PROVE  Becomes(w,
                [phase |-> "store", base |-> c.base, page |-> c.page,
                 fresh |-> c.fresh,
                 counted |-> c.counted, doomed |-> c.doomed])
  BY <1>1, <1>2, <1>5 DEF Publish, CollectShape, Collections, Becomes
<1>6. ASSUME PutState(w)
      PROVE  Becomes(w,
                [phase |-> "delete", base |-> c.base, page |-> c.page,
                 fresh |-> c.fresh,
                 counted |-> c.counted, doomed |-> c.doomed])
  BY <1>1, <1>2, <1>6 DEF PutState, CollectShape, Collections, Becomes
<1>7. ASSUME DeleteTask(w)
      PROVE  \E i \in Saved :
                /\ Deletes(w, i)
                /\ Becomes(w,
                     [phase |-> c.phase, base |-> c.base, page |-> c.page,
                      fresh |-> c.fresh,
                      counted |-> c.counted, doomed |-> c.doomed \ {i}])
  BY <1>1, <1>2, <1>7 DEF DeleteTask, CollectShape, Collections, Becomes
<1> QED
  BY <1>3, <1>4, <1>5, <1>6, <1>7

\* What reading a page makes of the collection that reads it.
LEMMA ReadMoves ==
    ASSUME CollectShape, NEW w \in Collectors, NEW wait \in Waits, ReadPage(w, wait)
    PROVE  LET c     == collects[w]
               rows  == PageAt(c.page)
               items == Readable(rows)
               fresh == {i \in items : KeyOf(i) \notin c.base}
               ended == Ended(c.page, items, fresh)
               last  == ended \/ c.page = MaxPages \/ wait = "stalled"
           IN  Becomes(w,
                    [phase |-> IF last THEN "publish" ELSE c.phase,
                     base |-> c.base,
                     page |-> IF last THEN c.page ELSE c.page + 1,
                     fresh |-> c.fresh \cup fresh,
                     counted |-> c.counted,
                     doomed |-> IF source = "tasks" THEN Doomed(rows, items)
                                ELSE c.doomed])
<1> DEFINE c     == collects[w]
           rows  == PageAt(c.page)
           items == Readable(rows)
           fresh == {i \in items : KeyOf(i) \notin c.base}
           ended == Ended(c.page, items, fresh)
           last  == ended \/ c.page = MaxPages \/ wait = "stalled"
           all   == c.fresh \cup fresh
           page  == IF last THEN c.page ELSE c.page + 1
           doom  == IF source = "tasks" THEN Doomed(rows, items) ELSE c.doomed
           phase == IF last THEN "publish" ELSE c.phase
<1>1. collects' = [collects EXCEPT ![w].fresh = all, ![w].page = page,
                                   ![w].doomed = doom, ![w].phase = phase]
  BY DEF ReadPage, CollectShape, Collections
<1>2. collects \in [Collectors -> Collections]
  BY DEF CollectShape
<1> HIDE DEF all, page, doom, phase
<1>3. collects' = [v \in Collectors |-> collects'[v]]
      /\ \A v \in Collectors \ {w} : collects'[v] = collects[v]
  BY <1>1, <1>2
<1>4. collects'[w] = [phase |-> phase, base |-> c.base, page |-> page,
                      fresh |-> all,
                      counted |-> c.counted, doomed |-> doom]
  BY <1>1, <1>2 DEF Collections
<1>5. Becomes(w, [phase |-> phase, base |-> c.base, page |-> page,
                  fresh |-> all,
                  counted |-> c.counted, doomed |-> doom])
  BY <1>3, <1>4 DEF Becomes
<1> QED
  BY <1>5 DEF all, page, doom, phase

LEMMA NoCollectionShape ==
    /\ NoCollection \in Collections
    /\ NoCollection.phase = "idle" /\ NoCollection.base = {}
    /\ NoCollection.fresh = {} /\ NoCollection.counted = {}
    /\ NoCollection.doomed = {}
BY CollectConstants DEF NoCollection, Collections

LEMMA OneMoves ==
    ASSUME CollectShape, NEW w \in Collectors, NEW row \in Collections,
           Becomes(w, row)
    PROVE  CollectShape'
BY DEF CollectShape, Becomes

\* What a collection has read is among what was saved, and its keys are keys.
LEMMA RememberedKeys ==
    ASSUME CollectTypeOK, CollectShape, SavedFirst, NEW w \in Collectors
    PROVE  /\ StateUpdates(w) \subseteq Saved \cup {TitleOf[i] : i \in Saved}
           /\ source # "tasks" => StateUpdates(w) \subseteq 1..saved
<1> DEFINE c == collects[w]
<1>1. /\ c.fresh \subseteq 1..saved /\ c.fresh \subseteq Saved
      /\ c.counted \subseteq 1..saved
      /\ c.base \subseteq Saved \cup {TitleOf[i] : i \in Saved}
      /\ known \subseteq Saved \cup {TitleOf[i] : i \in Saved}
      /\ source # "tasks" => c.base \subseteq 1..saved /\ known \subseteq 1..saved
  BY DEF CollectTypeOK, CollectShape, Collections, SavedFirst
<1>2. saved \in Nat /\ MaxSaved \in Nat
  BY CollectConstants DEF CollectTypeOK
<1>3. KeysOf(c.fresh) \subseteq Saved \cup {TitleOf[i] : i \in Saved}
  BY <1>1 DEF KeysOf, KeyOf
<1>4. source # "tasks" => KeysOf(c.fresh) = c.fresh
  BY KeysAreItems
<1>5. source # "tasks" => Remembered(w) \subseteq 1..saved
  <2>1. SUFFICES ASSUME source # "tasks", NEW i \in Remembered(w)
                 PROVE  i \in 1..saved
    OBVIOUS
  <2>2. i \in 1..saved \/ \E j \in c.base \cup c.counted : i \in Saved /\ i <= j
    BY <1>1, <1>4, <2>1 DEF Remembered
  <2> QED
    BY <1>1, <1>2, <2>1, <2>2 DEF Saved
<1>6. Remembered(w) \subseteq Saved \cup {TitleOf[i] : i \in Saved}
  BY <1>1, <1>3 DEF Remembered
<1> QED
  BY <1>1, <1>5, <1>6 DEF StateUpdates

LEMMA FeedFinite ==
    ASSUME CollectTypeOK
    PROVE  /\ feed \subseteq Nat /\ saved \in Nat
           /\ IsFiniteSet(feed) /\ Cardinality(feed) \in Nat
<1>1. saved \in Nat /\ feed \subseteq 1..saved
  BY CollectConstants DEF CollectTypeOK
<1>2. IsFiniteSet(1..saved)
  BY <1>1, FS_Interval
<1>3. IsFiniteSet(feed)
  BY <1>1, <1>2, FS_Subset
<1> QED
  BY <1>1, <1>3, FS_CardinalityType

\* The rank of an item is one of the places of the feed, and a newer item has
\* a lower one.
LEMMA RankPlaces ==
    ASSUME CollectTypeOK, NEW i \in feed
    PROVE  /\ Rank(i) \in 0..(Cardinality(feed) - 1)
           /\ \A j \in feed : i < j => Rank(j) < Rank(i)
<1> DEFINE Above(k) == {l \in feed : l > k}
<1>1. feed \subseteq Nat /\ IsFiniteSet(feed) /\ Cardinality(feed) \in Nat
  BY FeedFinite
<1>2. \A k : IsFiniteSet(Above(k)) /\ Cardinality(Above(k)) \in Nat
  BY <1>1, FS_Subset, FS_CardinalityType
<1>3. \A k \in feed : Rank(k) = Cardinality(Above(k))
  BY DEF Rank
<1>4. Cardinality(Above(i)) <= Cardinality(feed) - 1
  <2>1. IsFiniteSet(feed \ {i}) /\ Cardinality(feed \ {i}) = Cardinality(feed) - 1
    BY <1>1, FS_RemoveElement
  <2>2. Above(i) \subseteq feed \ {i}
    BY <1>1
  <2> QED
    BY <2>1, <2>2, FS_Subset
<1>5. ASSUME NEW j \in feed, i < j
      PROVE  Cardinality(Above(j)) < Cardinality(Above(i))
  <2>1. Above(j) \subseteq Above(i) /\ j \in Above(i) /\ j \notin Above(j)
    <3>1. i \in Nat /\ j \in Nat
      BY <1>1
    <3>2. j > i /\ ~(j > j) /\ \A l \in Nat : l > j => l > i
      BY <3>1, <1>5
    <3> QED
      BY <3>2, <1>1
  <2>2. /\ Cardinality(Above(j)) <= Cardinality(Above(i))
        /\ Cardinality(Above(i)) = Cardinality(Above(j)) => Above(i) = Above(j)
    BY <1>2, <2>1, FS_Subset
  <2> HIDE DEF Above
  <2> QED
    BY <1>2, <2>1, <2>2
<1> HIDE DEF Above
<1>6. Cardinality(Above(i)) \in 0..(Cardinality(feed) - 1)
  BY <1>1, <1>2, <1>4
<1> QED
  BY <1>3, <1>5, <1>6

\* Any places of the feed hold as many items.
LEMMA PlacesFilled ==
    ASSUME CollectTypeOK, NEW lo \in Nat, NEW n \in Nat,
           lo + n <= Cardinality(feed)
    PROVE  LET P == {i \in feed : Rank(i) >= lo /\ Rank(i) < lo + n}
           IN  IsFiniteSet(P) /\ Cardinality(P) = n
<1> DEFINE P == {i \in feed : Rank(i) >= lo /\ Rank(i) < lo + n}
           k == Cardinality(feed)
           f == [i \in feed |-> Rank(i)]
           g == [i \in P |-> Rank(i)]
<1>1. feed \subseteq Nat /\ IsFiniteSet(feed) /\ k \in Nat
  BY FeedFinite
<1>2. /\ IsFiniteSet(0..(k - 1)) /\ Cardinality(0..(k - 1)) = k
      /\ Cardinality(lo..(lo + n - 1)) = n /\ IsFiniteSet(lo..(lo + n - 1))
  <2> HIDE DEF k
  <2>1. 0 \in Int /\ k - 1 \in Int /\ lo \in Int /\ lo + n - 1 \in Int
    BY <1>1
  <2>2. /\ IsFiniteSet(0..(k - 1))
        /\ Cardinality(0..(k - 1)) = IF 0 > k - 1 THEN 0 ELSE (k - 1) - 0 + 1
    BY <2>1, FS_Interval
  <2>3. /\ IsFiniteSet(lo..(lo + n - 1))
        /\ Cardinality(lo..(lo + n - 1)) =
             IF lo > lo + n - 1 THEN 0 ELSE (lo + n - 1) - lo + 1
    BY <2>1, FS_Interval
  <2> QED
    BY <1>1, <2>2, <2>3
<1>3. /\ \A i \in feed : Rank(i) \in 0..(k - 1)
      /\ \A i, j \in feed : i # j => Rank(i) # Rank(j)
  <2>1. \A i \in feed : Rank(i) \in 0..(k - 1)
    BY RankPlaces
  <2>2. ASSUME NEW i \in feed, NEW j \in feed, i < j
        PROVE  Rank(i) # Rank(j)
    BY <1>1, <2>1, <2>2, RankPlaces
  <2> QED
    BY <1>1, <2>1, <2>2
<1>4. f \in Injection(feed, 0..(k - 1))
  BY <1>3 DEF Injection, IsInjective
<1>5. f \in Surjection(feed, 0..(k - 1))
  BY <1>2, <1>4, FS_Injection
<1>6. g \in Injection(P, lo..(lo + n - 1))
  <2>1. \A i \in P : g[i] \in lo..(lo + n - 1)
    BY <1>3
  <2>2. \A i, j \in P : g[i] = g[j] => i = j
    BY <1>3
  <2> QED
    BY <2>1, <2>2 DEF Injection, IsInjective
<1>7. g \in Surjection(P, lo..(lo + n - 1))
  <2>1. ASSUME NEW r \in lo..(lo + n - 1)
        PROVE  \E i \in P : g[i] = r
    <3>1. r \in 0..(k - 1)
      BY <1>1
    <3>2. PICK i \in feed : f[i] = r
      BY <1>5, <3>1 DEF Surjection
    <3> QED
      BY <3>2
  <2> QED
    BY <1>6, <2>1 DEF Injection, Surjection
<1> HIDE DEF P, g
<1>8. IsFiniteSet(P) /\ Cardinality(P) = Cardinality(lo..(lo + n - 1))
  BY <1>2, <1>6, <1>7, FS_Injection
<1> QED
  BY <1>2, <1>8 DEF P

CollectTyped == CollectTypeOK /\ CollectShape /\ SavedFirst

\* The types of the variables that are not about one collection.
CollectWorld ==
    LET Keys == Saved \cup {TitleOf[i] : i \in Saved}
    IN  /\ source \in Sources
        /\ saved \in 0..MaxSaved /\ feed \subseteq 1..saved
        /\ known \subseteq Keys
        /\ published \subseteq Saved /\ gone \subseteq Saved
        /\ torn \in BOOLEAN /\ collectFaults \in 0..MaxCollectFaults

\* A step that replaces one collection by another one keeps the types, if it
\* keeps those of the rest and reads nothing before it is saved.
LEMMA TypedMove ==
    ASSUME CollectTyped, NEW w \in Collectors, NEW row \in Collections,
           Becomes(w, row), CollectWorld', source' = source, saved <= saved',
           source # "tasks" => row.base \subseteq 1..saved',
           source # "tasks" => known' \subseteq 1..saved',
           row.fresh \subseteq 1..saved', row.counted \subseteq 1..saved'
    PROVE  CollectTyped'
<1>1. CollectShape'
  BY OneMoves DEF CollectTyped
<1>2. saved \in Nat /\ saved' \in Nat
  BY CollectConstants DEF CollectTyped, CollectTypeOK, CollectWorld
<1>3. 1..saved \subseteq 1..saved'
  BY <1>2
<1>4. SavedFirst'
  <2>1. ASSUME NEW v \in Collectors
        PROVE  /\ source # "tasks" => collects'[v].base \subseteq 1..saved'
               /\ collects'[v].fresh \subseteq 1..saved'
               /\ collects'[v].counted \subseteq 1..saved'
    <3>1. CASE v = w
      BY <3>1 DEF Becomes
    <3>2. CASE v # w
      BY <1>3, <3>2 DEF Becomes, CollectTyped, SavedFirst
    <3> QED
      BY <3>1, <3>2
  <2> QED
    BY <2>1 DEF SavedFirst
<1>5. CollectTypeOK'
  <2>1. ASSUME NEW v \in Collectors
        PROVE  /\ collects'[v].phase \in {"idle", "read", "publish", "store",
                                          "delete"}
               /\ collects'[v].base
                    \subseteq Saved \cup {TitleOf[i] : i \in Saved}
               /\ collects'[v].page \in 1..MaxPages
               /\ collects'[v].fresh \subseteq Saved
               /\ collects'[v].counted \subseteq Saved
               /\ collects'[v].doomed \subseteq Saved
    BY <1>1 DEF CollectShape, Collections
  <2> QED
    BY <2>1 DEF CollectWorld, CollectTypeOK
<1> QED
  BY <1>1, <1>4, <1>5 DEF CollectTyped

\* a collection that ends or fails
LEMMA TypedEnd ==
    ASSUME CollectTyped, NEW w \in Collectors,
           collects' = [collects EXCEPT ![w] = NoCollection],
           CollectWorld', source' = source, saved' = saved,
           source # "tasks" => known' \subseteq 1..saved
    PROVE  CollectTyped'
<1>1. Becomes(w, NoCollection)
  BY DEF Becomes, CollectTyped, CollectShape
<1>2. saved \in Nat
  BY CollectConstants DEF CollectTyped, CollectTypeOK
<1> QED
  BY <1>1, <1>2, NoCollectionShape, TypedMove

LEMMA WorldTyped ==
    ASSUME CollectTyped
    PROVE  /\ CollectWorld /\ saved \in Nat
           /\ 1..saved \subseteq Saved
           /\ \A w \in Collectors : collects[w] \in Collections
BY CollectConstants
   DEF CollectTyped, CollectTypeOK, CollectWorld, CollectShape, Saved

LEMMA TypedRead ==
    ASSUME CollectTyped, NEW w \in Collectors, NEW wait \in Waits, ReadPage(w, wait)
    PROVE  CollectTyped'
<1> DEFINE c     == collects[w]
           rows  == PageAt(c.page)
           items == Readable(rows)
           fresh == {i \in items : KeyOf(i) \notin c.base}
           ended == Ended(c.page, items, fresh)
           last  == ended \/ c.page = MaxPages \/ wait = "stalled"
           row   == [phase |-> IF last THEN "publish" ELSE c.phase,
                     base |-> c.base,
                     page |-> IF last THEN c.page ELSE c.page + 1,
                     fresh |-> c.fresh \cup fresh,
                     counted |-> c.counted,
                     doomed |-> IF source = "tasks" THEN Doomed(rows, items)
                                ELSE c.doomed]
<1>1. Becomes(w, row)
  BY ReadMoves DEF CollectTyped
<1>2. rows \subseteq feed /\ items \subseteq feed /\ fresh \subseteq feed
      /\ Doomed(rows, items) \subseteq feed
  BY DEF PageAt, Readable, Doomed
<1>3. feed \subseteq 1..saved /\ 1..saved \subseteq Saved
  BY WorldTyped DEF CollectWorld
<1>4. c \in Collections /\ c.fresh \subseteq 1..saved
      /\ c.counted \subseteq 1..saved
      /\ (source # "tasks" => c.base \subseteq 1..saved)
      /\ (source # "tasks" => known \subseteq 1..saved)
  BY WorldTyped DEF CollectTyped, SavedFirst
<1>5. (IF last THEN c.page ELSE c.page + 1) \in 1..MaxPages
  <2>1. c.page \in 1..MaxPages /\ MaxPages \in Nat
    BY <1>4, CollectConstants DEF Collections
  <2>2. ~last => c.page # MaxPages
    OBVIOUS
  <2> HIDE DEF last
  <2> QED
    BY <2>1, <2>2
<1>6. /\ source' = source /\ feed' = feed /\ saved' = saved /\ known' = known
      /\ published' = published /\ gone' = gone
      /\ collectFaults' = collectFaults /\ torn' \in BOOLEAN
  <2>1. torn \in BOOLEAN
    BY WorldTyped DEF CollectWorld
  <2> QED
    BY <2>1 DEF ReadPage
<1>7. CollectWorld'
  BY <1>6, WorldTyped DEF CollectWorld
<1> HIDE DEF fresh, items, rows, last
<1>8. row \in Collections
  BY <1>2, <1>3, <1>4, <1>5 DEF Collections
<1>9. row.base = c.base /\ row.fresh = c.fresh \cup fresh /\ row.counted = c.counted
  OBVIOUS
<1>10. /\ row.fresh \subseteq 1..saved /\ row.counted \subseteq 1..saved
       /\ source # "tasks" => row.base \subseteq 1..saved
  BY <1>2, <1>3, <1>4, <1>9
<1>11. saved \in Nat /\ saved <= saved
  BY WorldTyped
<1> HIDE DEF row, c
<1> QED
  BY <1>1, <1>4, <1>6, <1>7, <1>8, <1>10, <1>11, TypedMove

LEMMA StepKeepsTyped == CollectTyped /\ [CollectNext]_collectVars => CollectTyped'
<1> SUFFICES ASSUME CollectTyped, [CollectNext]_collectVars
             PROVE  CollectTyped'
  OBVIOUS
<1>w. /\ CollectWorld /\ saved \in Nat /\ 1..saved \subseteq Saved
      /\ CollectShape
      /\ source # "tasks" => known \subseteq 1..saved
  BY WorldTyped DEF CollectTyped, SavedFirst
<1>c. ASSUME NEW w \in Collectors
      PROVE  /\ collects[w] \in Collections
             /\ source # "tasks" => collects[w].base \subseteq 1..saved
             /\ collects[w].fresh \subseteq 1..saved
             /\ collects[w].counted \subseteq 1..saved
  BY WorldTyped DEF CollectTyped, SavedFirst
<1>k. ASSUME NEW w \in Collectors
      PROVE  /\ StateUpdates(w) \subseteq Saved \cup {TitleOf[i] : i \in Saved}
             /\ source # "tasks" => StateUpdates(w) \subseteq 1..saved
  BY RememberedKeys DEF CollectTyped
<1>1. CASE SaveItem
  <2>1. saved' = saved + 1 /\ saved' \in 0..MaxSaved /\ feed' \subseteq 1..saved'
    <3>1. saved' = saved + 1 /\ saved < MaxSaved /\ feed' = feed \cup {saved + 1}
      BY <1>1 DEF SaveItem
    <3>2. saved + 1 \in 0..MaxSaved /\ (1..saved) \cup {saved + 1} \subseteq 1..(saved + 1)
      BY <1>w, <3>1, CollectConstants
    <3>3. feed \subseteq 1..saved
      BY <1>w DEF CollectWorld
    <3> QED
      BY <3>1, <3>2, <3>3
  <2>2. 1..saved \subseteq 1..saved'
    BY <1>w, <2>1
  <2>3. SavedFirst'
    BY <1>1, <2>2 DEF SaveItem, SavedFirst, CollectTyped
  <2> QED
    BY <1>1, <2>1, <2>3
       DEF SaveItem, CollectTyped, CollectTypeOK, CollectShape
<1>2. CASE \E i \in Saved : TakeBack(i)
  <2>1. PICK i \in Saved : TakeBack(i)
    BY <1>2
  <2>2. torn' \in BOOLEAN /\ feed' \subseteq feed
    BY <2>1, <1>w DEF TakeBack, CollectWorld
  <2> QED
    BY <2>1, <2>2
       DEF TakeBack, CollectTyped, CollectTypeOK, CollectShape, SavedFirst
<1>3. ASSUME NEW w \in Collectors, Begin(w)
      PROVE  CollectTyped'
  <2> DEFINE row == [phase |-> "read", base |-> known, page |-> 1,
                     fresh |-> {},
                     counted |-> {}, doomed |-> {}]
  <2>1. Becomes(w, row)
    BY <1>3, <1>w, CollectMoves
  <2>2. row \in Collections
    BY <1>w, CollectConstants DEF Collections, CollectWorld
  <2>3. CollectWorld' /\ source' = source /\ saved' = saved /\ known' = known
    BY <1>3, <1>w DEF Begin, CollectWorld
  <2>4. row.base = known /\ row.fresh = {} /\ row.counted = {}
    OBVIOUS
  <2> HIDE DEF row
  <2> QED
    BY <1>w, <2>1, <2>2, <2>3, <2>4, TypedMove
<1>4. ASSUME NEW w \in Collectors, GetUpdates(w)
      PROVE  CollectTyped'
  <2> DEFINE c   == collects[w]
             row == [phase |-> "publish", base |-> c.base, page |-> c.page,
                     fresh |-> Readable(Oldest(feed \ c.base)),
                     counted |-> Oldest(feed \ c.base), doomed |-> c.doomed]
  <2>1. Becomes(w, row)
    BY <1>4, <1>w, CollectMoves
  <2>2. /\ Oldest(feed \ c.base) \subseteq 1..saved
        /\ Readable(Oldest(feed \ c.base)) \subseteq 1..saved
    BY <1>w DEF Oldest, Readable, CollectWorld
  <2>3. row \in Collections
    BY <1>c, <1>w, <2>2 DEF Collections
  <2>4. CollectWorld' /\ source' = source /\ saved' = saved /\ known' = known
    BY <1>4, <1>w DEF GetUpdates, CollectWorld
  <2>5. /\ row.base = c.base /\ row.fresh = Readable(Oldest(feed \ c.base))
        /\ row.counted = Oldest(feed \ c.base)
    OBVIOUS
  <2> HIDE DEF row
  <2>6. /\ row.fresh \subseteq 1..saved /\ row.counted \subseteq 1..saved
        /\ source # "tasks" => row.base \subseteq 1..saved
    BY <1>c, <2>2, <2>5
  <2> QED
    BY <1>w, <2>1, <2>3, <2>4, <2>6, TypedMove
<1>5. ASSUME NEW w \in Collectors, Publish(w)
      PROVE  CollectTyped'
  <2> DEFINE c   == collects[w]
             row == [phase |-> "store", base |-> c.base, page |-> c.page,
                     fresh |-> c.fresh,
                     counted |-> c.counted, doomed |-> c.doomed]
  <2>1. Becomes(w, row)
    BY <1>5, <1>w, CollectMoves
  <2>2. row \in Collections
    BY <1>c DEF Collections
  <2>3. CollectWorld' /\ source' = source /\ saved' = saved /\ known' = known
    BY <1>5, <1>w, <1>c DEF Publish, CollectWorld, Collections
  <2>4. row.base = c.base /\ row.fresh = c.fresh /\ row.counted = c.counted
    OBVIOUS
  <2> HIDE DEF row
  <2> QED
    BY <1>c, <1>w, <2>1, <2>2, <2>3, <2>4, TypedMove
<1>6. ASSUME NEW w \in Collectors, PutState(w)
      PROVE  CollectTyped'
  <2> DEFINE c   == collects[w]
             row == [phase |-> "delete", base |-> c.base, page |-> c.page,
                     fresh |-> c.fresh,
                     counted |-> c.counted, doomed |-> c.doomed]
  <2>1. Becomes(w, row)
    BY <1>6, <1>w, CollectMoves
  <2>2. row \in Collections
    BY <1>c DEF Collections
  <2>3. /\ CollectWorld' /\ source' = source /\ saved' = saved
        /\ known' = StateUpdates(w)
    BY <1>6, <1>w, <1>k DEF PutState, CollectWorld
  <2>4. row.base = c.base /\ row.fresh = c.fresh /\ row.counted = c.counted
    OBVIOUS
  <2> HIDE DEF row
  <2> QED
    BY <1>c, <1>w, <1>k, <2>1, <2>2, <2>3, <2>4, TypedMove
<1>7. ASSUME NEW w \in Collectors, DeleteTask(w)
      PROVE  CollectTyped'
  <2>1. PICK i \in Saved :
          /\ Deletes(w, i)
          /\ Becomes(w, [phase |-> collects[w].phase,
                         base |-> collects[w].base,
                         page |-> collects[w].page,
                         fresh |-> collects[w].fresh,
                         counted |-> collects[w].counted,
                         doomed |-> collects[w].doomed \ {i}])
    BY <1>7, <1>w, CollectMoves
  <2> DEFINE c   == collects[w]
             row == [phase |-> c.phase, base |-> c.base, page |-> c.page,
                     fresh |-> c.fresh,
                     counted |-> c.counted, doomed |-> c.doomed \ {i}]
  <2>2. row \in Collections
    BY <1>c DEF Collections
  <2>3. CollectWorld' /\ source' = source /\ saved' = saved /\ known' = known
    BY <1>7, <2>1, <1>w DEF DeleteTask, Deletes, CollectWorld
  <2>4. row.base = c.base /\ row.fresh = c.fresh /\ row.counted = c.counted
    OBVIOUS
  <2>5. Becomes(w, row)
    BY <2>1
  <2> HIDE DEF row
  <2> QED
    BY <1>c, <1>w, <2>2, <2>3, <2>4, <2>5, TypedMove
<1>8. ASSUME NEW w \in Collectors, Observe(w) \/ Complete(w)
      PROVE  CollectTyped'
  <2>1. CollectWorld' /\ source' = source /\ saved' = saved /\ known' = known
    BY <1>8, <1>w DEF Observe, Complete, CollectWorld
  <2> QED
    BY <1>8, <1>w, <2>1, TypedEnd DEF Observe, Complete
<1>9. ASSUME NEW w \in Collectors, NEW got \in SUBSET Saved,
             NEW done \in BOOLEAN, CollectFails(w, got, done)
      PROVE  CollectTyped'
  <2>1. feed' \subseteq feed /\ gone' \subseteq Saved
    BY <1>9, <1>w DEF CollectFails, Deletes, CollectWorld
  <2>2. known' = known \/ known' = StateUpdates(w)
    BY <1>9 DEF CollectFails
  <2>3. /\ source' = source /\ saved' = saved /\ torn' = torn
        /\ published' \subseteq Saved
        /\ collects' = [collects EXCEPT ![w] = NoCollection]
    BY <1>9, <1>w DEF CollectFails, CollectWorld
  <2>4. collectFaults' \in 0..MaxCollectFaults
    BY <1>9, <1>w, CollectConstants DEF CollectFails, CollectWorld
  <2>5. CollectWorld'
    BY <1>w, <1>k, <2>1, <2>2, <2>3, <2>4 DEF CollectWorld
  <2> QED
    BY <1>w, <1>k, <2>2, <2>3, <2>5, TypedEnd
<1>10. CASE UNCHANGED collectVars
  BY <1>10 DEF collectVars, CollectTyped, CollectTypeOK, CollectShape, SavedFirst
<1> QED
  BY <1>1, <1>2, <1>3, <1>4, <1>5, <1>6, <1>7, <1>8, <1>9, <1>10, TypedRead
     DEF CollectNext

\* Whichever collection a step is of, the others stay.
LEMMA EndBecomes ==
    ASSUME CollectShape, NEW w \in Collectors,
           collects' = [collects EXCEPT ![w] = NoCollection]
    PROVE  Becomes(w, NoCollection)
BY DEF Becomes, CollectShape

LEMMA FailMoves ==
    ASSUME CollectShape, NEW w \in Collectors,
           \/ Observe(w) \/ Complete(w)
           \/ \E got \in SUBSET Saved, done \in BOOLEAN :
                CollectFails(w, got, done)
    PROVE  Becomes(w, NoCollection) /\ source' = source /\ torn' = torn
BY EndBecomes DEF Observe, Complete, CollectFails

\* The sets of what is published and of what is saved grow.
LEMMA CollectGrows ==
    ASSUME CollectTyped, [CollectNext]_collectVars
    PROVE  /\ source' = source
           /\ published \subseteq published'
           /\ gone \subseteq gone'
           /\ torn => torn'
<1>1. ASSUME SaveItem \/ \E i \in Saved : TakeBack(i)
      PROVE  /\ source' = source /\ published' = published /\ gone' = gone
             /\ torn => torn'
  <2>1. CASE SaveItem
    BY <2>1 DEF SaveItem
  <2>2. ASSUME NEW i \in Saved, TakeBack(i)
        PROVE  /\ source' = source /\ published' = published /\ gone' = gone
               /\ torn => torn'
    BY <2>2, Zenon DEF TakeBack
  <2> QED
    BY <1>1, <2>1, <2>2
<1>2. ASSUME NEW w \in Collectors, Begin(w) \/ Observe(w) \/ PutState(w) \/ Complete(w)
      PROVE  /\ source' = source /\ published' = published /\ gone' = gone
             /\ torn' = torn
  BY <1>2 DEF Begin, Observe, PutState, Complete
<1>3. ASSUME NEW w \in Collectors, NEW wait \in Waits, ReadPage(w, wait)
      PROVE  /\ source' = source /\ published' = published /\ gone' = gone
             /\ torn => torn'
  BY <1>3 DEF ReadPage
<1>4. ASSUME NEW w \in Collectors, GetUpdates(w) \/ Publish(w) \/ DeleteTask(w)
      PROVE  /\ source' = source /\ published \subseteq published'
             /\ gone \subseteq gone' /\ torn' = torn
  BY <1>4 DEF GetUpdates, Publish, DeleteTask, Deletes
<1>5. ASSUME NEW w \in Collectors, NEW got \in SUBSET Saved,
             NEW done \in BOOLEAN, CollectFails(w, got, done)
      PROVE  /\ source' = source /\ published \subseteq published'
             /\ gone \subseteq gone' /\ torn' = torn
  BY <1>5 DEF CollectFails, Deletes
<1>6. CASE UNCHANGED collectVars
  BY <1>6 DEF collectVars
<1> QED
  BY <1>1, <1>2, <1>3, <1>4, <1>5, <1>6 DEF CollectNext

LEMMA StepKeepsDoomed ==
    CollectTyped /\ DoomedAreRead /\ [CollectNext]_collectVars => DoomedAreRead'
<1> SUFFICES ASSUME CollectTyped, DoomedAreRead, [CollectNext]_collectVars
             PROVE  DoomedAreRead'
  OBVIOUS
<1>1. CollectShape /\ source' = source
  BY CollectGrows DEF CollectTyped
<1>k. \A S : KeysOf(S)' = KeysOf(S)
  BY <1>1 DEF KeysOf, KeyOf
<1>2. ASSUME NEW w \in Collectors, NEW row, Becomes(w, row),
             row.doomed # {} => source = "tasks",
             KeysOf(row.doomed) \subseteq row.base \cup KeysOf(row.fresh)
      PROVE  DoomedAreRead'
  <2>1. ASSUME NEW v \in Collectors
        PROVE  collects'[v] = row \/ collects'[v] = collects[v]
    BY <1>2 DEF Becomes
  <2>2. ASSUME NEW v \in Collectors
        PROVE  DoomedRow(collects[v])'
    BY <1>1, <1>2, <1>k, <2>1 DEF DoomedAreRead, DoomedRow
  <2> QED
    BY <2>2 DEF DoomedAreRead
<1>3. ASSUME collects' = collects
      PROVE  DoomedAreRead'
  BY <1>1, <1>3, <1>k DEF DoomedAreRead, DoomedRow
<1>c. ASSUME NEW w \in Collectors
      PROVE  /\ collects[w].doomed # {} => source = "tasks"
             /\ KeysOf(collects[w].doomed)
                  \subseteq collects[w].base \cup KeysOf(collects[w].fresh)
  BY DEF DoomedAreRead, DoomedRow
<1>n. KeysOf({}) = {}
  BY DEF KeysOf
<1>4. ASSUME NEW w \in Collectors, Begin(w)
      PROVE  DoomedAreRead'
  <2> DEFINE row == [phase |-> "read", base |-> known, page |-> 1,
                     fresh |-> {},
                     counted |-> {}, doomed |-> {}]
  <2>1. Becomes(w, row)
    BY <1>1, <1>4, CollectMoves
  <2>2. row.doomed = {}
    OBVIOUS
  <2> HIDE DEF row
  <2> QED
    BY <1>2, <1>n, <2>1, <2>2
<1>5. ASSUME NEW w \in Collectors, NEW wait \in Waits, ReadPage(w, wait)
      PROVE  DoomedAreRead'
  <2> DEFINE c     == collects[w]
             rows  == PageAt(c.page)
             items == Readable(rows)
             fresh == {i \in items : KeyOf(i) \notin c.base}
             ended == Ended(c.page, items, fresh)
             last  == ended \/ c.page = MaxPages \/ wait = "stalled"
             row   == [phase |-> IF last THEN "publish" ELSE c.phase,
                       base |-> c.base,
                       page |-> IF last THEN c.page ELSE c.page + 1,
                       fresh |-> c.fresh \cup fresh,
                       counted |-> c.counted,
                       doomed |-> IF source = "tasks" THEN Doomed(rows, items)
                                  ELSE c.doomed]
  <2>1. Becomes(w, row)
    BY <1>1, <1>5, ReadMoves
  <2>2. KeysOf(Doomed(rows, items)) \subseteq c.base \cup KeysOf(c.fresh \cup fresh)
    BY DEF Doomed, KeysOf
  <2>3. /\ row.doomed = IF source = "tasks" THEN Doomed(rows, items) ELSE c.doomed
        /\ row.base = c.base /\ row.fresh = c.fresh \cup fresh
    OBVIOUS
  <2>4. KeysOf(c.fresh) \subseteq KeysOf(c.fresh \cup fresh)
    BY DEF KeysOf
  <2> HIDE DEF row, last, fresh, items, rows
  <2>5. KeysOf(row.doomed) \subseteq row.base \cup KeysOf(row.fresh)
    BY <1>c, <2>2, <2>3, <2>4
  <2> QED
    BY <1>2, <1>c, <2>1, <2>3, <2>5
<1>6. ASSUME NEW w \in Collectors, GetUpdates(w)
      PROVE  DoomedAreRead'
  <2> DEFINE c   == collects[w]
             row == [phase |-> "publish", base |-> c.base, page |-> c.page,
                     fresh |-> Readable(Oldest(feed \ c.base)),
                     counted |-> Oldest(feed \ c.base), doomed |-> c.doomed]
  <2>1. Becomes(w, row)
    BY <1>1, <1>6, CollectMoves
  <2>2. row.doomed = {}
    BY <1>6, <1>c DEF GetUpdates
  <2> HIDE DEF row
  <2> QED
    BY <1>2, <1>n, <2>1, <2>2
<1>7. ASSUME NEW w \in Collectors, Publish(w) \/ PutState(w)
      PROVE  DoomedAreRead'
  <2> DEFINE c      == collects[w]
             row(p) == [phase |-> p, base |-> c.base, page |-> c.page,
                        fresh |-> c.fresh,
                        counted |-> c.counted, doomed |-> c.doomed]
  <2>1. Becomes(w, row("store")) \/ Becomes(w, row("delete"))
    BY <1>1, <1>7, CollectMoves
  <2>2. \A p : /\ row(p).doomed = c.doomed /\ row(p).base = c.base
               /\ row(p).fresh = c.fresh
    OBVIOUS
  <2> HIDE DEF row
  <2> QED
    BY <1>2, <1>c, <2>1, <2>2
<1>8. ASSUME NEW w \in Collectors, DeleteTask(w)
      PROVE  DoomedAreRead'
  <2> DEFINE c      == collects[w]
             row(i) == [phase |-> c.phase, base |-> c.base, page |-> c.page,
                        fresh |-> c.fresh,
                        counted |-> c.counted, doomed |-> c.doomed \ {i}]
  <2>1. PICK i \in Saved : Becomes(w, row(i))
    BY <1>1, <1>8, CollectMoves
  <2>2. /\ row(i).doomed = c.doomed \ {i} /\ row(i).base = c.base
        /\ row(i).fresh = c.fresh
    OBVIOUS
  <2>3. KeysOf(c.doomed \ {i}) \subseteq KeysOf(c.doomed)
    BY DEF KeysOf
  <2> HIDE DEF row
  <2> QED
    BY <1>2, <1>c, <2>1, <2>2, <2>3
<1>9. ASSUME NEW w \in Collectors,
             \/ Observe(w) \/ Complete(w)
             \/ \E got \in SUBSET Saved, done \in BOOLEAN :
                  CollectFails(w, got, done)
      PROVE  DoomedAreRead'
  BY <1>1, <1>2, <1>9, <1>n, FailMoves, NoCollectionShape
<1>10. CASE SaveItem \/ \E i \in Saved : TakeBack(i)
  BY <1>3, <1>10 DEF SaveItem, TakeBack
<1>11. CASE UNCHANGED collectVars
  BY <1>3, <1>11 DEF collectVars
<1> QED
  BY <1>4, <1>5, <1>6, <1>7, <1>8, <1>9, <1>10, <1>11 DEF CollectNext

\* The state is replaced by what a collection remembers after it has published.
LEMMA KnownMoves ==
    ASSUME [CollectNext]_collectVars
    PROVE  \/ known' = known
           \/ \E w \in Collectors : In(w, "store") /\ known' = StateUpdates(w)
<1>1. ASSUME NEW w \in Collectors, PutState(w)
      PROVE  In(w, "store") /\ known' = StateUpdates(w)
  BY <1>1 DEF PutState
<1>2. ASSUME NEW w \in Collectors, NEW got \in SUBSET Saved,
             NEW done \in BOOLEAN, CollectFails(w, got, done)
      PROVE  known' = known \/ (In(w, "store") /\ known' = StateUpdates(w))
  BY <1>2 DEF CollectFails
<1>3. ASSUME NEW w \in Collectors,
             \/ \E wait \in Waits : ReadPage(w, wait)
             \/ Begin(w) \/ GetUpdates(w) \/ Observe(w)
             \/ Publish(w) \/ DeleteTask(w) \/ Complete(w)
      PROVE  known' = known
  BY <1>3 DEF Begin, ReadPage, GetUpdates, Observe, Publish, DeleteTask, Complete
<1>4. CASE SaveItem \/ \E i \in Saved : TakeBack(i)
  BY <1>4 DEF SaveItem, TakeBack
<1>5. CASE UNCHANGED collectVars
  BY <1>5 DEF collectVars
<1> QED
  BY <1>1, <1>2, <1>3, <1>4, <1>5 DEF CollectNext

\* A source drops what an offset confirms, and what a collection deletes.
LEMMA GoneMoves ==
    ASSUME [CollectNext]_collectVars
    PROVE  \/ gone' = gone
           \/ \E w \in Collectors :
                source = "updates" /\ gone' \subseteq gone \cup collects[w].base
           \/ \E w \in Collectors : \E i \in collects[w].doomed :
                In(w, "delete") /\ gone' \subseteq gone \cup {i}
<1>1. ASSUME NEW w \in Collectors, GetUpdates(w)
      PROVE  source = "updates" /\ gone' \subseteq gone \cup collects[w].base
  BY <1>1 DEF GetUpdates
<1>2. ASSUME NEW w \in Collectors, DeleteTask(w)
      PROVE  \E i \in collects[w].doomed :
               In(w, "delete") /\ gone' \subseteq gone \cup {i}
  BY <1>2 DEF DeleteTask, Deletes
<1>3. ASSUME NEW w \in Collectors, NEW got \in SUBSET Saved,
             NEW done \in BOOLEAN, CollectFails(w, got, done)
      PROVE  \/ gone' = gone
             \/ \E i \in collects[w].doomed :
                  In(w, "delete") /\ gone' \subseteq gone \cup {i}
  BY <1>3 DEF CollectFails, Deletes
<1>4. ASSUME NEW w \in Collectors,
             \/ \E wait \in Waits : ReadPage(w, wait)
             \/ Begin(w) \/ Observe(w)
             \/ Publish(w) \/ PutState(w) \/ Complete(w)
      PROVE  gone' = gone
  BY <1>4 DEF Begin, ReadPage, Observe, Publish, PutState, Complete
<1>5. CASE SaveItem \/ \E i \in Saved : TakeBack(i)
  BY <1>5 DEF SaveItem, TakeBack
<1>6. CASE UNCHANGED collectVars
  BY <1>6 DEF collectVars
<1> QED
  BY <1>1, <1>2, <1>3, <1>4, <1>5, <1>6 DEF CollectNext

LEMMA StoredWasPublished ==
    ASSUME CollectTyped, PublishedBefore, OffsetHolds,
           NEW w \in Collectors, In(w, "store")
    PROVE  StateUpdates(w) \subseteq KeysOf(Out)
<1> DEFINE c == collects[w]
<1>1. /\ known \subseteq KeysOf(Out)
      /\ c.base \subseteq KeysOf(Out) /\ c.fresh \subseteq Out
  BY DEF PublishedBefore, KnownMeansPublished, PublishedRow, In, Out
<1>2. KeysOf(c.fresh) \subseteq KeysOf(Out)
  BY <1>1, KeysGrow
<1>3. CASE source = "updates"
  <2>1. KeysOf(Out) = Out
    BY <1>3, KeysAreItems
  <2>2. Below(c.base \cup c.counted) \subseteq Out
    BY <1>1, <1>3 DEF OffsetHolds, OffsetRow, In
  <2>3. Remembered(w) = Below(c.base \cup c.counted)
    BY <1>3 DEF Remembered, Below
  <2> QED
    BY <1>1, <2>1, <2>2, <2>3 DEF StateUpdates
<1>4. CASE source # "updates"
  BY <1>1, <1>2, <1>4 DEF StateUpdates, Remembered
<1> QED
  BY <1>3, <1>4

LEMMA StepKeepsPublishedBefore ==
    CollectTyped /\ PublishedBefore /\ DoomedAreRead /\ OffsetHolds
      /\ [CollectNext]_collectVars => PublishedBefore'
<1> SUFFICES ASSUME CollectTyped, PublishedBefore, DoomedAreRead, OffsetHolds,
                    [CollectNext]_collectVars
             PROVE  PublishedBefore'
  OBVIOUS
<1>1. /\ CollectShape /\ source' = source /\ published \subseteq published'
  BY CollectGrows DEF CollectTyped
<1>k. \A S : KeysOf(S)' = KeysOf(S)
  BY <1>1 DEF KeysOf, KeyOf
<1>q. Out \subseteq Out' /\ published' \subseteq Out' /\ published \subseteq Out
  BY <1>1 DEF Out, Dropped
<1>p. KeysOf(Out) \subseteq KeysOf(Out')
  BY <1>q, KeysGrow
<1>b. /\ known \subseteq KeysOf(Out) /\ KeysOf(gone) \subseteq KeysOf(Out)
      /\ \A w \in Collectors : PublishedRow(collects[w])
  BY DEF PublishedBefore, KnownMeansPublished, GoneMeansPublished, Out
<1>2. known' \subseteq KeysOf(Out')
  BY <1>b, <1>p, KnownMoves, StoredWasPublished
<1>3. KeysOf(gone') \subseteq KeysOf(Out')
  <2>1. CASE gone' = gone
    BY <1>b, <1>p, <2>1
  <2>2. ASSUME NEW w \in Collectors, source = "updates",
               gone' \subseteq gone \cup collects[w].base
        PROVE  KeysOf(gone') \subseteq KeysOf(Out')
    BY <1>b, <1>p, <2>2, KeysAreItems DEF PublishedRow
  <2>3. ASSUME NEW w \in Collectors, NEW i \in collects[w].doomed,
               In(w, "delete"), gone' \subseteq gone \cup {i}
        PROVE  KeysOf(gone') \subseteq KeysOf(Out')
    <3> DEFINE c == collects[w]
    <3>1. KeyOf(i) \in c.base \cup KeysOf(c.fresh)
      BY DEF DoomedAreRead, DoomedRow, KeysOf
    <3>2. c.base \subseteq KeysOf(Out) /\ c.fresh \subseteq published
      BY <1>b, <2>3 DEF PublishedRow, In
    <3>3. KeysOf(c.fresh) \subseteq KeysOf(Out)
      BY <1>q, <3>2, KeysGrow
    <3>4. KeysOf(gone') \subseteq KeysOf(gone) \cup {KeyOf(i)}
      BY <2>3 DEF KeysOf
    <3> QED
      BY <1>b, <1>p, <3>1, <3>2, <3>3, <3>4
  <2> QED
    BY <2>1, <2>2, <2>3, GoneMoves
<1>4. ASSUME NEW w \in Collectors, NEW row, Becomes(w, row),
             row.base \subseteq KeysOf(Out'),
             row.phase \in {"store", "delete"} => row.fresh \subseteq published'
      PROVE  \A v \in Collectors : PublishedRow(collects[v])'
  <2>1. ASSUME NEW v \in Collectors
        PROVE  collects'[v] = row \/ collects'[v] = collects[v]
    BY <1>4 DEF Becomes
  <2> QED
    BY <1>1, <1>4, <1>k, <1>b, <1>p, <2>1 DEF PublishedRow
<1>5. ASSUME collects' = collects
      PROVE  \A v \in Collectors : PublishedRow(collects[v])'
  BY <1>1, <1>5, <1>k, <1>b, <1>p DEF PublishedRow
<1>c. ASSUME NEW w \in Collectors
      PROVE  /\ collects[w].base \subseteq KeysOf(Out')
             /\ collects[w].phase \in {"store", "delete"} =>
                  collects[w].fresh \subseteq published'
  BY <1>1, <1>b, <1>p DEF PublishedRow
<1>6. ASSUME NEW w \in Collectors, Begin(w)
      PROVE  \A v \in Collectors : PublishedRow(collects[v])'
  <2> DEFINE row == [phase |-> "read", base |-> known, page |-> 1,
                     fresh |-> {},
                     counted |-> {}, doomed |-> {}]
  <2>1. Becomes(w, row)
    BY <1>1, <1>6, CollectMoves
  <2>2. row.base = known /\ row.phase = "read"
    OBVIOUS
  <2> HIDE DEF row
  <2> QED
    BY <1>4, <1>b, <1>p, <2>1, <2>2
<1>7. ASSUME NEW w \in Collectors, NEW wait \in Waits, ReadPage(w, wait)
      PROVE  \A v \in Collectors : PublishedRow(collects[v])'
  <2> DEFINE c     == collects[w]
             rows  == PageAt(c.page)
             items == Readable(rows)
             fresh == {i \in items : KeyOf(i) \notin c.base}
             ended == Ended(c.page, items, fresh)
             last  == ended \/ c.page = MaxPages \/ wait = "stalled"
             row   == [phase |-> IF last THEN "publish" ELSE c.phase,
                       base |-> c.base,
                       page |-> IF last THEN c.page ELSE c.page + 1,
                       fresh |-> c.fresh \cup fresh,
                       counted |-> c.counted,
                       doomed |-> IF source = "tasks" THEN Doomed(rows, items)
                                  ELSE c.doomed]
  <2>1. Becomes(w, row)
    BY <1>1, <1>7, ReadMoves
  <2>2. c.phase = "read"
    BY <1>7 DEF ReadPage, In
  <2> HIDE DEF last, fresh, items, rows
  <2>3. row.base = c.base /\ row.phase \in {"publish", "read"}
    BY <2>2
  <2> HIDE DEF row
  <2> QED
    BY <1>4, <1>c, <2>1, <2>3
<1>8. ASSUME NEW w \in Collectors, GetUpdates(w)
      PROVE  \A v \in Collectors : PublishedRow(collects[v])'
  <2> DEFINE c   == collects[w]
             row == [phase |-> "publish", base |-> c.base, page |-> c.page,
                     fresh |-> Readable(Oldest(feed \ c.base)),
                     counted |-> Oldest(feed \ c.base), doomed |-> c.doomed]
  <2>1. Becomes(w, row)
    BY <1>1, <1>8, CollectMoves
  <2>2. row.base = c.base /\ row.phase = "publish"
    OBVIOUS
  <2> HIDE DEF row
  <2> QED
    BY <1>4, <1>c, <2>1, <2>2
<1>9. ASSUME NEW w \in Collectors, Publish(w) \/ PutState(w)
      PROVE  \A v \in Collectors : PublishedRow(collects[v])'
  <2> DEFINE c      == collects[w]
             row(p) == [phase |-> p, base |-> c.base, page |-> c.page,
                        fresh |-> c.fresh,
                        counted |-> c.counted, doomed |-> c.doomed]
  <2>1. Becomes(w, row("store")) \/ Becomes(w, row("delete"))
    BY <1>1, <1>9, CollectMoves
  <2>2. c.fresh \subseteq published'
    BY <1>9, <1>c DEF Publish, PutState, In
  <2>3. \A p : row(p).base = c.base /\ row(p).fresh = c.fresh
    OBVIOUS
  <2> HIDE DEF row
  <2> QED
    BY <1>4, <1>c, <2>1, <2>2, <2>3
<1>10. ASSUME NEW w \in Collectors, DeleteTask(w)
       PROVE  \A v \in Collectors : PublishedRow(collects[v])'
  <2> DEFINE c      == collects[w]
             row(i) == [phase |-> c.phase, base |-> c.base, page |-> c.page,
                        fresh |-> c.fresh,
                        counted |-> c.counted, doomed |-> c.doomed \ {i}]
  <2>1. PICK i \in Saved : Becomes(w, row(i))
    BY <1>1, <1>10, CollectMoves
  <2>2. row(i).phase = c.phase /\ row(i).base = c.base /\ row(i).fresh = c.fresh
    OBVIOUS
  <2> HIDE DEF row
  <2> QED
    BY <1>4, <1>c, <2>1, <2>2
<1>11. ASSUME NEW w \in Collectors,
              \/ Observe(w) \/ Complete(w)
              \/ \E got \in SUBSET Saved, done \in BOOLEAN :
                   CollectFails(w, got, done)
       PROVE  \A v \in Collectors : PublishedRow(collects[v])'
  <2>1. Becomes(w, NoCollection)
    BY <1>1, <1>11, FailMoves
  <2>2. /\ NoCollection.base \subseteq KeysOf(Out')
        /\ NoCollection.phase \notin {"store", "delete"}
    BY NoCollectionShape
  <2> QED
    BY <1>4, <2>1, <2>2
<1>12. ASSUME SaveItem \/ \E i \in Saved : TakeBack(i)
       PROVE  \A v \in Collectors : PublishedRow(collects[v])'
  BY <1>5, <1>12 DEF SaveItem, TakeBack
<1>13. ASSUME UNCHANGED collectVars
       PROVE  \A v \in Collectors : PublishedRow(collects[v])'
  BY <1>5, <1>13 DEF collectVars
<1>14. \A v \in Collectors : PublishedRow(collects[v])'
  BY <1>6, <1>7, <1>8, <1>9, <1>10, <1>11, <1>12, <1>13 DEF CollectNext
<1> QED
  BY <1>2, <1>3, <1>14, <1>k
     DEF PublishedBefore, KnownMeansPublished, GoneMeansPublished, Out

\* The oldest of some items are all those up to one of them.
LEMMA OldestFirst ==
    ASSUME NEW rows \in SUBSET Nat, IsFiniteSet(rows),
           NEW i \in rows, NEW j \in Oldest(rows), i <= j
    PROVE  i \in Oldest(rows)
<1> DEFINE Older(k) == {l \in rows : l < k}
<1>1. /\ i \in Nat /\ j \in Nat
      /\ Cardinality(Older(j)) < PageSize
  BY DEF Oldest
<1>2. Older(i) \subseteq Older(j)
  <2>1. \A l \in Nat : l < i => l < j
    BY <1>1
  <2> QED
    BY <2>1
<1>3. /\ IsFiniteSet(Older(j))
      /\ IsFiniteSet(Older(i))
      /\ Cardinality(Older(i)) <= Cardinality(Older(j))
  BY <1>2, FS_Subset
<1>4. Cardinality(Older(i)) \in Nat /\ Cardinality(Older(j)) \in Nat
  BY <1>3, FS_CardinalityType
<1> HIDE DEF Older
<1>5. Cardinality(Older(i)) < PageSize
  BY <1>1, <1>3, <1>4, CollectConstants
<1> QED
  BY <1>5 DEF Oldest, Older

LEMMA BelowFacts ==
    /\ \A S, T : Below(S \cup T) = Below(S) \cup Below(T)
    /\ \A S \in SUBSET Nat : Below(Below(S)) \subseteq Below(S)
    /\ Below({}) = {}
<1>1. Saved \subseteq Nat
  BY CollectConstants DEF Saved
<1>2. ASSUME NEW S \in SUBSET Nat, NEW i \in Below(Below(S))
      PROVE  i \in Below(S)
  <2>1. i \in Saved /\ \E j \in Below(S) : i <= j
    BY DEF Below
  <2>2. PICK j \in Saved : i <= j /\ \E k \in S : j <= k
    BY <2>1 DEF Below
  <2>3. PICK k \in S : j <= k
    BY <2>2
  <2>4. i <= k
    BY <1>1, <2>1, <2>2, <2>3
  <2> QED
    BY <2>1, <2>4 DEF Below
<1>3. \A S, T : Below(S \cup T) = Below(S) \cup Below(T)
  BY DEF Below
<1>4. Below({}) = {}
  BY DEF Below
<1> QED
  BY <1>2, <1>3, <1>4

\* What getUpdates returns goes on where what is out of the way ends.
LEMMA UpdatesFollow ==
    ASSUME CollectTyped, PublishedBefore, OffsetHolds, source = "updates",
           NEW w \in Collectors
    PROVE  LET base == collects[w].base
               new  == Oldest(feed \ base)
           IN  Below(base \cup new) \subseteq Out \cup Readable(new)
<1> DEFINE base == collects[w].base
           new  == Oldest(feed \ base)
<1>1. /\ base \subseteq Out /\ gone \subseteq Out
      /\ Below(base) \subseteq base /\ 1..saved \subseteq feed \cup gone
  <2>1. KeysOf(Out) = Out /\ KeysOf(gone) = gone
    BY KeysAreItems
  <2>2. base \subseteq KeysOf(Out) /\ KeysOf(gone) \subseteq KeysOf(Out)
    BY DEF PublishedBefore, PublishedRow, GoneMeansPublished, Out
  <2>3. Below(base) \subseteq base /\ 1..saved \subseteq feed \cup gone
    BY DEF OffsetHolds, OffsetRow
  <2> QED
    BY <2>1, <2>2, <2>3
<1>2. /\ feed \subseteq Nat /\ IsFiniteSet(feed) /\ saved \in Nat
      /\ feed \subseteq 1..saved
  BY FeedFinite DEF CollectTyped, CollectTypeOK
<1>3. ASSUME NEW i \in Below(new)
      PROVE  i \in Out \cup new
  <2>1. PICK j \in new : i \in Saved /\ i <= j
    BY DEF Below
  <2>2. j \in feed \ base
    BY DEF Oldest
  <2>3. i \in 1..saved
    BY <1>2, <2>1, <2>2, CollectConstants DEF Saved
  <2>4. CASE i \in gone \/ i \in base
    BY <1>1, <2>4
  <2>5. CASE i \in feed \ base
    <3>1. feed \ base \in SUBSET Nat /\ IsFiniteSet(feed \ base)
      BY <1>2, FS_Subset
    <3> QED
      BY <2>1, <2>5, <3>1, OldestFirst
  <2> QED
    BY <1>1, <2>3, <2>4, <2>5
<1>4. Below(base \cup new) = Below(base) \cup Below(new)
  BY BelowFacts
<1>5. new \subseteq Out \cup Readable(new)
  BY DEF Readable, Out, Dropped
<1> QED
  BY <1>1, <1>3, <1>4, <1>5

LEMMA StepKeepsOffset ==
    CollectTyped /\ PublishedBefore /\ DoomedAreRead /\ OffsetHolds
      /\ [CollectNext]_collectVars => OffsetHolds'
<1> SUFFICES ASSUME CollectTyped, PublishedBefore, DoomedAreRead, OffsetHolds,
                    [CollectNext]_collectVars, source = "updates"
             PROVE  OffsetHolds'
  BY CollectGrows DEF OffsetHolds
<1>1. /\ CollectShape /\ source' = source /\ Out \subseteq Out'
      /\ gone \subseteq gone'
  BY CollectGrows DEF CollectTyped, Out, Dropped
<1>w. /\ known \subseteq 1..saved /\ saved \in Nat
      /\ \A w \in Collectors : collects[w].base \subseteq 1..saved
                               /\ collects[w].counted \subseteq 1..saved
  BY WorldTyped DEF CollectTyped, SavedFirst
<1>b. \A S : Below(S)' = Below(S)
  BY DEF Below
<1>d. ASSUME NEW w \in Collectors
      PROVE  collects[w].doomed = {}
  BY DEF DoomedAreRead, DoomedRow
<1>o. /\ 1..saved \subseteq feed \cup gone /\ Below(known) \subseteq known
      /\ \A w \in Collectors : OffsetRow(collects[w])
  BY DEF OffsetHolds
<1>2. 1..saved' \subseteq feed' \cup gone'
  <2>1. ASSUME SaveItem
        PROVE  1..saved' \subseteq feed' \cup gone'
    <3>1. 1..(saved + 1) \subseteq (1..saved) \cup {saved + 1}
      BY <1>w
    <3> QED
      BY <1>o, <2>1, <3>1 DEF SaveItem
  <2>2. ASSUME NEW w \in Collectors, GetUpdates(w)
        PROVE  1..saved' \subseteq feed' \cup gone'
    BY <1>o, <2>2 DEF GetUpdates
  <2>3. ASSUME NEW w \in Collectors,
               \/ \E wait \in Waits : ReadPage(w, wait)
               \/ Begin(w) \/ Observe(w)
               \/ Publish(w) \/ PutState(w) \/ Complete(w)
        PROVE  1..saved' \subseteq feed' \cup gone'
    BY <1>o, <2>3 DEF Begin, ReadPage, Observe, Publish, PutState, Complete
  <2>4. ASSUME NEW w \in Collectors, DeleteTask(w)
        PROVE  FALSE
    BY <1>d, <2>4 DEF DeleteTask, Deletes
  <2>5. ASSUME NEW w \in Collectors, NEW got \in SUBSET Saved,
               NEW done \in BOOLEAN, CollectFails(w, got, done)
        PROVE  1..saved' \subseteq feed' \cup gone'
    BY <1>d, <1>o, <2>5 DEF CollectFails
  <2>6. ASSUME NEW i \in Saved, TakeBack(i)
        PROVE  FALSE
    BY <2>6 DEF TakeBack
  <2>7. ASSUME UNCHANGED collectVars
        PROVE  1..saved' \subseteq feed' \cup gone'
    BY <1>o, <2>7 DEF collectVars
  <2> QED
    BY <2>1, <2>2, <2>3, <2>4, <2>5, <2>6, <2>7 DEF CollectNext
<1>3. Below(known') \subseteq known'
  <2>1. ASSUME NEW w \in Collectors, known' = StateUpdates(w)
        PROVE  Below(known') \subseteq known'
    <3> DEFINE S == collects[w].base \cup collects[w].counted
    <3>1. S \in SUBSET Nat
      BY <1>w
    <3>2. Remembered(w) = Below(S)
      BY DEF Remembered, Below
    <3> HIDE DEF S
    <3> QED
      BY <1>o, <2>1, <3>1, <3>2, BelowFacts DEF StateUpdates
  <2> QED
    BY <1>o, <2>1, KnownMoves
<1>4. ASSUME NEW w \in Collectors, NEW row, Becomes(w, row),
             Below(row.base) \subseteq row.base,
             row.phase \in {"publish", "store"} =>
               Below(row.base \cup row.counted) \subseteq Out' \cup row.fresh
      PROVE  \A v \in Collectors : OffsetRow(collects[v])'
  <2>1. ASSUME NEW v \in Collectors
        PROVE  collects'[v] = row \/ collects'[v] = collects[v]
    BY <1>4 DEF Becomes
  <2> QED
    BY <1>1, <1>4, <1>b, <1>o, <2>1 DEF OffsetRow
<1>5. ASSUME collects' = collects
      PROVE  \A v \in Collectors : OffsetRow(collects[v])'
  BY <1>1, <1>5, <1>b, <1>o DEF OffsetRow
<1>c. ASSUME NEW w \in Collectors
      PROVE  /\ Below(collects[w].base) \subseteq collects[w].base
             /\ collects[w].phase \in {"publish", "store"} =>
                  Below(collects[w].base \cup collects[w].counted)
                    \subseteq Out \cup collects[w].fresh
  BY <1>o DEF OffsetRow
<1>6. ASSUME NEW w \in Collectors, Begin(w)
      PROVE  \A v \in Collectors : OffsetRow(collects[v])'
  <2> DEFINE row == [phase |-> "read", base |-> known, page |-> 1,
                     fresh |-> {},
                     counted |-> {}, doomed |-> {}]
  <2>1. Becomes(w, row)
    BY <1>1, <1>6, CollectMoves
  <2>2. row.base = known /\ row.phase = "read"
    OBVIOUS
  <2> HIDE DEF row
  <2> QED
    BY <1>4, <1>o, <2>1, <2>2
<1>7. ASSUME NEW w \in Collectors, GetUpdates(w)
      PROVE  \A v \in Collectors : OffsetRow(collects[v])'
  <2> DEFINE c   == collects[w]
             row == [phase |-> "publish", base |-> c.base, page |-> c.page,
                     fresh |-> Readable(Oldest(feed \ c.base)),
                     counted |-> Oldest(feed \ c.base), doomed |-> c.doomed]
  <2>1. Becomes(w, row)
    BY <1>1, <1>7, CollectMoves
  <2>2. /\ row.base = c.base /\ row.phase = "publish"
        /\ row.fresh = Readable(Oldest(feed \ c.base))
        /\ row.counted = Oldest(feed \ c.base)
    OBVIOUS
  <2> HIDE DEF row
  <2>3. Below(row.base \cup row.counted) \subseteq Out' \cup row.fresh
    BY <1>1, <2>2, UpdatesFollow
  <2> QED
    BY <1>4, <1>c, <2>1, <2>2, <2>3
<1>8. ASSUME NEW w \in Collectors, Publish(w) \/ PutState(w)
      PROVE  \A v \in Collectors : OffsetRow(collects[v])'
  <2> DEFINE c      == collects[w]
             row(p) == [phase |-> p, base |-> c.base, page |-> c.page,
                        fresh |-> c.fresh,
                        counted |-> c.counted, doomed |-> c.doomed]
  <2>1. Becomes(w, row("store")) \/ Becomes(w, row("delete"))
    BY <1>1, <1>8, CollectMoves
  <2>2. Below(c.base \cup c.counted) \subseteq Out' \cup c.fresh
    BY <1>1, <1>8, <1>c DEF Publish, PutState, In
  <2>3. \A p : /\ row(p).base = c.base /\ row(p).fresh = c.fresh
               /\ row(p).counted = c.counted
    OBVIOUS
  <2> HIDE DEF row
  <2> QED
    BY <1>4, <1>c, <2>1, <2>2, <2>3
<1>9. ASSUME NEW w \in Collectors,
             \/ Observe(w) \/ Complete(w)
             \/ \E got \in SUBSET Saved, done \in BOOLEAN :
                  CollectFails(w, got, done)
      PROVE  \A v \in Collectors : OffsetRow(collects[v])'
  <2>1. Becomes(w, NoCollection)
    BY <1>1, <1>9, FailMoves
  <2>2. /\ Below(NoCollection.base) \subseteq NoCollection.base
        /\ NoCollection.phase \notin {"publish", "store"}
    BY NoCollectionShape, BelowFacts
  <2> QED
    BY <1>4, <2>1, <2>2
<1>10. ASSUME NEW w \in Collectors,
              DeleteTask(w) \/ \E wait \in Waits : ReadPage(w, wait)
       PROVE  FALSE
  <2>1. ~DeleteTask(w)
    BY <1>d DEF DeleteTask, Deletes
  <2>2. ASSUME NEW wait \in Waits
        PROVE  ~ReadPage(w, wait)
    BY DEF ReadPage
  <2> QED
    BY <1>10, <2>1, <2>2
<1>11. ASSUME SaveItem \/ \E i \in Saved : TakeBack(i)
       PROVE  \A v \in Collectors : OffsetRow(collects[v])'
  BY <1>5, <1>11 DEF SaveItem, TakeBack
<1>12. ASSUME UNCHANGED collectVars
       PROVE  \A v \in Collectors : OffsetRow(collects[v])'
  BY <1>5, <1>12 DEF collectVars
<1>13. \A v \in Collectors : OffsetRow(collects[v])'
  BY <1>6, <1>7, <1>8, <1>9, <1>10, <1>11, <1>12 DEF CollectNext
<1> QED
  BY <1>2, <1>3, <1>13, <1>b DEF OffsetHolds

LEMMA PageNumbers ==
    ASSUME NEW page \in Nat \ {0}
    PROVE  /\ (page - 1) * PageSize \in Nat /\ page * PageSize \in Nat
           /\ page * PageSize = (page - 1) * PageSize + PageSize
           /\ ((page + 1) - 1) * PageSize = page * PageSize
           /\ page = 1 => (page - 1) * PageSize = 0
BY CollectConstants

\* A page that is not at the end is full.
LEMMA PageIsFull ==
    ASSUME CollectTypeOK, source \in Paged, NEW page \in Nat \ {0}, ~AtEnd(page)
    PROVE  /\ IsFiniteSet(PageAt(page))
           /\ Cardinality(PageAt(page)) = PageSize
           /\ PageAt(page) # {}
<1> DEFINE lo == (page - 1) * PageSize
<1>1. lo \in Nat /\ PageSize \in Nat \ {0} /\ page * PageSize = lo + PageSize
  BY PageNumbers, CollectConstants
<1>2. lo + PageSize <= Cardinality(feed)
  BY <1>1, FeedFinite DEF AtEnd
<1> HIDE DEF lo
<1> DEFINE P == {i \in feed : Rank(i) >= lo /\ Rank(i) < lo + PageSize}
<1>3. IsFiniteSet(P) /\ Cardinality(P) = PageSize
  BY <1>1, <1>2, PlacesFilled
<1>4. PageAt(page) = P
  BY <1>1 DEF PageAt, lo
<1>5. P # {}
  BY <1>1, <1>3, FS_EmptySet
<1> QED
  BY <1>3, <1>4, <1>5

\* Pages that end before the end of the source, and of which no item was
\* dropped, end with an item that is known.
LEMMA EndIsKnown ==
    ASSUME CollectTypeOK, source \in Paged, NEW page \in Nat \ {0},
           ~AtEnd(page), NEW base,
           Ended(page, PageAt(page),
                 {i \in PageAt(page) : KeyOf(i) \notin base})
    PROVE  \E k \in PageAt(page) : k \in base
<1> DEFINE rows  == PageAt(page)
           fresh == {i \in rows : KeyOf(i) \notin base}
<1>1. Cardinality(rows) = PageSize /\ rows # {} /\ PageSize \in Nat
  BY PageIsFull, CollectConstants
<1>2. \A i : KeyOf(i) = i
  BY DEF KeyOf, Paged
<1>3. fresh # rows
  <2>1. CASE source = "stars"
    <3>1. Cardinality(rows) < PageSize \/ fresh = {}
      BY <2>1 DEF Ended
    <3> QED
      BY <1>1, <3>1
  <2>2. CASE source = "favorites"
    <3>1. rows = {} \/ fresh = {}
      BY <2>2 DEF Ended
    <3> QED
      BY <1>1, <3>1
  <2>3. CASE source = "scroll"
    BY <1>1, <2>3 DEF Ended
  <2>4. CASE source = "wall"
    BY <1>1, <2>4 DEF Ended
  <2> QED
    BY <2>1, <2>2, <2>3, <2>4 DEF Paged
<1>4. PICK k \in rows : k \notin fresh
  BY <1>3
<1> QED
  BY <1>2, <1>4

\* What a page adds leaves no gap in the pages read so far, and none at all if
\* it is the last one.
LEMMA PagesAdd ==
    ASSUME CollectTyped, source \notin {"updates", "tasks"},
           NEW w \in Collectors, NEW wait \in Waits,
           ReadPage(w, wait), ~torn', PageRow(collects[w])
    PROVE  LET c     == collects[w]
               rows  == PageAt(c.page)
               items == Readable(rows)
               new   == {i \in items : KeyOf(i) \notin c.base}
               ended == Ended(c.page, items, new)
               all   == c.base \cup (c.fresh \cup new)
           IN  /\ \A i \in feed \ Unreadable, j \in c.fresh \cup new :
                    i < j /\ Rank(i) < c.page * PageSize => i \in all
               /\ ended \/ c.page = MaxPages \/ wait = "stalled" => Gapless(all)
<1> DEFINE c     == collects[w]
           rows  == PageAt(c.page)
           items == Readable(rows)
           new   == {i \in items : KeyOf(i) \notin c.base}
           ended == Ended(c.page, items, new)
           all   == c.base \cup (c.fresh \cup new)
           lo    == (c.page - 1) * PageSize
<1>1. CollectTypeOK /\ c.page \in Nat \ {0} /\ c.phase = "read"
  <2>1. c.page \in 1..MaxPages
    BY DEF CollectTyped, CollectTypeOK
  <2>2. c.phase = "read"
    BY DEF ReadPage, In
  <2>3. c.page \in Nat \ {0}
    BY <2>1, CollectConstants
  <2> QED
    BY <2>2, <2>3 DEF CollectTyped
<1>2. /\ lo \in Nat /\ c.page * PageSize \in Nat
      /\ c.page * PageSize = lo + PageSize
  BY <1>1, PageNumbers
<1>3. feed \subseteq Nat /\ Cardinality(feed) \in Nat /\ new \subseteq feed
      /\ rows \subseteq feed
  BY <1>1, FeedFinite DEF Readable, PageAt
<1>4. \A i \in feed : Rank(i) \in Nat /\ Rank(i) < Cardinality(feed)
  <2>1. ASSUME NEW i \in feed
        PROVE  Rank(i) \in 0..(Cardinality(feed) - 1)
    BY <1>1, RankPlaces
  <2> QED
    BY <1>3, <2>1
<1>5. \A i \in rows \ Unreadable : i \in all
  BY DEF Readable, KeyOf
<1>6. ASSUME NEW i \in feed \ Unreadable, NEW j \in c.fresh \cup new, i < j,
             source \in Paged => Rank(i) < c.page * PageSize
      PROVE  i \in all
  <2>1. CASE source \notin Paged
    BY <1>5, <2>1 DEF PageAt
  <2>2. CASE source \in Paged /\ Rank(i) >= lo
    BY <1>5, <1>6, <2>2 DEF PageAt
  <2>3. CASE source \in Paged /\ ~(Rank(i) >= lo)
    <3>1. Rank(i) < lo
      BY <1>2, <1>4, <2>3
    <3>2. CASE j \in c.fresh
      BY <1>1, <1>6, <3>1, <3>2 DEF PageRow
    <3>3. CASE j \in new
      <4>1. j \in feed /\ Rank(j) >= lo
        BY <2>3, <3>3 DEF Readable, PageAt
      <4>2. Rank(j) < Rank(i)
        BY <1>1, <1>6, <4>1, RankPlaces
      <4> QED
        BY <1>2, <1>4, <3>1, <4>1, <4>2
    <3> QED
      BY <3>2, <3>3
  <2> QED
    BY <2>1, <2>2, <2>3
<1>7. ASSUME ended \/ c.page = MaxPages \/ wait = "stalled",
             NEW i \in feed \ Unreadable, NEW j \in feed \ Unreadable,
             i < j, j \in all
      PROVE  i \in all
  <2>1. CASE j \in c.base
    BY <1>7, <2>1 DEF PageRow, Gapless
  <2>2. CASE j \notin c.base /\ (source \in Paged => Rank(i) < c.page * PageSize)
    BY <1>6, <1>7, <2>2
  <2>3. CASE source \in Paged /\ ~(Rank(i) < c.page * PageSize)
    <3>1. ~AtEnd(c.page)
      <4>1. Rank(i) \in Nat /\ Rank(i) < Cardinality(feed)
        BY <1>4
      <4>2. ~(c.page * PageSize >= Cardinality(feed))
        <5> HIDE DEF c
        <5> QED
          BY <1>2, <1>3, <2>3, <4>1
      <4> QED
        BY <2>3, <4>2 DEF AtEnd
    <3>2. rows = items /\ ended
      BY <1>7, <3>1 DEF ReadPage
    <3>3. PICK k \in rows : k \in c.base
      <4>1. Ended(c.page, rows, {l \in rows : KeyOf(l) \notin c.base})
        BY <3>2
      <4> HIDE DEF c, rows
      <4> QED
        BY <1>1, <2>3, <3>1, <4>1, EndIsKnown DEF rows
    <3>4. k \in feed \ Unreadable /\ Rank(k) < c.page * PageSize
      <4>1. k \in items
        BY <3>2, <3>3
      <4> QED
        BY <2>3, <3>3, <4>1 DEF Readable, PageAt
    <3>5. k # i /\ ~(k < i)
      BY <1>1, <1>2, <1>4, <2>3, <3>4, RankPlaces
    <3>6. i < k
      BY <1>3, <3>4, <3>5
    <3> QED
      BY <3>3, <3>4, <3>6 DEF PageRow, Gapless
  <2> QED
    BY <2>1, <2>2, <2>3
<1>8. ended \/ c.page = MaxPages \/ wait = "stalled" => Gapless(all)
  BY <1>7 DEF Gapless
<1> QED
  BY <1>6, <1>8

LEMMA StepKeepsPages ==
    CollectTyped /\ DoomedAreRead /\ PagesHold /\ [CollectNext]_collectVars
      => PagesHold'
<1> SUFFICES ASSUME CollectTyped, DoomedAreRead, PagesHold,
                    [CollectNext]_collectVars,
                    source \notin {"updates", "tasks"}, ~torn'
             PROVE  PagesHold'
  BY CollectGrows DEF PagesHold
<1>1. CollectShape /\ source' = source /\ ~torn
  BY CollectGrows DEF CollectTyped
<1>w. /\ known \subseteq 1..saved /\ saved \in Nat /\ feed \subseteq 1..saved
      /\ \A w \in Collectors : collects[w].base \subseteq 1..saved
                               /\ collects[w].fresh \subseteq 1..saved
  BY WorldTyped DEF CollectTyped, SavedFirst, CollectWorld
<1>d. ASSUME NEW w \in Collectors
      PROVE  collects[w].doomed = {}
  BY DEF DoomedAreRead, DoomedRow
<1>o. Gapless(known) /\ \A w \in Collectors : PageRow(collects[w])
  BY <1>1 DEF PagesHold
<1>t. /\ feed \subseteq Nat /\ IsFiniteSet(feed)
      /\ \A i : Rank(i) \in Nat
      /\ \A w \in Collectors : collects[w].page \in Nat \ {0}
  <2>1. feed \subseteq Nat /\ IsFiniteSet(feed)
    BY FeedFinite DEF CollectTyped
  <2>2. ASSUME NEW i
        PROVE  Rank(i) \in Nat
    <3>1. IsFiniteSet({j \in feed : j > i})
      BY <2>1, FS_Subset
    <3> QED
      BY <3>1, FS_CardinalityType DEF Rank
  <2>3. ASSUME NEW w \in Collectors
        PROVE  collects[w].page \in Nat \ {0}
    <3>1. collects[w].page \in 1..MaxPages
      BY DEF CollectTyped, CollectTypeOK
    <3> QED
      BY <3>1, CollectConstants
  <2> QED
    BY <2>1, <2>2, <2>3
<1>2. ASSUME SaveItem
      PROVE  PagesHold'
  <2>1. feed' = feed \cup {saved + 1} /\ known' = known /\ collects' = collects
    BY <1>2 DEF SaveItem
  <2>2. ASSUME NEW S \in SUBSET (1..saved), Gapless(S)
        PROVE  Gapless(S)'
    <3>1. SUFFICES ASSUME NEW i \in feed' \ Unreadable,
                          NEW j \in feed' \ Unreadable, i < j, j \in S
                   PROVE  i \in S
      BY DEF Gapless
    <3>2. i # saved + 1 /\ j # saved + 1
      BY <1>w, <2>1, <3>1
    <3> QED
      BY <2>1, <2>2, <3>1, <3>2 DEF Gapless
  <2>3. ASSUME NEW i
        PROVE  Rank(i) <= Rank(i)'
    <3>1. /\ {j \in feed : j > i} \subseteq {j \in feed' : j > i}
          /\ IsFiniteSet(feed')
      BY <1>t, <2>1, FS_AddElement
    <3>2. IsFiniteSet({j \in feed' : j > i})
      BY <3>1, FS_Subset
    <3>3. Cardinality({j \in feed : j > i}) <= Cardinality({j \in feed' : j > i})
      BY <3>1, <3>2, FS_Subset
    <3> QED
      BY <3>3 DEF Rank
  <2>4. ASSUME NEW i
        PROVE  Rank(i)' \in Nat
    <3>1. IsFiniteSet(feed')
      BY <1>t, <2>1, FS_AddElement
    <3>2. IsFiniteSet({j \in feed' : j > i})
      BY <3>1, FS_Subset
    <3> QED
      BY <3>2, FS_CardinalityType DEF Rank
  <2>5. ASSUME NEW w \in Collectors
        PROVE  PageRow(collects[w])'
    <3> DEFINE c == collects[w]
    <3>1. Gapless(c.base)'
      <4>1. c.base \in SUBSET (1..saved) /\ Gapless(c.base)
        BY <1>w, <1>o DEF PageRow
      <4>2. \A S : S = c.base => Gapless(S)'
        BY <2>2, <4>1
      <4> QED
        BY <2>1, <4>2 DEF Gapless
    <3>2. ASSUME c.phase \in {"publish", "store"}
          PROVE  Gapless(c.base \cup c.fresh)'
      <4>1. /\ c.base \cup c.fresh \in SUBSET (1..saved)
            /\ Gapless(c.base \cup c.fresh)
        BY <1>w, <1>o, <3>2 DEF PageRow
      <4>2. \A S : S = c.base \cup c.fresh => Gapless(S)'
        BY <2>2, <4>1
      <4> QED
        BY <2>1, <4>2 DEF Gapless
    <3>3. ASSUME c.phase = "read",
                 NEW i \in feed' \ Unreadable, NEW j \in c.fresh,
                 i < j, Rank(i)' < (c.page - 1) * PageSize
          PROVE  i \in c.base \cup c.fresh
      <4>1. j \in 1..saved
        BY <1>w
      <4>2. i # saved + 1
        BY <1>w, <3>3, <4>1
      <4>3. Rank(i) < (c.page - 1) * PageSize
        BY <1>t, <2>3, <2>4, <3>3, PageNumbers
      <4> QED
        BY <1>o, <2>1, <3>3, <4>2, <4>3 DEF PageRow
    <3> QED
      BY <2>1, <3>1, <3>2, <3>3 DEF PageRow
  <2> QED
    BY <1>o, <1>w, <2>1, <2>2, <2>5 DEF PagesHold, Gapless
<1>3. ASSUME NEW i \in Saved, TakeBack(i)
      PROVE  PagesHold'
  <2>1. feed' \subseteq feed /\ known' = known /\ collects' = collects
    BY <1>3 DEF TakeBack
  <2>2. ASSUME NEW w \in Collectors, collects[w].phase = "read"
        PROVE  collects[w].page = 1
    <3>1. ~Paging
      BY <1>3, Zenon DEF TakeBack
    <3>2. ~(collects[w].page > 1)
      BY <2>2, <3>1 DEF Paging, In
    <3> QED
      BY <1>t, <3>2
  <2>3. IsFiniteSet(feed')
    BY <1>t, <2>1, FS_Subset
  <2>4. ASSUME NEW k
        PROVE  Rank(k)' \in Nat
    <3>1. IsFiniteSet({j \in feed' : j > k})
      BY <2>3, FS_Subset
    <3> QED
      BY <3>1, FS_CardinalityType DEF Rank
  <2>5. ASSUME NEW w \in Collectors
        PROVE  PageRow(collects[w])'
    <3> DEFINE c == collects[w]
    <3>1. /\ \A k, j \in feed' \ Unreadable : k < j /\ j \in c.base => k \in c.base
          /\ c.phase \in {"publish", "store"} =>
               \A k, j \in feed' \ Unreadable :
                 k < j /\ j \in c.base \cup c.fresh => k \in c.base \cup c.fresh
      BY <1>o, <2>1 DEF PageRow, Gapless
    <3>2. ASSUME c.phase = "read", NEW k
          PROVE  ~(Rank(k)' < (c.page - 1) * PageSize)
      <4>1. (c.page - 1) * PageSize = 0
        BY <1>t, <2>2, <3>2, PageNumbers
      <4> QED
        BY <2>4, <4>1
    <3> QED
      BY <2>1, <3>1, <3>2 DEF PageRow, Gapless
  <2> QED
    BY <1>o, <2>1, <2>5 DEF PagesHold, Gapless
<1>4. ASSUME NEW w \in Collectors, GetUpdates(w) \/ DeleteTask(w)
      PROVE  FALSE
  BY <1>d, <1>4 DEF GetUpdates, DeleteTask, Deletes
<1>5. ASSUME feed' = feed, \A v \in Collectors : PageRow(collects[v])'
      PROVE  PagesHold'
  <2>1. Gapless(known')
    <3>1. ASSUME NEW w \in Collectors, In(w, "store"), known' = StateUpdates(w)
          PROVE  Gapless(known')
      <4>1. Gapless(collects[w].base \cup collects[w].fresh)
        BY <1>o, <3>1 DEF PageRow, In
      <4>2. known' = collects[w].base \cup collects[w].fresh
        BY <3>1, KeysAreItems DEF StateUpdates, Remembered
      <4> QED
        BY <4>1, <4>2
    <3> QED
      BY <1>o, <3>1, KnownMoves
  <2> QED
    BY <1>5, <2>1 DEF PagesHold, Gapless
<1>6. ASSUME NEW w \in Collectors, NEW row, Becomes(w, row), feed' = feed,
             PageRow(row)
      PROVE  PagesHold'
  <2>1. ASSUME NEW v \in Collectors
        PROVE  collects'[v] = row \/ collects'[v] = collects[v]
    BY <1>6 DEF Becomes
  <2>2. ASSUME NEW v \in Collectors
        PROVE  PageRow(collects[v])'
    BY <1>6, <1>o, <2>1 DEF PageRow, Gapless, Rank
  <2> QED
    BY <1>5, <1>6, <2>2
<1>7. ASSUME collects' = collects, feed' = feed
      PROVE  PagesHold'
  <2>1. ASSUME NEW v \in Collectors
        PROVE  PageRow(collects[v])'
    BY <1>7, <1>o DEF PageRow, Gapless, Rank
  <2> QED
    BY <1>5, <1>7, <2>1
<1>8. ASSUME NEW w \in Collectors, Begin(w)
      PROVE  PagesHold'
  <2> DEFINE row == [phase |-> "read", base |-> known, page |-> 1,
                     fresh |-> {},
                     counted |-> {}, doomed |-> {}]
  <2>1. Becomes(w, row) /\ feed' = feed
    BY <1>1, <1>8, CollectMoves DEF Begin
  <2>2. row.base = known /\ row.phase = "read" /\ row.fresh = {}
    OBVIOUS
  <2> HIDE DEF row
  <2>3. PageRow(row)
    BY <1>o, <2>2 DEF PageRow
  <2> QED
    BY <1>6, <2>1, <2>3
<1>9. ASSUME NEW w \in Collectors, NEW wait \in Waits, ReadPage(w, wait)
      PROVE  PagesHold'
  <2> DEFINE c     == collects[w]
             rows  == PageAt(c.page)
             items == Readable(rows)
             new   == {i \in items : KeyOf(i) \notin c.base}
             ended == Ended(c.page, items, new)
             last  == ended \/ c.page = MaxPages \/ wait = "stalled"
             row   == [phase |-> IF last THEN "publish" ELSE c.phase,
                       base |-> c.base,
                       page |-> IF last THEN c.page ELSE c.page + 1,
                       fresh |-> c.fresh \cup new,
                       counted |-> c.counted,
                       doomed |-> IF source = "tasks" THEN Doomed(rows, items)
                                  ELSE c.doomed]
  <2>1. Becomes(w, row) /\ feed' = feed
    BY <1>1, <1>9, ReadMoves DEF ReadPage
  <2>2. /\ \A i \in feed \ Unreadable, j \in c.fresh \cup new :
             i < j /\ Rank(i) < c.page * PageSize => i \in c.base \cup (c.fresh \cup new)
        /\ last => Gapless(c.base \cup (c.fresh \cup new))
    BY <1>o, <1>9, PagesAdd
  <2>3. c.phase = "read" /\ Gapless(c.base) /\ c.page \in Nat \ {0}
    BY <1>9, <1>o, <1>t DEF ReadPage, In, PageRow
  <2>4. ((c.page + 1) - 1) * PageSize = c.page * PageSize
    BY <2>3, PageNumbers
  <2> HIDE DEF last, new, items, rows
  <2>5. /\ row.base = c.base /\ row.fresh = c.fresh \cup new
        /\ last => row.phase = "publish"
        /\ ~last => row.phase = "read" /\ row.page = c.page + 1
    BY <2>3
  <2> HIDE DEF row, c
  <2>6. PageRow(row)
    <3>1. CASE last
      BY <2>2, <2>3, <2>5, <3>1 DEF PageRow
    <3>2. CASE ~last
      BY <2>2, <2>3, <2>4, <2>5, <3>2 DEF PageRow
    <3> QED
      BY <3>1, <3>2
  <2> QED
    BY <1>6, <2>1, <2>6
<1>10. ASSUME NEW w \in Collectors, Publish(w) \/ PutState(w)
       PROVE  PagesHold'
  <2> DEFINE c      == collects[w]
             row(p) == [phase |-> p, base |-> c.base, page |-> c.page,
                        fresh |-> c.fresh,
                        counted |-> c.counted, doomed |-> c.doomed]
  <2>1. Becomes(w, row("store")) \/ Becomes(w, row("delete"))
    BY <1>1, <1>10, CollectMoves
  <2>2. feed' = feed /\ c.phase \in {"publish", "store"}
    BY <1>10 DEF Publish, PutState, In
  <2>3. Gapless(c.base) /\ Gapless(c.base \cup c.fresh)
    BY <1>o, <2>2 DEF PageRow
  <2>4. \A p : row(p).base = c.base /\ row(p).fresh = c.fresh /\ row(p).phase = p
    OBVIOUS
  <2> HIDE DEF row, c
  <2>5. PageRow(row("store")) /\ PageRow(row("delete"))
    BY <2>3, <2>4 DEF PageRow
  <2> QED
    BY <1>6, <2>1, <2>2, <2>5
<1>11. ASSUME NEW w \in Collectors,
              \/ Observe(w) \/ Complete(w)
              \/ \E got \in SUBSET Saved, done \in BOOLEAN :
                   CollectFails(w, got, done)
       PROVE  PagesHold'
  <2>1. Becomes(w, NoCollection)
    BY <1>1, <1>11, FailMoves
  <2>2. feed' = feed
    BY <1>d, <1>11 DEF Observe, Complete, CollectFails
  <2>3. PageRow(NoCollection)
    BY NoCollectionShape DEF PageRow, Gapless
  <2> QED
    BY <1>6, <2>1, <2>2, <2>3
<1>12. ASSUME UNCHANGED collectVars
       PROVE  PagesHold'
  BY <1>7, <1>12 DEF collectVars
<1> QED
  BY <1>2, <1>3, <1>4, <1>8, <1>9, <1>10, <1>11, <1>12 DEF CollectNext

LEMMA CollectInitInv == CollectInit => CollectInv
<1> SUFFICES ASSUME CollectInit
             PROVE  CollectInv
  OBVIOUS
<1> USE DEF CollectInit
<1>1. \A w \in Collectors : collects[w] = NoCollection
  OBVIOUS
<1>2. KeysOf({}) = {} /\ Below({}) = {}
  BY BelowFacts DEF KeysOf
<1>3. CollectShape
  BY NoCollectionShape DEF CollectShape
<1>4. CollectTypeOK /\ SavedFirst
  <2>1. 0 \in 0..MaxSaved /\ 0 \in 0..MaxCollectFaults
    BY CollectConstants
  <2>2. \A w \in Collectors : collects[w] \in Collections
    BY <1>3 DEF CollectShape
  <2>3. CollectTypeOK
    BY <2>1, <2>2 DEF CollectTypeOK, Collections
  <2>4. SavedFirst
    BY <1>1, NoCollectionShape DEF SavedFirst
  <2> QED
    BY <2>3, <2>4
<1>5. PublishedBefore
  BY <1>1, <1>2, NoCollectionShape
     DEF PublishedBefore, PublishedRow, KnownMeansPublished, GoneMeansPublished
<1>6. DoomedAreRead
  BY <1>1, <1>2, NoCollectionShape DEF DoomedAreRead, DoomedRow
<1>7. OffsetHolds
  BY <1>1, <1>2, NoCollectionShape DEF OffsetHolds, OffsetRow
<1>8. PagesHold
  BY <1>1, NoCollectionShape DEF PagesHold, PageRow, Gapless
<1> QED
  BY <1>3, <1>4, <1>5, <1>6, <1>7, <1>8 DEF CollectInv

LEMMA CollectInvariant == CollectSpec => []CollectInv
<1>1. CollectInit => CollectInv
  BY CollectInitInv
<1>2. CollectInv /\ [CollectNext]_collectVars => CollectInv'
  BY StepKeepsTyped, StepKeepsDoomed, StepKeepsPublishedBefore,
     StepKeepsOffset, StepKeepsPages
     DEF CollectInv, CollectTyped
<1> QED
  BY <1>1, <1>2, PTL DEF CollectSpec

\* Nothing that a person has saved and a parser can read is passed over, in any
\* source and however many collections of it overlap, fail and are repeated:
\* what a source is known by was published (createJobHandler publishes before
\* putCollectorState and afterCommit) or was an update of which
\* parseTelegramUpdates makes nothing, and the pages that were not cut short
\* leave no gap.
THEOREM CollectIsSafe == CollectSpec => []CollectSafe
<1>1. CollectInv => CollectSafe
  <2>1. PagesHold => NoGap
    BY DEF PagesHold, NoGap, Gapless
  <2> QED
    BY <2>1 DEF CollectInv, CollectSafe, PublishedBefore
<1> QED
  BY <1>1, CollectInvariant, PTL

\* A collection keeps to the items, keys and pages there are.
THEOREM CollectTypeCorrect == CollectSpec => []CollectTypeOK
<1>1. CollectInv => CollectTypeOK
  BY DEF CollectInv
<1> QED
  BY <1>1, CollectInvariant, PTL

-----------------------------------------------------------------------------
(***************************************************************************)
(* The ten parts together: a step of one of them is a step of it and       *)
(* leaves the others alone, so each behaves as its own specification says. *)
(***************************************************************************)
LEMMA PeripheryStepParts ==
    ASSUME [PlaneNext]_planeVars
    PROVE  /\ [ArchiveNext]_archiveVars /\ [ImaNext]_imaVars
           /\ [CollectNext]_collectVars /\ [LifeNext]_lifeVars
           /\ [D1EffectNext]_d1EffectVars /\ [HeartbeatNext]_heartbeatVars
           /\ [AlertsNext]_alertVars /\ [ReleaseNext]_releaseVars
           /\ [RestoreNext]_restoreVars /\ [DrillNext]_drillVars
<1> USE DEF workVars, cloudVars, opsVars
<1>1. CASE ArchivePart  BY <1>1 DEF ArchivePart
<1>2. CASE MirrorPart  BY <1>2 DEF MirrorPart
<1>3. CASE CollectPart  BY <1>3 DEF CollectPart
<1>4. CASE LifePart  BY <1>4 DEF LifePart
<1>5. CASE EffectPart  BY <1>5 DEF EffectPart
<1>6. CASE BeatPart  BY <1>6 DEF BeatPart
<1>7. CASE AlertsPart  BY <1>7 DEF AlertsPart
<1>8. CASE ReleasePart  BY <1>8 DEF ReleasePart
<1>9. CASE RestorePart  BY <1>9 DEF RestorePart
<1>10. CASE DrillPart  BY <1>10 DEF DrillPart
<1>11. CASE UNCHANGED planeVars  BY <1>11 DEF planeVars
<1> QED
  BY <1>1, <1>2, <1>3, <1>4, <1>5, <1>6, <1>7, <1>8, <1>9, <1>10, <1>11 DEF PlaneNext

LEMMA PeripheryParts ==
    PlaneSpec => /\ ArchiveSpec /\ ImaSpec /\ CollectSpec /\ D1EffectSpec
                 /\ HeartbeatSpec /\ AlertsSpec /\ ReleaseSpec /\ RestoreSpec
                 /\ DrillSpec /\ LifeInit /\ [][LifeNext]_lifeVars
<1>1. PlaneInit => /\ ArchiveInit /\ ImaInit /\ CollectInit /\ LifeInit /\ D1EffectInit
                   /\ HeartbeatInit /\ AlertsInit /\ ReleaseInit /\ RestoreInit
                   /\ DrillInit
  BY DEF PlaneInit
<1> QED
  BY <1>1, PeripheryStepParts, PTL
     DEF PlaneSpec, ArchiveSpec, ImaSpec, CollectSpec, D1EffectSpec, HeartbeatSpec,
         AlertsSpec, ReleaseSpec, RestoreSpec, DrillSpec

\* Whatever part moves, the ten stay within their types: for any finite set of
\* workers that send heartbeats, and any values of the other constants.
THEOREM PeripheryTypeCorrect ==
    ASSUME IsFiniteSet(Beating)
    PROVE  PlaneSpec => []PeripheryTypeOK
<1>1. PlaneSpec => []LifeTypeOK  BY PeripheryParts, LifeAlwaysSafe, PTL
<1>2. PlaneSpec => []HeartbeatTypeOK
  BY PeripheryParts, HeartbeatTypeCorrect, PTL
<1> QED
  BY <1>1, <1>2, PeripheryParts, ArchiveTypeCorrect, MirrorTypeCorrect,
     CollectTypeCorrect, D1EffectTypeCorrect, AlertsTypeCorrect, ReleaseTypeCorrect,
     RestoreTypeCorrect, DrillTypeCorrect, PTL DEF PeripheryTypeOK

\* And each keeps beside the others what it promises alone.
THEOREM PeripheryIsSafe ==
    ASSUME IsFiniteSet(Beating)
    PROVE  PlaneSpec => /\ [](/\ MirrorSafe /\ CollectSafe /\ BrowserOutlivesBatch
                              /\ WakeSafe /\ FirstClaimExclusive /\ ReleaseSafe
                              /\ RestoreSafe /\ RehearsalSafe)
                        /\ ArchiveSafe /\ CacheSafe /\ AlertsSafe
<1>1. PlaneSpec => [](BrowserOutlivesBatch /\ WakeSafe)
  BY PeripheryParts, LifeAlwaysSafe, PTL
<1>2. PlaneSpec => CacheSafe  BY PeripheryParts, CacheIsSafe, PTL
<1> QED
  BY <1>1, <1>2, PeripheryParts, MirrorCorrect, CollectIsSafe, FirstClaimSafe,
     ReleaseIsSafe, RestoreIsSafe, RehearsalIsSafe, ArchiveIsSafe, AlertsAreSafe, PTL
=============================================================================

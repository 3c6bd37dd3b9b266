----------------------------- MODULE ImaMirror -----------------------------
(***************************************************************************)
(* The mirror of archived articles in a knowledge base of ima              *)
(* (apps/worker/src/ima-article-mirror.ts): a folder for every month, in   *)
(* it one entry for every article, and a marker for every article that is  *)
(* known to be there.  ima can tell whether a name is taken, not by which  *)
(* article.  Every request may fail with or without effect.                *)
(***************************************************************************)
EXTENDS Naturals

CONSTANTS
    Mirrors,        \* workers that mirror
    Articles,
    NoArticle,
    MonthOf,        \* [Articles -> months], from the name of the archived file
    NameOf,         \* [Articles -> names], its title
    MayCreate,      \* the web credentials that creating a folder needs are set
    MaxImaFaults    \* bound on failed requests

ASSUME ImaAssumption ==
    /\ NoArticle \notin Articles
    /\ MayCreate \in BOOLEAN
    /\ MaxImaFaults \in Nat

Months == {MonthOf[a] : a \in Articles}

MirrorPhases == {"idle", "base", "folder", "create", "relist", "check",
                 "upload", "add", "marker"}

VARIABLES
    bases,      \* the number of knowledge bases with the configured name
    folders,    \* folders[m]: the number of folders of month m
    entries,    \* entries[a]: how often article a is in the knowledge base
    markers,    \* the articles with a marker
    cached,     \* the workers that know the id of the knowledge base
    mirroring,  \* mirroring[w]: phase and article of w
    result,     \* result[a]: what the archiver learns
    together,   \* history: months two workers were at together
    imaFaults

imaVars == <<bases, folders, entries, markers, cached, mirroring, result,
             together, imaFaults>>
libraryVars == <<bases, folders, entries>>

AtRest == [phase |-> "idle", article |-> NoArticle]

ImaInit ==
    /\ bases = 1
    /\ folders = [m \in Months |-> 0]
    /\ entries = [a \in Articles |-> 0]
    /\ markers = {}
    /\ cached = {}
    /\ mirroring = [w \in Mirrors |-> AtRest]
    /\ result = [a \in Articles |-> "open"]
    /\ together = {}
    /\ imaFaults = 0

-----------------------------------------------------------------------------
At(w, phase) == mirroring[w].phase = phase
ArticleOf(w) == mirroring[w].article
FolderOf(w)  == MonthOf[ArticleOf(w)]

GoOn(w, phase) == mirroring' = [mirroring EXCEPT ![w].phase = phase]
Settle(w, outcome) ==
    /\ mirroring' = [mirroring EXCEPT ![w] = AtRest]
    /\ result' = [result EXCEPT ![ArticleOf(w)] =
                    IF @ = "open" THEN outcome ELSE @]

AtWork(m) == {w \in Mirrors : ~At(w, "idle") /\ FolderOf(w) = m}

\* the archiver reaches the mirror; an article with a marker is done
Mirror(w, a) ==
    /\ At(w, "idle")
    /\ result[a] = "open"
    /\ IF a \in markers
       THEN /\ result' = [result EXCEPT ![a] = "mirrored"]
            /\ UNCHANGED <<mirroring, together>>
       ELSE /\ mirroring' = [mirroring EXCEPT ![w] =
                               [phase |-> "base", article |-> a]]
            /\ together' = IF AtWork(MonthOf[a]) = {} THEN together
                           ELSE together \cup {MonthOf[a]}
            /\ UNCHANGED result
    /\ UNCHANGED <<libraryVars, markers, cached, imaFaults>>

FindUniqueKnowledgeBase(w) ==
    /\ At(w, "base")
    /\ IF w \in cached \/ bases = 1
       THEN cached' = cached \cup {w} /\ GoOn(w, "folder") /\ UNCHANGED result
       ELSE Settle(w, "uncertain") /\ UNCHANGED cached
    /\ UNCHANGED <<libraryVars, markers, together, imaFaults>>

\* all pages of the list
Matches(w) == folders[FolderOf(w)]

\* a folder that was just created is listed again
FindUniqueMonthFolder(w) ==
    /\ At(w, "folder") \/ At(w, "relist")
    /\ CASE Matches(w) = 1 -> GoOn(w, "check") /\ UNCHANGED result
         [] Matches(w) = 0 /\ At(w, "folder") /\ MayCreate ->
              GoOn(w, "create") /\ UNCHANGED result
         [] OTHER -> Settle(w, "uncertain")
    /\ UNCHANGED <<libraryVars, markers, cached, together, imaFaults>>

CreateFolder(w) ==
    /\ At(w, "create")
    /\ folders' = [folders EXCEPT ![FolderOf(w)] = @ + 1]
    /\ GoOn(w, "relist")
    /\ UNCHANGED <<bases, entries, markers, cached, result, together,
                   imaFaults>>

Repeated(a) ==
    \E b \in Articles :
        NameOf[b] = NameOf[a] /\ MonthOf[b] = MonthOf[a] /\ entries[b] > 0

CheckRepeatedNames(w) ==
    /\ At(w, "check")
    /\ IF Repeated(ArticleOf(w))
       THEN Settle(w, "uncertain")
       ELSE GoOn(w, "upload") /\ UNCHANGED result
    /\ UNCHANGED <<libraryVars, markers, cached, together, imaFaults>>

\* mutant: the marker is put before the entry is added
UploadMarked(w) ==
    /\ At(w, "upload")
    /\ GoOn(w, "add")
    /\ markers' = markers \cup {ArticleOf(w)}
    /\ UNCHANGED <<libraryVars, cached, result, together, imaFaults>>

\* create_media and the upload to the object store: nothing in the list yet
Upload(w) ==
    /\ At(w, "upload")
    /\ GoOn(w, "add")
    /\ UNCHANGED <<libraryVars, markers, cached, result, together, imaFaults>>

AddKnowledge(w) ==
    /\ At(w, "add")
    /\ entries' = [entries EXCEPT ![ArticleOf(w)] = @ + 1]
    /\ GoOn(w, "marker")
    /\ UNCHANGED <<bases, folders, markers, cached, result, together,
                   imaFaults>>

PutMarker(w) ==
    /\ At(w, "marker")
    /\ markers' = markers \cup {ArticleOf(w)}
    /\ Settle(w, "mirrored")
    /\ UNCHANGED <<libraryVars, cached, together, imaFaults>>

\* a request fails: what it asked for may have been done
RequestFails(w, done) ==
    LET a == ArticleOf(w)
    IN  /\ ~At(w, "idle")
        /\ imaFaults < MaxImaFaults
        /\ imaFaults' = imaFaults + 1
        /\ folders' = IF done /\ At(w, "create")
                      THEN [folders EXCEPT ![MonthOf[a]] = @ + 1] ELSE folders
        /\ entries' = IF done /\ At(w, "add")
                      THEN [entries EXCEPT ![a] = @ + 1] ELSE entries
        /\ markers' = IF done /\ At(w, "marker")
                      THEN markers \cup {a} ELSE markers
        /\ Settle(w, "uncertain")
        /\ UNCHANGED <<bases, cached, together>>

\* the article stays open: its claim goes stale and it is archived again
WorkerCrash(w) ==
    /\ ~At(w, "idle")
    /\ mirroring' = [mirroring EXCEPT ![w] = AtRest]
    /\ cached' = cached \ {w}
    /\ UNCHANGED <<libraryVars, markers, result, together, imaFaults>>

\* the owner makes a second knowledge base of the same name
SecondBase ==
    /\ bases = 1
    /\ bases' = 2
    /\ UNCHANGED <<folders, entries, markers, cached, mirroring, result,
                   together, imaFaults>>

ImaNext ==
    \/ \E w \in Mirrors :
         \/ \E a \in Articles : Mirror(w, a)
         \/ FindUniqueKnowledgeBase(w) \/ FindUniqueMonthFolder(w)
         \/ CreateFolder(w) \/ CheckRepeatedNames(w) \/ Upload(w)
         \/ AddKnowledge(w) \/ PutMarker(w)
         \/ \E done \in BOOLEAN : RequestFails(w, done)
         \/ WorkerCrash(w)
    \/ SecondBase

ImaSpec == ImaInit /\ [][ImaNext]_imaVars

-----------------------------------------------------------------------------
(* Properties *)

\* Types of the variables; a worker at rest holds no article.
ImaTypeOK ==
    /\ bases \in 1..2
    /\ folders \in [Months -> Nat]
    /\ entries \in [Articles -> Nat]
    /\ markers \subseteq Articles
    /\ cached \subseteq Mirrors
    /\ mirroring \in [Mirrors -> [phase : MirrorPhases,
                                  article : Articles \cup {NoArticle}]]
    /\ \A w \in Mirrors : At(w, "idle") <=> ArticleOf(w) = NoArticle
    /\ result \in [Articles -> {"open", "uncertain", "mirrored"}]
    /\ together \subseteq Months
    /\ imaFaults \in 0..MaxImaFaults

\* An article that is reported as mirrored, or is skipped for its marker, is
\* in the knowledge base, whatever was lost or crashed on the way.
MirroredMeansImported ==
    \A a \in Articles :
        a \in markers \/ result[a] = "mirrored" => entries[a] > 0

\* An import whose marker was lost is not made again: the name gives it away.
ImportedOnce ==
    \A a \in Articles : MonthOf[a] \notin together => entries[a] <= 1

\* A month that one worker at a time is at gets one folder, even when the
\* answer to its creation is lost; with two, no later article of the month
\* could be mirrored.
OneFolderPerMonth ==
    \A m \in Months \ together : folders[m] <= 1

\* No two articles of one name get into the folder of a month.
NamesUnique ==
    \A a, b \in Articles :
        /\ a # b /\ NameOf[a] = NameOf[b] /\ MonthOf[a] = MonthOf[b]
        /\ MonthOf[a] \notin together
        => entries[a] = 0 \/ entries[b] = 0

\* The knowledge base holds every mirrored article, and holds it once.
MirrorSafe ==
    /\ MirroredMeansImported /\ ImportedOnce
    /\ OneFolderPerMonth /\ NamesUnique
=============================================================================

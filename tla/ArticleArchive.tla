--------------------------- MODULE ArticleArchive ---------------------------
(***************************************************************************)
(* The archive of articles: a git repository that each worker clones,      *)
(* commits to and pushes, and that its owner pushes to as well             *)
(* (apps/worker/src/article-archive.ts).                                   *)
(*                                                                         *)
(* Deployments: a pod is the only worker and keeps its clone on a volume   *)
(* over a restart; of instances there may be several (one drains while     *)
(* the next one starts), each with a disk that a crash takes with it.      *)
(*                                                                         *)
(* Files are only ever added, so a commit is the set of files it holds,    *)
(* and one commit is an ancestor of another when it is a subset of it.     *)
(* A command of git is one step: a worker dies before or after it, and     *)
(* what a kill inside git leaves behind is not modelled.                   *)
(***************************************************************************)
EXTENDS Naturals, FiniteSets

CONSTANTS
    Pod,           \* the worker with a volume
    Instances,     \* the workers without
    Urls,          \* the articles
    ArticleTitle,       \* [Urls -> titles]: two articles may have one title
    NoUrl,         \* the url of a file of the owner, and no fingerprint
    Note,          \* the title of the owner's files
    MaxDay,        \* bound on the days, which file names start with
    MaxGitFaults,  \* bound on git commands that fail, and lost answers
    MaxNotes       \* bound on the commits of the owner

ASSUME ArchiveAssumption ==
    /\ Pod \notin Instances
    /\ NoUrl \notin Urls
    /\ \A u \in Urls : ArticleTitle[u] # Note
    /\ MaxDay \in Nat /\ MaxGitFaults \in Nat /\ MaxNotes \in Nat

Archivers == {Pod} \cup Instances
Titles    == {ArticleTitle[u] : u \in Urls} \cup {Note}

\* contents differ with their writer and day (archived_at); a file of the
\* owner has its number for a day
Files == [title : Titles, day : (0..MaxDay) \cup (0..MaxNotes),
          print : Urls \cup {NoUrl}, url : Urls \cup {NoUrl},
          by : Archivers \cup {NoUrl}]

PathOf(f)  == <<f.title, f.day, f.print>>
PathsOf(F) == {PathOf(f) : f \in F}
Holding(F, u) == {f \in F : f.url = u}

Phases == {"idle", "open", "pull", "find", "status", "commit", "push",
           "repull", "mirror"}

VARIABLES
    deployment,  \* "pod" or "instances"
    remote,      \* the files of the remote branch
    cloned,      \* the workers whose clone is complete
    head,        \* head[w]: the files of the last commit of w's clone
    index,       \* index[w]: staged and not committed
    tree,        \* tree[w]: written and not staged
    saves,       \* saves[w]: where the archiver of w stands
    verdict,     \* verdict[u]: what became of the article, for the ledger
    shared,      \* history: articles two workers were at together
    day,
    gitFaults,
    notes

archiveVars == <<deployment, remote, cloned, head, index, tree, saves,
                 verdict, shared, day, gitFaults, notes>>
cloneVars   == <<cloned, head, index, tree>>

Idle == [phase |-> "idle", url |-> NoUrl, day |-> 0, pushes |-> 0]

ArchiveInit ==
    /\ deployment \in {"pod", "instances"}
    /\ remote = {}
    /\ cloned = {}
    /\ head = [w \in Archivers |-> {}]
    /\ index = [w \in Archivers |-> {}]
    /\ tree = [w \in Archivers |-> {}]
    /\ saves = [w \in Archivers |-> Idle]
    /\ verdict = [u \in Urls |-> "open"]
    /\ shared = {}
    /\ day = 0
    /\ gitFaults = 0
    /\ notes = 0

-----------------------------------------------------------------------------
(* createArticleArchiver                                                   *)

\* the claim on an article (Dispatch) may go stale while git is still busy
\* with it, and then a second worker archives it as well
Busy(u)    == {w \in Archivers : saves[w].url = u}
Deployed(w) == IF deployment = "pod" THEN w = Pod ELSE w \in Instances

\* the source was read and the article is fit to be written
Extract(w, u) ==
    /\ Deployed(w)
    /\ saves[w].phase = "idle"
    /\ verdict[u] = "open"
    /\ saves' = [saves EXCEPT ![w] =
                    [phase |-> "open", url |-> u, day |-> day, pushes |-> 1]]
    /\ shared' = IF Busy(u) = {} THEN shared ELSE shared \cup {u}
    /\ UNCHANGED <<deployment, remote, cloneVars, verdict, day, gitFaults,
                   notes>>

\* the browser found no article either: reported as done and never archived
Skip(w, u) ==
    /\ Deployed(w)
    /\ saves[w].phase = "idle"
    /\ verdict[u] = "open"
    /\ Busy(u) = {}
    /\ verdict' = [verdict EXCEPT ![u] = "skipped"]
    /\ UNCHANGED <<deployment, remote, cloneVars, saves, shared, day,
                   gitFaults, notes>>

\* the error is caught after writeStarted: nobody retries by himself.
\* Another worker at the same article may have settled it before.
Abandon(w) ==
    /\ saves' = [saves EXCEPT ![w] = Idle]
    /\ verdict' = [verdict EXCEPT ![saves[w].url] =
                     IF @ = "open" THEN "uncertain" ELSE @]

Advance(w, phase) == saves' = [saves EXCEPT ![w].phase = phase]

-----------------------------------------------------------------------------
(* Git in one clone *)

Descends(commit, ancestor) == ancestor \subseteq commit

\* git pull --rebase refuses a dirty index, stops at a file both sides added,
\* and would not write over an untracked file
CanRebase(w) ==
    LET theirs == remote \ head[w]
        ours   == (head[w] \ remote) \cup tree[w]
    IN  /\ index[w] = {}
        /\ PathsOf(theirs) \cap PathsOf(ours) = {}

\* all attempts in one: another one meets the same conflict.  The rebase is
\* aborted when it fails, and the local commits stay as they were.
PullRebaseSafely(w, from, to) ==
    /\ saves[w].phase = from
    /\ CanRebase(w)
    /\ head' = [head EXCEPT ![w] = @ \cup remote]
    /\ Advance(w, to)
    /\ UNCHANGED <<deployment, remote, cloned, index, tree, verdict, shared,
                   day, gitFaults, notes>>

PullConflict(w) ==
    /\ saves[w].phase \in {"pull", "repull"}
    /\ ~CanRebase(w)
    /\ Abandon(w)
    /\ UNCHANGED <<deployment, remote, cloneVars, shared, day, gitFaults,
                   notes>>

\* any git command fails for good, among them a clone or a commit
GitFails(w) ==
    /\ saves[w].phase \in {"open", "pull", "status", "commit", "repull"}
    /\ gitFaults < MaxGitFaults
    /\ gitFaults' = gitFaults + 1
    /\ Abandon(w)
    /\ UNCHANGED <<deployment, remote, cloneVars, shared, day, notes>>

-----------------------------------------------------------------------------
(* GitArticleRepository.save *)

\* no clone, or an incomplete one that is moved out of the way
Clone(w) ==
    /\ saves[w].phase = "open"
    /\ w \notin cloned
    /\ cloned' = cloned \cup {w}
    /\ head' = [head EXCEPT ![w] = remote]
    /\ Advance(w, "find")
    /\ UNCHANGED <<deployment, remote, index, tree, verdict, shared, day,
                   gitFaults, notes>>

LsRemote(w) ==
    /\ saves[w].phase = "open"
    /\ w \in cloned
    /\ Advance(w, IF remote = head[w] THEN "find" ELSE "pull")
    /\ UNCHANGED <<deployment, remote, cloneVars, verdict, shared, day,
                   gitFaults, notes>>

Visible(w) == head[w] \cup index[w] \cup tree[w]

PlainFile(w, u) ==
    [title |-> ArticleTitle[u], day |-> saves[w].day, print |-> NoUrl,
     url |-> u, by |-> w]

NewFile(w, u) ==
    IF PathOf(PlainFile(w, u)) \in PathsOf(Visible(w))
    THEN [PlainFile(w, u) EXCEPT !.print = u]
    ELSE PlainFile(w, u)

FindSourceUrl(w, u) == Holding(Visible(w), u) # {}

\* an article with this url is there already, or it is written, synced and
\* renamed into place
FindOrWrite(w) ==
    LET u == saves[w].url
    IN  /\ saves[w].phase = "find"
        /\ tree' = [tree EXCEPT ![w] =
                      IF FindSourceUrl(w, u) THEN @
                      ELSE @ \cup {NewFile(w, u)}]
        /\ Advance(w, "status")
        /\ UNCHANGED <<deployment, remote, cloned, head, index, verdict,
                       shared, day, gitFaults, notes>>

\* mutant: a file that is committed counts as archived
AfterStatusDone(w, u) ==
    IF Holding(tree[w] \cup index[w], u) = {} THEN "mirror" ELSE "commit"

AfterStatus(w, u) ==
    IF Holding(tree[w] \cup index[w], u) = {} THEN "push" ELSE "commit"

\* git status, and git add when the file is not committed
Add(w) ==
    LET u == saves[w].url
    IN  /\ saves[w].phase = "status"
        /\ index' = [index EXCEPT ![w] = @ \cup Holding(tree[w], u)]
        /\ tree' = [tree EXCEPT ![w] = @ \ Holding(tree[w], u)]
        /\ Advance(w, AfterStatus(w, u))
        /\ UNCHANGED <<deployment, remote, cloned, head, verdict, shared,
                       day, gitFaults, notes>>

\* git commit --only: other staged files stay staged
Commit(w) ==
    LET files == Holding(index[w], saves[w].url)
    IN  /\ saves[w].phase = "commit"
        /\ head' = [head EXCEPT ![w] = @ \cup files]
        /\ index' = [index EXCEPT ![w] = @ \ files]
        /\ Advance(w, "push")
        /\ UNCHANGED <<deployment, remote, cloned, tree, verdict, shared,
                       day, gitFaults, notes>>

\* the remote takes a push only when it adds to what it has
MayPush(w) == Descends(head[w], remote)

Push(w) ==
    /\ saves[w].phase = "push"
    /\ MayPush(w)
    /\ remote' = head[w]
    /\ Advance(w, "mirror")
    /\ UNCHANGED <<deployment, cloneVars, verdict, shared, day, gitFaults,
                   notes>>

PushAttempts == 3

MorePushes(w) == saves[w].pushes < PushAttempts

\* the push is refused or fails, or its answer is lost
PushFails(w, arrived) ==
    /\ saves[w].phase = "push"
    /\ IF MayPush(w)
       THEN /\ gitFaults < MaxGitFaults
            /\ gitFaults' = gitFaults + 1
            /\ remote' = IF arrived THEN head[w] ELSE remote
       ELSE ~arrived /\ UNCHANGED <<gitFaults, remote>>
    /\ IF MorePushes(w)
       THEN /\ saves' = [saves EXCEPT ![w].phase = "repull",
                                      ![w].pushes = @ + 1]
            /\ UNCHANGED verdict
       ELSE Abandon(w)
    /\ UNCHANGED <<deployment, cloneVars, shared, day, notes>>

-----------------------------------------------------------------------------
\* mirror and event are written
Record(w) ==
    /\ saves[w].phase = "mirror"
    /\ verdict' = [verdict EXCEPT ![saves[w].url] = "saved"]
    /\ saves' = [saves EXCEPT ![w] = Idle]
    /\ UNCHANGED <<deployment, remote, cloneVars, shared, day, gitFaults,
                   notes>>

\* the mirror or the event fails after the push
RecordFails(w) ==
    /\ saves[w].phase = "mirror"
    /\ Abandon(w)
    /\ UNCHANGED <<deployment, remote, cloneVars, shared, day, gitFaults,
                   notes>>

\* the worker dies between two commands of git; the claim of the article goes
\* stale, and another worker may take it
Crash(w) ==
    /\ saves[w].phase # "idle"
    /\ saves' = [saves EXCEPT ![w] = Idle]
    /\ IF w = Pod
       THEN UNCHANGED cloneVars
       ELSE /\ cloned' = cloned \ {w}
            /\ head' = [head EXCEPT ![w] = {}]
            /\ index' = [index EXCEPT ![w] = {}]
            /\ tree' = [tree EXCEPT ![w] = {}]
    /\ UNCHANGED <<deployment, remote, verdict, shared, day, gitFaults, notes>>

\* the owner commits something of his own
OwnerPush ==
    /\ notes < MaxNotes
    /\ notes' = notes + 1
    /\ remote' = remote \cup {[title |-> Note, day |-> notes, print |-> NoUrl,
                               url |-> NoUrl, by |-> NoUrl]}
    /\ UNCHANGED <<deployment, cloneVars, saves, verdict, shared, day,
                   gitFaults>>

NextDay ==
    /\ day < MaxDay
    /\ day' = day + 1
    /\ UNCHANGED <<deployment, remote, cloneVars, saves, verdict, shared,
                   gitFaults, notes>>

SaveStep(w) ==
    \/ Clone(w) \/ LsRemote(w)
    \/ PullRebaseSafely(w, "pull", "find")
    \/ PullRebaseSafely(w, "repull", "push")
    \/ PullConflict(w)
    \/ FindOrWrite(w) \/ Add(w) \/ Commit(w) \/ Push(w)
    \/ \E arrived \in BOOLEAN : PushFails(w, arrived)
    \/ Record(w) \/ RecordFails(w) \/ GitFails(w)

ArchiveNext ==
    \/ \E w \in Archivers :
         \/ \E u \in Urls : Extract(w, u) \/ Skip(w, u)
         \/ SaveStep(w)
         \/ Crash(w)
    \/ OwnerPush
    \/ NextDay

ArchiveSpec == ArchiveInit /\ [][ArchiveNext]_archiveVars

-----------------------------------------------------------------------------
(* Properties *)

Verdicts == {"open", "skipped", "uncertain", "saved"}

\* Types of the variables.
ArchiveTypeOK ==
    /\ deployment \in {"pod", "instances"}
    /\ remote \subseteq Files
    /\ cloned \subseteq Archivers
    /\ head \in [Archivers -> SUBSET Files]
    /\ index \in [Archivers -> SUBSET Files]
    /\ tree \in [Archivers -> SUBSET Files]
    /\ saves \in [Archivers -> [phase : Phases, url : Urls \cup {NoUrl},
                                day : 0..MaxDay, pushes : 0..PushAttempts]]
    /\ verdict \in [Urls -> Verdicts]
    /\ shared \subseteq Urls
    /\ day \in 0..MaxDay
    /\ gitFaults \in 0..MaxGitFaults
    /\ notes \in 0..MaxNotes

\* An article that was reported as archived is in the remote branch: neither
\* a clone left behind by a crash, nor a push whose answer was lost, nor a
\* rebase over the commits of others makes save return without it.
SavedMeansPushed ==
    \A u \in Urls : verdict[u] = "saved" => Holding(remote, u) # {}

\* The remote branch never holds one article twice, on whatever day it is
\* archived again after a crash between two commands of git, as long as no second worker takes it while
\* the first is still at it.
OneFilePerUrl ==
    \A u \in Urls \ shared : Cardinality(Holding(remote, u)) <= 1

\* No two files of the branch have one name: two articles of one title and
\* day end in two files, or one of them fails.
NothingOverwritten ==
    \A f, g \in remote : PathOf(f) = PathOf(g) => f = g

\* A push never takes anything out of the remote branch.
HistoryKept == [][remote \subseteq remote']_archiveVars

\* Nothing that was archived is lost, doubled or overwritten, wherever between
\* two commands of git a worker dies.
ArchiveSafe ==
    /\ [](SavedMeansPushed /\ OneFilePerUrl /\ NothingOverwritten)
    /\ HistoryKept
=============================================================================

----------------------------- MODULE Collection -----------------------------
(***************************************************************************)
(* A collection: a worker reads what a person has saved in one of the      *)
(* sources, publishes what is new, remembers it, and for some sources      *)
(* deletes the originals (apps/worker/src/job-handler.ts, http-collectors, *)
(* browser-collectors, collector-parsers).  Two collections of one source  *)
(* may overlap: an hourly one and one that was asked for, or one that a    *)
(* second worker took over.                                                *)
(*                                                                         *)
(* The sources differ in how they are read and in what is remembered:      *)
(*   stars      pages, newest first (github)                               *)
(*   favorites  pages, newest first (zhihu, bilibili)                      *)
(*   scroll     a page that grows, down to what is known (youtube)         *)
(*   wall       a page that grows, down to its end (inoreader, x)          *)
(*   list       everything at once (bilibili_toview)                       *)
(*   updates    a queue, oldest first, confirmed by an offset that counts  *)
(*              every update, one without a file or text too (telegram)    *)
(*   tasks      everything; titles remembered, originals deleted (dida)    *)
(* Items are numbered as they are saved: of two, the newer has the higher  *)
(* number, so that a set of them is also a list, newest first.             *)
(***************************************************************************)
EXTENDS Naturals, FiniteSets

CONSTANTS
    Collectors,        \* workers
    MaxSaved,          \* bound on the items the person saves
    TitleOf,           \* [1..MaxSaved -> Nat]: titles of tasks, as numbers
    Unreadable,        \* the items a parser drops, as updates those that
                       \* have neither a file nor text
    PageSize,
    MaxPages,          \* a reading ends after so many pages
    MaxCollectFaults   \* bound on requests that fail

Saved   == 1..MaxSaved
Paged   == {"stars", "favorites", "scroll", "wall"}
Sources == Paged \cup {"list", "updates", "tasks"}

ASSUME CollectionAssumption ==
    /\ MaxSaved \in Nat /\ MaxCollectFaults \in Nat
    /\ PageSize \in Nat \ {0} /\ MaxPages \in Nat \ {0}
    /\ Unreadable \subseteq Saved
    /\ DOMAIN TitleOf = Saved

VARIABLES
    source,         \* the kind of source, from the start on
    feed,           \* what the source holds
    saved,          \* how many items the person has saved
    known,          \* the stored state: keys, titles, or all up to the offset
    published,      \* items whose jobs are in the Queue
    gone,           \* items the source has dropped for the collector
    collects,       \* collects[w]: the collection of worker w
    torn,           \* history: the owner removed an item where it shifted the
                    \* pages being read, a parser dropped one where it ended
                    \* them, a page did not grow in time, or they were more
                    \* than a reading takes
    collectFaults

collectVars == <<source, feed, saved, known, published, gone, collects, torn,
                 collectFaults>>

\* base: the state it starts from; fresh: the items to publish; counted: the
\* updates that the next offset counts; doomed: the tasks to delete
NoCollection == [phase |-> "idle", base |-> {}, page |-> 1, fresh |-> {},
                 counted |-> {}, doomed |-> {}]

CollectInit ==
    /\ source \in Sources
    /\ feed = {}
    /\ saved = 0
    /\ known = {}
    /\ published = {}
    /\ gone = {}
    /\ collects = [w \in Collectors |-> NoCollection]
    /\ torn = FALSE
    /\ collectFaults = 0

-----------------------------------------------------------------------------
KeyOf(i)   == IF source = "tasks" THEN TitleOf[i] ELSE i
KeysOf(S)  == {KeyOf(i) : i \in S}
In(w, phase) == collects[w].phase = phase
Paging     == \E w \in Collectors : In(w, "read") /\ collects[w].page > 1

SaveItem ==
    /\ saved < MaxSaved
    /\ saved' = saved + 1
    /\ feed' = feed \cup {saved + 1}
    /\ UNCHANGED <<source, known, published, gone, collects, torn,
                   collectFaults>>

\* the person takes a star back, ticks off a task
TakeBack(i) ==
    /\ source # "updates"
    /\ i \in feed
    /\ feed' = feed \ {i}
    /\ torn' = (torn \/ Paging)
    /\ UNCHANGED <<source, saved, known, published, gone, collects,
                   collectFaults>>

-----------------------------------------------------------------------------
(* Reading *)

Begin(w) ==
    /\ In(w, "idle")
    /\ collects' = [collects EXCEPT ![w] =
                      [NoCollection EXCEPT !.phase = "read", !.base = known]]
    /\ UNCHANGED <<source, feed, saved, known, published, gone, torn,
                   collectFaults>>

\* how many of the source's items are newer
Rank(i) == Cardinality({j \in feed : j > i})

\* the page as it is at this moment
PageAt(page) ==
    IF source \in Paged
    THEN {i \in feed : Rank(i) >= (page - 1) * PageSize
                       /\ Rank(i) < page * PageSize}
    ELSE feed

Readable(rows) == rows \ Unreadable

AtEnd(page) == source \in Paged => page * PageSize >= Cardinality(feed)

\* the page gives a reason not to ask for the next one
Ended(page, items, fresh) ==
    CASE source = "stars" -> Cardinality(items) < PageSize \/ fresh = {}
      [] source = "favorites" -> items = {} \/ fresh = {} \/ AtEnd(page)
      [] source = "scroll" -> items = {} \/ items # fresh
      [] source = "wall" -> items = {}
      [] OTHER -> TRUE

\* mutant: tasks the parser dropped are deleted as well
DoomedAll(rows, items) == rows

\* the tasks to delete: every one that could be read
Doomed(rows, items) == rows \cap items

Waits == {"grown", "stalled"}

\* a page that grows is taken to be at its end when it has not grown after a
\* wait, which a slow one may not have done either
ReadPage(w, wait) ==
    LET c     == collects[w]
        rows  == PageAt(c.page)
        items == Readable(rows)
        fresh == {i \in items : KeyOf(i) \notin c.base}
        ended == Ended(c.page, items, fresh)
        last  == ended \/ c.page = MaxPages \/ wait = "stalled"
    IN  /\ In(w, "read")
        /\ source # "updates"
        /\ wait = "stalled" => source \in {"scroll", "wall"}
        /\ collects' = [collects EXCEPT
             ![w].fresh = @ \cup fresh,
             ![w].page = IF last THEN @ ELSE @ + 1,
             ![w].doomed = IF source = "tasks" THEN Doomed(rows, items)
                           ELSE @,
             ![w].phase = IF last THEN "publish" ELSE @]
        /\ torn' = (torn \/ (last /\ ~AtEnd(c.page)
                                  /\ (rows # items \/ ~ended)))
        /\ UNCHANGED <<source, feed, saved, known, published, gone,
                       collectFaults>>

\* getUpdates with the offset: the source drops what is below it, and
\* returns the oldest of the others; the offset goes past all of them, those
\* without a file or text, of which nothing is made, included
Oldest(rows) == {i \in rows : Cardinality({j \in rows : j < i}) < PageSize}

GetUpdates(w) ==
    LET c    == collects[w]
        left == feed \ c.base
        rows == Oldest(left)
    IN  /\ In(w, "read")
        /\ source = "updates"
        /\ feed' = left
        /\ gone' = gone \cup (feed \cap c.base)
        /\ collects' = [collects EXCEPT ![w].phase = "publish",
                                        ![w].fresh = Readable(rows),
                                        ![w].counted = rows]
        /\ UNCHANGED <<source, saved, known, published, torn, collectFaults>>

-----------------------------------------------------------------------------
(* Committing: publish, remember, delete *)

Publish(w) ==
    /\ In(w, "publish")
    /\ published' = published \cup collects[w].fresh
    /\ collects' = [collects EXCEPT ![w].phase = "store"]
    /\ UNCHANGED <<source, feed, saved, known, gone, torn, collectFaults>>

\* the new state replaces the stored one, whatever another collection put
\* there since; an offset is the highest number that was counted
Remembered(w) ==
    LET c == collects[w]
    IN  IF source = "updates"
        THEN {i \in Saved : \E j \in c.base \cup c.counted : i <= j}
        ELSE c.base \cup KeysOf(c.fresh)

StateUpdates(w) ==
    IF source = "updates" /\ collects[w].counted = {} THEN known
    ELSE Remembered(w)

\* a shadow collection leaves only a record of its own
Observe(w) ==
    /\ In(w, "publish")
    /\ collects' = [collects EXCEPT ![w] = NoCollection]
    /\ UNCHANGED <<source, feed, saved, known, published, gone, torn,
                   collectFaults>>

PutState(w) ==
    /\ In(w, "store")
    /\ known' = StateUpdates(w)
    /\ collects' = [collects EXCEPT ![w].phase = "delete"]
    /\ UNCHANGED <<source, feed, saved, published, gone, torn, collectFaults>>

\* afterCommit: one request after the other, 404 is fine
Deletes(w, i) ==
    /\ i \in collects[w].doomed
    /\ \A j \in collects[w].doomed : j <= i
    /\ feed' = feed \ {i}
    /\ gone' = gone \cup (feed \cap {i})

DeleteTask(w) ==
    /\ In(w, "delete")
    /\ \E i \in Saved :
         /\ Deletes(w, i)
         /\ collects' = [collects EXCEPT ![w].doomed = @ \ {i}]
    /\ UNCHANGED <<source, saved, known, published, torn, collectFaults>>

\* notified, the login session stored
Complete(w) ==
    /\ In(w, "delete")
    /\ collects[w].doomed = {}
    /\ collects' = [collects EXCEPT ![w] = NoCollection]
    /\ UNCHANGED <<source, feed, saved, known, published, gone, torn,
                   collectFaults>>

\* a request fails or times out, its effect may have come about; some jobs
\* may have been published.  The job is retried from the start.
CollectFails(w, part, done) ==
    LET c == collects[w]
    IN  /\ ~In(w, "idle")
        /\ collectFaults < MaxCollectFaults
        /\ collectFaults' = collectFaults + 1
        /\ part # {} => In(w, "publish") /\ part \subseteq c.fresh
        /\ published' = published \cup part
        /\ known' = IF done /\ In(w, "store") THEN StateUpdates(w) ELSE known
        /\ IF done /\ In(w, "delete") /\ c.doomed # {}
           THEN \E i \in Saved : Deletes(w, i)
           ELSE UNCHANGED <<feed, gone>>
        /\ collects' = [collects EXCEPT ![w] = NoCollection]
        /\ UNCHANGED <<source, saved, torn>>

CollectNext ==
    \/ SaveItem
    \/ \E i \in Saved : TakeBack(i)
    \/ \E w \in Collectors :
         \/ Begin(w) \/ GetUpdates(w)
         \/ \E wait \in Waits : ReadPage(w, wait)
         \/ Observe(w) \/ Publish(w) \/ PutState(w)
         \/ DeleteTask(w) \/ Complete(w)
         \/ \E part \in SUBSET Saved, done \in BOOLEAN :
              CollectFails(w, part, done)

CollectSpec == CollectInit /\ [][CollectNext]_collectVars

-----------------------------------------------------------------------------
(* Properties *)

\* Types of the variables.
CollectTypeOK ==
    LET Keys == Saved \cup {TitleOf[i] : i \in Saved}
    IN  /\ source \in Sources
        /\ saved \in 0..MaxSaved /\ feed \subseteq 1..saved
        /\ known \subseteq Keys
        /\ published \subseteq Saved /\ gone \subseteq Saved
        /\ \A w \in Collectors :
             /\ collects[w].phase \in {"idle", "read", "publish", "store",
                                       "delete"}
             /\ collects[w].base \subseteq Keys
             /\ collects[w].page \in 1..MaxPages
             /\ collects[w].fresh \subseteq Saved
             /\ collects[w].counted \subseteq Saved
             /\ collects[w].doomed \subseteq Saved
        /\ torn \in BOOLEAN /\ collectFaults \in 0..MaxCollectFaults

\* An update without a file or text is lost: parseTelegramUpdates makes nothing
\* of it and raises the offset all the same.
Dropped == IF source = "updates" THEN Unreadable ELSE {}

\* What a source is said to be known by was published, or was an update
\* nothing is made of: the state is stored last, whichever collection stores
\* it, so that a crash repeats items and never skips one that can be read.
KnownMeansPublished == known \subseteq KeysOf(published \cup Dropped)

\* An update is confirmed, or a task deleted, only after an item of its key
\* was published, if anything is made of it.
GoneMeansPublished == KeysOf(gone) \subseteq KeysOf(published \cup Dropped)

\* No item is left behind under newer ones that are known: the next
\* collection would stop above it.
NoGap ==
    source \notin {"updates", "tasks"} /\ ~torn =>
      \A i, j \in feed \ Unreadable :
        i < j /\ j \in known => i \in known

\* Nothing that a person has saved and a parser can read is passed over: neither
\* the state nor the source is changed before the items are out, and the state
\* has no gaps but where a reading was torn.
CollectSafe == KnownMeansPublished /\ GoneMeansPublished /\ NoGap

\* A link of a task is deleted after it was published
\* (openspec/specs/source-parsing/spec.md:28).  The code deletes every task
\* whose title was once published.
DeletedMeansPublished == gone \subseteq published
=============================================================================

----------------------------- MODULE LifeProofs -----------------------------
(***************************************************************************)
(* Proofs about a worker process, for any jobs, dependencies and number of *)
(* kills, signals, hang-ups and errors: it works for one wake-up at a      *)
(* time, keeps its browser as long as a batch uses it, and acknowledges    *)
(* nothing that it has not pulled.                                         *)
(***************************************************************************)
EXTENDS WorkerLifecycle, FiniteSetTheorems, TLAPS

\* a process is woken or polls
OneMode ==
    /\ mode = "loop" => \A x \in Wakes : drain[x] = "no" /\ wake[x] = "idle"
    /\ mode = "webhook" => drain[Polling] = "no"

OneDrain ==
    \A x, y \in Drains : drain[x] # "no" /\ drain[y] # "no" => x = y

\* batches are run between start and shutdown
StartedFirst ==
    /\ life \in {"down", "starting"} =>
          ~runnable /\ \A x \in Drains : drain[x] = "no"
    /\ life \in {"finally", "exiting"} => ~accepting

\* a batch has a browser, and so has every process that may begin one
BrowserThere ==
    /\ life = "starting" /\ "browser" \in up => browser = "open"
    /\ life = "running" => browser = "open"
    /\ \A x \in Drains : drain[x] \in {"pull", "work"} => browser = "open"

\* who is woken for a message finds it staged; what was leased was pulled
PulledFirst ==
    /\ acked \subseteq pulled
    /\ \A x \in Drains : batches[x] \subseteq pulled
    /\ \A m \in Jobs :
          /\ wake[m] # "idle" => place[m] # "queue"
          /\ place[m] \in {"leased", "later", "done"} => m \in pulled
          /\ drain[m] = "empty" /\ wake[m] = "handled" => m \in pulled

LifeInv ==
    /\ LifeTypeOK
    /\ OneMode /\ OneDrain
    /\ StartedFirst /\ BrowserThere
    /\ PulledFirst

\* The assumption in the form the steps use.
LEMMA WakesAndDrains ==
    /\ Jobs \subseteq Wakes /\ Cron \in Wakes /\ Wakes \subseteq Drains
    /\ Polling \in Drains /\ Polling \notin Wakes
    /\ \A x \in Drains : x \in Wakes \/ x = Polling
BY LifecycleAssumption DEF Wakes, Drains

\* In the beginning there is no process.
LEMMA LifeInitInv == LifeInit => LifeInv
<1> SUFFICES ASSUME LifeInit PROVE LifeInv
    OBVIOUS
<1>1. NoMishaps \in [kills : 0..MaxKills, stops : 0..MaxStops,
                     hangUps : 0..MaxHangUps, errors : 0..MaxErrors]
    BY LifecycleAssumption DEF NoMishaps
<1>2. LifeTypeOK
    BY <1>1, WakesAndDrains DEF LifeInit, LifeTypeOK
<1>3. OneMode /\ OneDrain /\ StartedFirst /\ BrowserThere
    BY WakesAndDrains DEF LifeInit, OneMode, OneDrain, StartedFirst, BrowserThere
<1>4. PulledFirst
    BY WakesAndDrains DEF LifeInit, PulledFirst
<1> QED BY <1>2, <1>3, <1>4 DEF LifeInv

\* A drain that ends was the only one, and takes its wake-up with it.
LEMMA AnswerEnds ==
    ASSUME LifeTypeOK, OneDrain, NEW x \in Drains, NEW ok \in BOOLEAN,
           drain[x] # "no", AnswerWake(x, ok)
    PROVE  /\ drain' \in [Drains -> {"no", "pull", "work", "empty"}]
           /\ \A y \in Drains : drain'[y] = "no"
           /\ busy' = FALSE
           /\ wake' \in [Wakes -> {"idle", "sent", "handled"}]
           /\ \A y \in Wakes : wake'[y] = wake[y] \/ wake'[y] = "idle"
           /\ queued' \subseteq Jobs /\ acked' \subseteq Jobs
           /\ acked' \subseteq acked \cup
                (IF ok /\ x \in Jobs /\ wake[x] = "handled" THEN {x} ELSE {})
<1>1. drain' = [drain EXCEPT ![x] = "no"]
    BY DEF AnswerWake
<1>2. drain' \in [Drains -> {"no", "pull", "work", "empty"}]
      /\ \A y \in Drains : drain'[y] = "no"
    BY <1>1 DEF LifeTypeOK, OneDrain
<1>3. busy' = FALSE
    BY WakesAndDrains DEF AnswerWake, OneDrain, LifeTypeOK
<1>4. CASE x \in Wakes /\ wake[x] = "handled"
    <2>1. wake' = [wake EXCEPT ![x] = "idle"]
        BY <1>4 DEF AnswerWake
    <2>2. \/ ok /\ x \in Jobs /\ queued' = queued \ {x} /\ acked' = acked \cup {x}
          \/ queued' = queued /\ acked' = acked
        BY <1>4 DEF AnswerWake
    <2> QED BY <1>2, <1>3, <1>4, <2>1, <2>2 DEF LifeTypeOK
<1>5. CASE ~(x \in Wakes /\ wake[x] = "handled")
    <2>1. wake' = wake /\ queued' = queued /\ acked' = acked
        BY <1>5 DEF AnswerWake
    <2> QED BY <1>2, <1>3, <2>1 DEF LifeTypeOK
<1> QED BY <1>4, <1>5

LEMMA MishapsCounted ==
    ASSUME LifeTypeOK
    PROVE  /\ mishaps.kills < MaxKills =>
                 [mishaps EXCEPT !.kills = @ + 1] \in
                    [kills : 0..MaxKills, stops : 0..MaxStops,
                     hangUps : 0..MaxHangUps, errors : 0..MaxErrors]
           /\ mishaps.stops < MaxStops =>
                 [mishaps EXCEPT !.stops = @ + 1] \in
                    [kills : 0..MaxKills, stops : 0..MaxStops,
                     hangUps : 0..MaxHangUps, errors : 0..MaxErrors]
           /\ mishaps.errors < MaxErrors =>
                 [mishaps EXCEPT !.errors = @ + 1] \in
                    [kills : 0..MaxKills, stops : 0..MaxStops,
                     hangUps : 0..MaxHangUps, errors : 0..MaxErrors]
BY LifecycleAssumption DEF LifeTypeOK

LEMMA DrainEnds ==
    ASSUME LifeTypeOK, OneDrain, NEW x \in Drains, NEW ok \in BOOLEAN,
           drain[x] # "no", AnswerWake(x, ok),
           UNCHANGED <<mode, processVars, place, pulled>>,
           batches' = batches \/ batches' = [batches EXCEPT ![x] = {}],
           batches'[x] = {},
           mishaps' \in [kills : 0..MaxKills, stops : 0..MaxStops,
                         hangUps : 0..MaxHangUps, errors : 0..MaxErrors]
    PROVE  LifeTypeOK'
<1>1. \A y \in Drains : batches'[y] = {}
    BY DEF LifeTypeOK, OneDrain
<1>2. batches' \in [Drains -> SUBSET Jobs]
    BY DEF LifeTypeOK
<1>3. /\ drain' \in [Drains -> {"no", "pull", "work", "empty"}]
      /\ \A y \in Drains : drain'[y] = "no"
      /\ busy' = FALSE
      /\ wake' \in [Wakes -> {"idle", "sent", "handled"}]
      /\ queued' \subseteq Jobs /\ acked' \subseteq Jobs
    BY AnswerEnds
<1>4. busy' <=> \E y \in Wakes : drain'[y] # "no"
    BY <1>3, WakesAndDrains
<1> QED BY <1>1, <1>2, <1>3, <1>4 DEF LifeTypeOK, processVars

\* What a process leaves behind.
LEMMA GoneIsIdle ==
    ASSUME LifeTypeOK, Gone
    PROVE  /\ life' = "down" /\ server' = "closed" /\ browser' = "none"
           /\ runnable' = FALSE /\ busy' = FALSE
           /\ drain' \in [Drains -> {"no", "pull", "work", "empty"}]
           /\ batches' \in [Drains -> SUBSET Jobs]
           /\ wake' \in [Wakes -> {"idle", "sent", "handled"}]
           /\ \A x \in Drains : drain'[x] = "no" /\ batches'[x] = {}
           /\ \A x \in Wakes : wake'[x] = wake[x] \/ wake'[x] = "idle"
BY DEF Gone, LifeTypeOK

\* Types are kept, because a drain that ends was the only one.
LEMMA LifeTypesStep ==
    ASSUME LifeTypeOK, OneDrain, [LifeNext]_lifeVars
    PROVE  LifeTypeOK'
<1> USE LifecycleAssumption, WakesAndDrains
    DEF LifeTypeOK, processVars, drainVars, messageVars
<1>1. CASE UNCHANGED lifeVars
    BY <1>1 DEF lifeVars
<1>2. CASE Start
    BY <1>2 DEF Start
<1>3. ASSUME NEW d \in Dependencies, DependencyReady(d)
      PROVE  LifeTypeOK'
    BY <1>3 DEF DependencyReady
<1>4. CASE Run
    BY <1>4 DEF Run
<1>5. CASE Stop
    BY <1>5, MishapsCounted DEF Stop, Stopped
<1>6. CASE StartFails
    BY <1>6, MishapsCounted DEF StartFails, Stopped
<1>7. CASE EnterFinally
    BY <1>7 DEF EnterFinally
<1>8. CASE CloseHealthServer
    BY <1>8 DEF CloseHealthServer
<1>9. CASE ServerClosed
    BY <1>9 DEF ServerClosed
<1>10. CASE CloseBrowser
    BY <1>10 DEF CloseBrowser, BatchAwaited, BatchActive
<1>11. CASE Exit
    BY <1>11, GoneIsIdle, WakesAndDrains DEF Exit
<1>12. CASE Kill
    BY <1>12, GoneIsIdle, MishapsCounted DEF Kill
<1>13. ASSUME NEW m \in Jobs, Stage(m)
      PROVE  LifeTypeOK'
    BY <1>13 DEF Stage
<1>14. ASSUME NEW m \in Jobs, Discard(m)
      PROVE  LifeTypeOK'
    BY <1>14 DEF Discard
<1>15. ASSUME NEW m \in Jobs, Reappear(m)
      PROVE  LifeTypeOK'
    BY <1>15 DEF Reappear
<1>16. CASE WakeHourly
    BY <1>16 DEF WakeHourly
<1>17. ASSUME NEW x \in Wakes, RefuseWake(x)
      PROVE  LifeTypeOK'
    BY <1>17 DEF RefuseWake
<1>18. ASSUME NEW x \in Wakes, Receive(x)
      PROVE  LifeTypeOK'
    BY <1>18 DEF Receive, Refused
<1>19. ASSUME NEW x \in Wakes, HangUp(x)
      PROVE  LifeTypeOK'
    BY <1>19 DEF HangUp
<1>20. CASE Poll
    BY <1>20 DEF Poll
<1>21. ASSUME NEW x \in Drains, PullBatch(x)
      PROVE  LifeTypeOK'
    BY <1>21 DEF PullBatch, InInbox
<1>22. ASSUME NEW x \in Drains, NextBatch(x)
      PROVE  LifeTypeOK'
    <2>1. /\ drain[x] = "work" /\ batches[x] = {}
          /\ UNCHANGED <<mode, processVars, batches, place, pulled, mishaps>>
        BY <1>22 DEF NextBatch
    <2>2. CASE AnswerWake(x, FALSE)
        <3>1. drain[x] # "no" /\ batches' = batches /\ batches'[x] = {}
            BY <2>1
        <3>2. mishaps' \in [kills : 0..MaxKills, stops : 0..MaxStops,
                            hangUps : 0..MaxHangUps, errors : 0..MaxErrors]
            BY <2>1
        <3> QED BY <2>1, <2>2, <3>1, <3>2, DrainEnds
    <2>3. CASE ~AnswerWake(x, FALSE)
        <3>1. /\ x \in Wakes /\ drain' = [drain EXCEPT ![x] = "pull"]
              /\ UNCHANGED <<busy, wake, queued, acked>>
            BY <1>22, <2>3 DEF NextBatch
        <3>2. \A y \in Drains : batches[y] = {}
            BY <2>1 DEF OneDrain
        <3>3. busy /\ drain'[x] = "pull"
            BY <2>1, <3>1
        <3> QED BY <2>1, <3>1, <3>2, <3>3
    <2> QED BY <2>2, <2>3
<1>23. ASSUME NEW x \in Drains, Drained(x)
      PROVE  LifeTypeOK'
    <2>1. /\ drain[x] = "empty" /\ AnswerWake(x, TRUE)
          /\ UNCHANGED <<mode, processVars, batches, place, pulled, mishaps>>
        BY <1>23 DEF Drained
    <2>2. drain[x] # "no" /\ batches' = batches /\ batches'[x] = {}
        BY <2>1
    <2>3. mishaps' \in [kills : 0..MaxKills, stops : 0..MaxStops,
                        hangUps : 0..MaxHangUps, errors : 0..MaxErrors]
        BY <2>1
    <2> QED BY <2>1, <2>2, <2>3, DrainEnds
<1>24. ASSUME NEW x \in Drains, NEW m \in Jobs, NEW o \in {"done", "later"}, Handle(x, m, o)
      PROVE  LifeTypeOK'
    BY <1>24 DEF Handle
<1>25. ASSUME NEW x \in Drains, BatchThrows(x)
      PROVE  LifeTypeOK'
    <2>1. drain[x] # "no" /\ AnswerWake(x, FALSE)
        BY <1>25 DEF BatchThrows
    <2>2. /\ batches' = [batches EXCEPT ![x] = {}]
          /\ UNCHANGED <<mode, processVars, place, pulled>>
        BY <1>25 DEF BatchThrows
    <2>3. mishaps' \in [kills : 0..MaxKills, stops : 0..MaxStops,
                        hangUps : 0..MaxHangUps, errors : 0..MaxErrors]
        BY <1>25, MishapsCounted DEF BatchThrows
    <2>4. batches'[x] = {}
        BY <2>2
    <2> QED BY <2>1, <2>2, <2>3, <2>4, DrainEnds
<1> QED BY <1>1, <1>2, <1>3, <1>4, <1>5, <1>6, <1>7, <1>8, <1>9, <1>10,
           <1>11, <1>12, <1>13, <1>14, <1>15, <1>16, <1>17, <1>18, <1>19,
           <1>20, <1>21, <1>22, <1>23, <1>24, <1>25
           DEF LifeNext, StartUp, Shutdown, DrainStep

\* A process is woken or polls, not both, and does one thing at a time.
LEMMA OneDrainStep ==
    ASSUME LifeTypeOK, OneMode, OneDrain, [LifeNext]_lifeVars
    PROVE  OneMode' /\ OneDrain'
<1> USE WakesAndDrains
    DEF LifeTypeOK, OneMode, OneDrain, processVars, drainVars, messageVars
<1>1. CASE UNCHANGED lifeVars
    BY <1>1 DEF lifeVars
<1>2. CASE Start
    BY <1>2 DEF Start
<1>3. ASSUME NEW d \in Dependencies, DependencyReady(d)
      PROVE  OneMode' /\ OneDrain'
    BY <1>3 DEF DependencyReady
<1>4. CASE Run
    BY <1>4 DEF Run
<1>5. CASE Stop
    BY <1>5 DEF Stop, Stopped
<1>6. CASE StartFails
    BY <1>6 DEF StartFails, Stopped
<1>7. CASE EnterFinally
    BY <1>7 DEF EnterFinally
<1>8. CASE CloseHealthServer
    BY <1>8 DEF CloseHealthServer
<1>9. CASE ServerClosed
    BY <1>9 DEF ServerClosed
<1>10. CASE CloseBrowser
    BY <1>10 DEF CloseBrowser, BatchAwaited, BatchActive
<1>11. CASE Exit
    BY <1>11 DEF Exit, Gone
<1>12. CASE Kill
    BY <1>12 DEF Kill, Gone
<1>13. ASSUME NEW m \in Jobs, Stage(m)
      PROVE  OneMode' /\ OneDrain'
    BY <1>13 DEF Stage
<1>14. ASSUME NEW m \in Jobs, Discard(m)
      PROVE  OneMode' /\ OneDrain'
    BY <1>14 DEF Discard
<1>15. ASSUME NEW m \in Jobs, Reappear(m)
      PROVE  OneMode' /\ OneDrain'
    BY <1>15 DEF Reappear
<1>16. CASE WakeHourly
    BY <1>16 DEF WakeHourly
<1>17. ASSUME NEW x \in Wakes, RefuseWake(x)
      PROVE  OneMode' /\ OneDrain'
    BY <1>17 DEF RefuseWake
<1>18. ASSUME NEW x \in Wakes, Receive(x)
      PROVE  OneMode' /\ OneDrain'
    BY <1>18 DEF Receive, Refused
<1>19. ASSUME NEW x \in Wakes, HangUp(x)
      PROVE  OneMode' /\ OneDrain'
    BY <1>19 DEF HangUp
<1>20. CASE Poll
    BY <1>20 DEF Poll
<1>21. ASSUME NEW x \in Drains, PullBatch(x)
      PROVE  OneMode' /\ OneDrain'
    BY <1>21 DEF PullBatch, InInbox
<1>22. ASSUME NEW x \in Drains, NextBatch(x)
      PROVE  OneMode' /\ OneDrain'
    <2>1. CASE AnswerWake(x, FALSE)
        <3>1. drain[x] # "no" /\ UNCHANGED mode
            BY <1>22 DEF NextBatch
        <3>2. /\ \A y \in Drains : drain'[y] = "no"
              /\ \A y \in Wakes : wake'[y] = wake[y] \/ wake'[y] = "idle"
            BY <2>1, <3>1, AnswerEnds
        <3> QED BY <3>1, <3>2
    <2>2. CASE ~AnswerWake(x, FALSE)
        <3>1. /\ drain[x] = "work"
              /\ drain' = [drain EXCEPT ![x] = "pull"]
              /\ UNCHANGED <<mode, wake>>
            BY <1>22, <2>2 DEF NextBatch
        <3>2. \A y \in Drains : drain'[y] # "no" <=> drain[y] # "no"
            BY <3>1
        <3> QED BY <3>1, <3>2
    <2> QED BY <2>1, <2>2
<1>23. ASSUME NEW x \in Drains, Drained(x)
      PROVE  OneMode' /\ OneDrain'
    BY <1>23 DEF Drained, AnswerWake
<1>24. ASSUME NEW x \in Drains, NEW m \in Jobs, NEW o \in {"done", "later"}, Handle(x, m, o)
      PROVE  OneMode' /\ OneDrain'
    BY <1>24 DEF Handle
<1>25. ASSUME NEW x \in Drains, BatchThrows(x)
      PROVE  OneMode' /\ OneDrain'
    BY <1>25 DEF BatchThrows, AnswerWake
<1> QED BY <1>1, <1>2, <1>3, <1>4, <1>5, <1>6, <1>7, <1>8, <1>9, <1>10,
           <1>11, <1>12, <1>13, <1>14, <1>15, <1>16, <1>17, <1>18, <1>19,
           <1>20, <1>21, <1>22, <1>23, <1>24, <1>25
           DEF LifeNext, StartUp, Shutdown, DrainStep

\* Batches are run between start and shutdown, with a browser.
LEMMA BrowserStep ==
    ASSUME LifeTypeOK, OneMode, OneDrain, StartedFirst, BrowserThere,
           [LifeNext]_lifeVars
    PROVE  StartedFirst' /\ BrowserThere'
<1> USE LifecycleAssumption, WakesAndDrains
    DEF LifeTypeOK, StartedFirst, BrowserThere, processVars, drainVars,
        messageVars
<1>1. CASE UNCHANGED lifeVars
    BY <1>1 DEF lifeVars
<1>2. CASE Start
    BY <1>2 DEF Start
<1>3. ASSUME NEW d \in Dependencies, DependencyReady(d)
      PROVE  StartedFirst' /\ BrowserThere'
    BY <1>3 DEF DependencyReady
<1>4. CASE Run
    BY <1>4 DEF Run
<1>5. CASE Stop
    BY <1>5 DEF Stop, Stopped
<1>6. CASE StartFails
    BY <1>6 DEF StartFails, Stopped
<1>7. CASE EnterFinally
    BY <1>7 DEF EnterFinally
<1>8. CASE CloseHealthServer
    BY <1>8 DEF CloseHealthServer
<1>9. CASE ServerClosed
    BY <1>9 DEF ServerClosed
<1>10. CASE CloseBrowser
    BY <1>10 DEF CloseBrowser, BatchAwaited, BatchActive
<1>11. CASE Exit
    BY <1>11 DEF Exit, Gone
<1>12. CASE Kill
    BY <1>12 DEF Kill, Gone
<1>13. ASSUME NEW m \in Jobs, Stage(m)
      PROVE  StartedFirst' /\ BrowserThere'
    BY <1>13 DEF Stage
<1>14. ASSUME NEW m \in Jobs, Discard(m)
      PROVE  StartedFirst' /\ BrowserThere'
    BY <1>14 DEF Discard
<1>15. ASSUME NEW m \in Jobs, Reappear(m)
      PROVE  StartedFirst' /\ BrowserThere'
    BY <1>15 DEF Reappear
<1>16. CASE WakeHourly
    BY <1>16 DEF WakeHourly
<1>17. ASSUME NEW x \in Wakes, RefuseWake(x)
      PROVE  StartedFirst' /\ BrowserThere'
    BY <1>17 DEF RefuseWake
<1>18. ASSUME NEW x \in Wakes, Receive(x)
      PROVE  StartedFirst' /\ BrowserThere'
    <2>1. accepting /\ runnable
        BY <1>18 DEF Receive, Refused, Availability
    <2>2. life = "running" /\ browser = "open"
        BY <2>1
    <2> QED BY <1>18, <2>1, <2>2 DEF Receive
<1>19. ASSUME NEW x \in Wakes, HangUp(x)
      PROVE  StartedFirst' /\ BrowserThere'
    BY <1>19 DEF HangUp
<1>20. CASE Poll
    BY <1>20 DEF Poll
<1>21. ASSUME NEW x \in Drains, PullBatch(x)
      PROVE  StartedFirst' /\ BrowserThere'
    BY <1>21 DEF PullBatch, InInbox
<1>22. ASSUME NEW x \in Drains, NextBatch(x)
      PROVE  StartedFirst' /\ BrowserThere'
    BY <1>22 DEF NextBatch, AnswerWake
<1>23. ASSUME NEW x \in Drains, Drained(x)
      PROVE  StartedFirst' /\ BrowserThere'
    BY <1>23 DEF Drained, AnswerWake
<1>24. ASSUME NEW x \in Drains, NEW m \in Jobs, NEW o \in {"done", "later"}, Handle(x, m, o)
      PROVE  StartedFirst' /\ BrowserThere'
    BY <1>24 DEF Handle
<1>25. ASSUME NEW x \in Drains, BatchThrows(x)
      PROVE  StartedFirst' /\ BrowserThere'
    BY <1>25 DEF BatchThrows, AnswerWake
<1> QED BY <1>1, <1>2, <1>3, <1>4, <1>5, <1>6, <1>7, <1>8, <1>9, <1>10,
           <1>11, <1>12, <1>13, <1>14, <1>15, <1>16, <1>17, <1>18, <1>19,
           <1>20, <1>21, <1>22, <1>23, <1>24, <1>25
           DEF LifeNext, StartUp, Shutdown, DrainStep

\* Only a wake-up that found the inbox empty is answered 200.
LEMMA PulledStep ==
    ASSUME LifeTypeOK, OneDrain, PulledFirst, [LifeNext]_lifeVars
    PROVE  PulledFirst'
<1> USE WakesAndDrains
    DEF LifeTypeOK, PulledFirst, processVars, drainVars, messageVars
<1>1. CASE UNCHANGED lifeVars
    BY <1>1 DEF lifeVars
<1>2. CASE Start
    BY <1>2 DEF Start
<1>3. ASSUME NEW d \in Dependencies, DependencyReady(d)
      PROVE  PulledFirst'
    BY <1>3 DEF DependencyReady
<1>4. CASE Run
    BY <1>4 DEF Run
<1>5. CASE Stop
    BY <1>5 DEF Stop, Stopped
<1>6. CASE StartFails
    BY <1>6 DEF StartFails, Stopped
<1>7. CASE EnterFinally
    BY <1>7 DEF EnterFinally
<1>8. CASE CloseHealthServer
    BY <1>8 DEF CloseHealthServer
<1>9. CASE ServerClosed
    BY <1>9 DEF ServerClosed
<1>10. CASE CloseBrowser
    BY <1>10 DEF CloseBrowser, BatchAwaited, BatchActive
<1>11. CASE Exit
    BY <1>11 DEF Exit, Gone
<1>12. CASE Kill
    BY <1>12 DEF Kill, Gone
<1>13. ASSUME NEW m \in Jobs, Stage(m)
      PROVE  PulledFirst'
    BY <1>13 DEF Stage
<1>14. ASSUME NEW m \in Jobs, Discard(m)
      PROVE  PulledFirst'
    BY <1>14 DEF Discard
<1>15. ASSUME NEW m \in Jobs, Reappear(m)
      PROVE  PulledFirst'
    BY <1>15 DEF Reappear
<1>16. CASE WakeHourly
    BY <1>16, LifecycleAssumption DEF WakeHourly
<1>17. ASSUME NEW x \in Wakes, RefuseWake(x)
      PROVE  PulledFirst'
    BY <1>17 DEF RefuseWake
<1>18. ASSUME NEW x \in Wakes, Receive(x)
      PROVE  PulledFirst'
    BY <1>18 DEF Receive, Refused
<1>19. ASSUME NEW x \in Wakes, HangUp(x)
      PROVE  PulledFirst'
    BY <1>19 DEF HangUp
<1>20. CASE Poll
    BY <1>20 DEF Poll
<1>21. ASSUME NEW x \in Drains, PullBatch(x)
      PROVE  PulledFirst'
    BY <1>21 DEF PullBatch, InInbox
<1>22. ASSUME NEW x \in Drains, NextBatch(x)
      PROVE  PulledFirst'
    <2>1. CASE AnswerWake(x, FALSE)
        <3>1. drain[x] # "no" /\ UNCHANGED <<pulled, place, batches>>
            BY <1>22 DEF NextBatch
        <3>2. /\ \A y \in Drains : drain'[y] = "no"
              /\ \A y \in Wakes : wake'[y] = wake[y] \/ wake'[y] = "idle"
              /\ acked' \subseteq acked
            BY <2>1, <3>1, AnswerEnds
        <3> QED BY <3>1, <3>2
    <2>2. CASE ~AnswerWake(x, FALSE)
        <3>1. /\ x \in Wakes /\ drain' = [drain EXCEPT ![x] = "pull"]
              /\ UNCHANGED <<wake, acked, pulled, place, batches>>
            BY <1>22, <2>2 DEF NextBatch
        <3>2. \A y \in Drains : drain'[y] = "empty" => drain[y] = "empty"
            BY <3>1
        <3> QED BY <3>1, <3>2
    <2> QED BY <2>1, <2>2
<1>23. ASSUME NEW x \in Drains, Drained(x)
      PROVE  PulledFirst'
    BY <1>23 DEF Drained, AnswerWake
<1>24. ASSUME NEW x \in Drains, NEW m \in Jobs, NEW o \in {"done", "later"}, Handle(x, m, o)
      PROVE  PulledFirst'
    <2>1. /\ drain[x] = "work" /\ m \in batches[x]
          /\ place' = [place EXCEPT ![m] = o]
          /\ batches' = [batches EXCEPT ![x] = @ \ {m}]
          /\ UNCHANGED <<drain, wake, acked, pulled>>
        BY <1>24 DEF Handle
    <2>2. m \in pulled /\ \A y \in Drains : batches'[y] \subseteq batches[y]
        BY <2>1
    <2> QED BY <2>1, <2>2
<1>25. ASSUME NEW x \in Drains, BatchThrows(x)
      PROVE  PulledFirst'
    BY <1>25 DEF BatchThrows, AnswerWake
<1> QED BY <1>1, <1>2, <1>3, <1>4, <1>5, <1>6, <1>7, <1>8, <1>9, <1>10,
           <1>11, <1>12, <1>13, <1>14, <1>15, <1>16, <1>17, <1>18, <1>19,
           <1>20, <1>21, <1>22, <1>23, <1>24, <1>25
           DEF LifeNext, StartUp, Shutdown, DrainStep

\* The steps together.
LEMMA LifeStep ==
    ASSUME LifeInv, [LifeNext]_lifeVars
    PROVE  LifeInv'
BY LifeTypesStep, OneDrainStep, BrowserStep, PulledStep DEF LifeInv

LEMMA WakesAreSafe == LifeInv => WakeSafe
<1> SUFFICES ASSUME LifeInv PROVE WakeSafe
    OBVIOUS
<1>1. AckedMeansPulled
    BY DEF LifeInv, PulledFirst, AckedMeansPulled
<1> DEFINE S == {x \in Drains : drain[x] # "no"}
<1>2. ASSUME S = {} PROVE Cardinality(S) <= 1
    <2>1. Cardinality(S) = 0
        BY <1>2, FS_EmptySet
    <2> QED BY <2>1
<1>3. ASSUME S # {} PROVE Cardinality(S) <= 1
    <2>1. PICK x \in S : TRUE
        BY <1>3
    <2>2. S = {x}
        BY <2>1 DEF LifeInv, OneDrain
    <2>3. Cardinality(S) = 1
        BY <2>2, FS_Singleton
    <2> QED BY <2>3
<1>4. Cardinality(S) <= 1
    BY <1>2, <1>3
<1>5. OneDrainAtATime
    BY <1>4 DEF OneDrainAtATime
<1> QED BY <1>1, <1>5 DEF WakeSafe

\* A process that only takes its own steps, with or without fairness.
LEMMA LifeAlwaysSafe ==
    LifeInit /\ [][LifeNext]_lifeVars =>
        [](LifeTypeOK /\ BrowserOutlivesBatch /\ WakeSafe)
<1>1. LifeInv => LifeTypeOK /\ BrowserOutlivesBatch /\ WakeSafe
    BY WakesAreSafe DEF LifeInv, BrowserThere, BrowserOutlivesBatch
<1> QED BY <1>1, LifeInitInv, LifeStep, PTL

\* The state of the process and of its wake-ups keeps its types.
THEOREM LifeTypeCorrect == LifeSpec => []LifeTypeOK
BY LifeAlwaysSafe, PTL DEF LifeSpec

\* Whatever is signalled, killed or hung up, a batch has its browser.
THEOREM BrowserSafe == LifeSpec => []BrowserOutlivesBatch
BY LifeAlwaysSafe, PTL DEF LifeSpec

\* There is one drain at a time, and what was acknowledged has been pulled.
THEOREM WakeCorrect == LifeSpec => []WakeSafe
BY LifeAlwaysSafe, PTL DEF LifeSpec
=============================================================================

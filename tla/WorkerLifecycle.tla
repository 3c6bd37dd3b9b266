-------------------------- MODULE WorkerLifecycle --------------------------
(***************************************************************************)
(* One worker process from its start to its exit: the state of its         *)
(* dependencies, the webhook that wakes it, and its shutdown               *)
(* (apps/worker/src/main.ts, health.ts, health-server.ts), with the Queue  *)
(* consumer and the hourly cron that send the wake-ups                     *)
(* (apps/api/src/index.ts) and what becomes of the staged messages.        *)
(*                                                                         *)
(* The process is in mode "webhook" (Cloud Run), where it works while it   *)
(* answers a wake-up, or "loop" (Sealos), where it polls and nobody wakes  *)
(* it.  It is killed and started again at any time.                        *)
(***************************************************************************)
EXTENDS Naturals, FiniteSets

CONSTANTS
    Jobs,          \* messages, one job each
    Cron,          \* the wake-up of the cron
    Polling,       \* the drain of the loop, not a wake-up
    Required,      \* the dependencies of this worker
    MaxKills,      \* bound on kills of the process
    MaxStops,      \* bound on signals to stop
    MaxHangUps,    \* bound on wake-ups whose sender gives up
    MaxErrors      \* bound on batches that throw

Dependencies == {"warp", "browser", "mihomo"}

ASSUME LifecycleAssumption ==
    /\ Cron \notin Jobs /\ Polling \notin Jobs /\ Cron # Polling
    /\ "browser" \in Required /\ Required \subseteq Dependencies
    /\ MaxKills \in Nat /\ MaxStops \in Nat
    /\ MaxHangUps \in Nat /\ MaxErrors \in Nat

Wakes  == Jobs \cup {Cron}
Drains == Wakes \cup {Polling}

VARIABLES
    mode,         \* "webhook" or "loop"
    life,         \* where run() of main.ts stands
    accepting,    \* acceptingJobs; FALSE once a signal came
    up,           \* the dependencies the start has brought up
    components,   \* components[d]: the state of a dependency
    runnable,     \* runNextBatch is set
    server,       \* the HTTP server: "closed", "open" or "closing"
    browser,      \* "none", "open" or "closed"
    busy,         \* the flag of the webhook
    drain,        \* drain[x]: what the handler of wake-up x does
    batches,      \* batches[x]: the jobs it has pulled and not handled
    wake,         \* wake[x]: where the sender of wake-up x stands
    queued,       \* messages the Queue still has
    acked,        \* history: messages acknowledged after a 200
    place,        \* place[m]: where message m is
    pulled,       \* history: messages that were pulled
    mishaps       \* kills, stops, hang-ups and errors so far

processVars == <<life, accepting, up, components, runnable, server, browser>>
drainVars   == <<busy, drain, batches>>
messageVars == <<wake, queued, acked, place, pulled>>
lifeVars    == <<mode, processVars, drainVars, messageVars, mishaps>>

NoMishaps == [kills |-> 0, stops |-> 0, hangUps |-> 0, errors |-> 0]

LifeInit ==
    /\ mode \in {"webhook", "loop"}
    /\ life = "down"
    /\ accepting = TRUE
    /\ up = {}
    /\ components = [d \in Dependencies |-> "starting"]
    /\ runnable = FALSE
    /\ server = "closed"
    /\ browser = "none"
    /\ busy = FALSE
    /\ drain = [x \in Drains |-> "no"]
    /\ batches = [x \in Drains |-> {}]
    /\ wake = [x \in Wakes |-> "idle"]
    /\ queued = Jobs
    /\ acked = {}
    /\ place = [m \in Jobs |-> "queue"]
    /\ pulled = {}
    /\ mishaps = NoMishaps

-----------------------------------------------------------------------------
(* The state of the worker (health.ts).  Dependencies only get ready here; *)
(* nothing in main.ts reports one as degraded or failed.                   *)

Phase == IF ~accepting THEN "stopping"
         ELSE IF \E d \in Required : components[d] # "ready" THEN "starting"
         ELSE "ready"

Availability == IF ~accepting THEN "stopping"
                ELSE IF Phase # "ready" \/ ~runnable THEN "not_ready"
                ELSE "ready"

\* decideJobAcceptance: browser or not, every job of Jobs needs one
Accepts == accepting /\ \A d \in Required : components[d] = "ready"

-----------------------------------------------------------------------------
(* run(): start *)

\* the process starts: its server listens before anything else is there
Start ==
    /\ life = "down"
    /\ life' = "starting"
    /\ accepting' = TRUE
    /\ up' = {}
    /\ components' = [d \in Dependencies |->
                        IF d \in Required THEN "starting" ELSE "ready"]
    /\ runnable' = FALSE
    /\ server' = "open"
    /\ browser' = "none"
    /\ UNCHANGED <<mode, drainVars, messageVars, mishaps>>

\* the proxy, the browser and mihomo come up in this order.  A signal to
\* stop does not interrupt the start: a dependency is set ready after it.
Before(d) == CASE d = "warp" -> {}
               [] d = "browser" -> {"warp"}
               [] d = "mihomo" -> {"warp", "browser"}

DependencyReady(d) ==
    /\ life = "starting"
    /\ d \in Required \ up
    /\ Before(d) \cap Required \subseteq up
    /\ up' = up \cup {d}
    /\ components' = [components EXCEPT ![d] = "ready"]
    /\ browser' = IF d = "browser" THEN "open" ELSE browser
    /\ UNCHANGED <<mode, life, accepting, runnable, server, drainVars,
                   messageVars, mishaps>>

\* the channels are published, runNextBatch is set
Run ==
    /\ life = "starting"
    /\ Required \subseteq up
    /\ life' = "running"
    /\ runnable' = TRUE
    /\ UNCHANGED <<mode, accepting, up, components, server, browser,
                   drainVars, messageVars, mishaps>>

-----------------------------------------------------------------------------
(* run(): shutdown.  The finally block is entered after a signal, from the *)
(* loop only between two batches, or when the start fails.                 *)

Stopped == [d \in Dependencies |-> "stopping"]

Stop ==
    /\ life \in {"starting", "running"}
    /\ accepting
    /\ mishaps.stops < MaxStops
    /\ mishaps' = [mishaps EXCEPT !.stops = @ + 1]
    /\ accepting' = FALSE
    /\ components' = Stopped
    /\ UNCHANGED <<mode, life, up, runnable, server, browser, drainVars,
                   messageVars>>

\* the start throws: a dependency, or the control plane
StartFails ==
    /\ life = "starting"
    /\ mishaps.kills < MaxKills
    /\ mishaps' = [mishaps EXCEPT !.kills = @ + 1]
    /\ life' = "finally"
    /\ accepting' = FALSE
    /\ components' = Stopped
    /\ UNCHANGED <<mode, up, runnable, server, browser, drainVars,
                   messageVars>>

EnterFinally ==
    /\ life = "running"
    /\ ~accepting
    /\ drain[Polling] = "no"
    /\ life' = "finally"
    /\ UNCHANGED <<mode, accepting, up, components, runnable, server,
                   browser, drainVars, messageVars, mishaps>>

CloseHealthServer ==
    /\ life = "finally"
    /\ server = "open"
    /\ server' = "closing"
    /\ UNCHANGED <<mode, life, accepting, up, components, runnable, browser,
                   drainVars, messageVars, mishaps>>

\* server.close waits for the connections that are open: a wake-up that is
\* being answered, unless its sender has hung up
ServerClosed ==
    /\ server = "closing"
    /\ \A x \in Wakes : wake[x] # "handled"
    /\ server' = "closed"
    /\ UNCHANGED <<mode, life, accepting, up, components, runnable, browser,
                   drainVars, messageVars, mishaps>>

\* activeWebhookBatch: a batch that nobody waits for any more
BatchActive == \E x \in Drains : drain[x] \in {"pull", "work"}

\* mutant: the batch is not waited for
BatchAwaitedNot == TRUE

BatchAwaited == ~BatchActive

CloseBrowser ==
    /\ life = "finally"
    /\ server = "closed"
    /\ BatchAwaited
    /\ browser' = "closed"
    /\ life' = "exiting"
    /\ UNCHANGED <<mode, accepting, up, components, runnable, server,
                   drainVars, messageVars, mishaps>>

\* what the process held is gone; the leases of its batch will expire
Gone ==
    /\ life' = "down"
    /\ server' = "closed"
    /\ browser' = "none"
    /\ runnable' = FALSE
    /\ busy' = FALSE
    /\ drain' = [x \in Drains |-> "no"]
    /\ batches' = [x \in Drains |-> {}]
    /\ wake' = [x \in Wakes |->
                  IF wake[x] = "handled" THEN "idle" ELSE wake[x]]

Exit ==
    /\ life = "exiting"
    /\ Gone
    /\ UNCHANGED <<mode, accepting, up, components, queued, acked, place,
                   pulled, mishaps>>

Kill ==
    /\ life \notin {"down", "exiting"}
    /\ mishaps.kills < MaxKills
    /\ mishaps' = [mishaps EXCEPT !.kills = @ + 1]
    /\ Gone
    /\ UNCHANGED <<mode, accepting, up, components, queued, acked, place,
                   pulled>>

-----------------------------------------------------------------------------
(* Wake-ups *)

\* the Queue consumer stages a message, again when it was not acknowledged,
\* and wakes the worker before it acknowledges
Stage(m) ==
    /\ m \in queued
    /\ wake[m] = "idle"
    /\ place' = [place EXCEPT ![m] = IF @ = "queue" THEN "inbox" ELSE @]
    /\ IF mode = "webhook"
       THEN wake' = [wake EXCEPT ![m] = "sent"] /\ UNCHANGED queued
       ELSE queued' = queued \ {m} /\ UNCHANGED wake
    /\ UNCHANGED <<mode, processVars, drainVars, acked, pulled, mishaps>>

WakeHourly ==
    /\ mode = "webhook"
    /\ wake[Cron] = "idle"
    /\ wake' = [wake EXCEPT ![Cron] = "sent"]
    /\ UNCHANGED <<mode, processVars, drainVars, queued, acked, place,
                   pulled, mishaps>>

Refused == busy \/ Availability # "ready"

\* mutant: a worker that is busy answers 200
RefuseWakeKindly(x) ==
    /\ wake[x] = "sent"
    /\ server = "open" => Refused
    /\ wake' = [wake EXCEPT ![x] = "idle"]
    /\ IF server = "open" /\ busy /\ x \in Jobs
       THEN queued' = queued \ {x} /\ acked' = acked \cup {x}
       ELSE UNCHANGED <<queued, acked>>
    /\ UNCHANGED <<mode, processVars, drainVars, place, pulled, mishaps>>

\* the handler answers 503, or nobody listens
RefuseWake(x) ==
    /\ wake[x] = "sent"
    /\ server = "open" => Refused
    /\ wake' = [wake EXCEPT ![x] = "idle"]
    /\ UNCHANGED <<mode, processVars, drainVars, queued, acked, place,
                   pulled, mishaps>>

Receive(x) ==
    /\ wake[x] = "sent"
    /\ server = "open"
    /\ ~Refused
    /\ busy' = TRUE
    /\ wake' = [wake EXCEPT ![x] = "handled"]
    /\ drain' = [drain EXCEPT ![x] = "pull"]
    /\ UNCHANGED <<mode, processVars, batches, queued, acked, place, pulled,
                   mishaps>>

\* the sender gives up, or is terminated: the handler does not notice
HangUp(x) ==
    /\ wake[x] \in {"sent", "handled"}
    /\ mishaps.hangUps < MaxHangUps
    /\ mishaps' = [mishaps EXCEPT !.hangUps = @ + 1]
    /\ wake' = [wake EXCEPT ![x] = "idle"]
    /\ UNCHANGED <<mode, processVars, drainVars, queued, acked, place,
                   pulled>>

\* max_retries is reached: the Queue forgets a message, but it is staged
Discard(m) ==
    /\ mode = "webhook"
    /\ m \in queued /\ place[m] # "queue"
    /\ wake[m] = "idle"
    /\ queued' = queued \ {m}
    /\ UNCHANGED <<mode, processVars, drainVars, wake, acked, place, pulled,
                   mishaps>>

-----------------------------------------------------------------------------
(* Batches *)

Poll ==
    /\ mode = "loop"
    /\ life = "running" /\ accepting
    /\ drain[Polling] = "no"
    /\ drain' = [drain EXCEPT ![Polling] = "pull"]
    /\ UNCHANGED <<mode, processVars, busy, batches, messageVars, mishaps>>

InInbox == {m \in Jobs : place[m] = "inbox"}

\* every message in the inbox fits into one batch
PullBatch(x) ==
    /\ drain[x] = "pull"
    /\ batches' = [batches EXCEPT ![x] = InInbox]
    /\ place' = [m \in Jobs |-> IF m \in InInbox THEN "leased" ELSE place[m]]
    /\ pulled' = pulled \cup InInbox
    /\ drain' = [drain EXCEPT ![x] = IF InInbox = {} THEN "empty" ELSE "work"]
    /\ UNCHANGED <<mode, processVars, busy, wake, queued, acked, mishaps>>

\* handled, or left for later: because it failed, or because the worker is
\* about to stop and does not accept it
Handle(x, m, outcome) ==
    /\ drain[x] = "work"
    /\ m \in batches[x]
    /\ outcome = "done" => Accepts
    /\ batches' = [batches EXCEPT ![x] = @ \ {m}]
    /\ place' = [place EXCEPT ![m] = outcome]
    /\ UNCHANGED <<mode, processVars, busy, drain, wake, queued, acked,
                   pulled, mishaps>>

\* mutant: the flag is not reset when the sender has hung up
AnswerWakeHeld(x, ok) ==
    /\ busy' = IF x # Polling /\ wake[x] = "handled" THEN FALSE ELSE busy
    /\ drain' = [drain EXCEPT ![x] = "no"]
    /\ IF x \in Wakes /\ wake[x] = "handled"
       THEN /\ wake' = [wake EXCEPT ![x] = "idle"]
            /\ IF ok /\ x \in Jobs
               THEN queued' = queued \ {x} /\ acked' = acked \cup {x}
               ELSE UNCHANGED <<queued, acked>>
       ELSE UNCHANGED <<wake, queued, acked>>

AnswerWake(x, ok) ==
    /\ busy' = IF x = Polling THEN busy ELSE FALSE
    /\ drain' = [drain EXCEPT ![x] = "no"]
    /\ IF x \in Wakes /\ wake[x] = "handled"
       THEN /\ wake' = [wake EXCEPT ![x] = "idle"]
            /\ IF ok /\ x \in Jobs
               THEN queued' = queued \ {x} /\ acked' = acked \cup {x}
               ELSE UNCHANGED <<queued, acked>>
       ELSE UNCHANGED <<wake, queued, acked>>

\* mutant: goes on with the next one whatever became of the worker
NextBatchAlways(x) ==
    /\ drain[x] = "work"
    /\ batches[x] = {}
    /\ \/ /\ x \in Wakes
          /\ drain' = [drain EXCEPT ![x] = "pull"]
          /\ UNCHANGED <<busy, wake, queued, acked>>
       \/ x = Polling /\ AnswerWake(x, FALSE)
    /\ UNCHANGED <<mode, processVars, batches, place, pulled, mishaps>>

\* a batch was handled and settled: on to the next one, or, when the worker
\* is stopping or has drained for twelve minutes, 503
NextBatch(x) ==
    /\ drain[x] = "work"
    /\ batches[x] = {}
    /\ \/ /\ x \in Wakes /\ Availability = "ready"
          /\ drain' = [drain EXCEPT ![x] = "pull"]
          /\ UNCHANGED <<busy, wake, queued, acked>>
       \/ AnswerWake(x, FALSE)
    /\ UNCHANGED <<mode, processVars, batches, place, pulled, mishaps>>

\* a pull or a settlement throws: 503, or the loop waits and goes on
BatchThrows(x) ==
    /\ drain[x] \in {"pull", "work"}
    /\ mishaps.errors < MaxErrors
    /\ mishaps' = [mishaps EXCEPT !.errors = @ + 1]
    /\ batches' = [batches EXCEPT ![x] = {}]
    /\ AnswerWake(x, FALSE)
    /\ UNCHANGED <<mode, processVars, place, pulled>>

\* nothing left to pull: 200
Drained(x) ==
    /\ drain[x] = "empty"
    /\ AnswerWake(x, TRUE)
    /\ UNCHANGED <<mode, processVars, batches, place, pulled, mishaps>>

\* the lease of a job expires that no process has, a deferral is over
Reappear(m) ==
    /\ \/ place[m] = "later"
       \/ place[m] = "leased" /\ \A x \in Drains : m \notin batches[x]
    /\ place' = [place EXCEPT ![m] = "inbox"]
    /\ UNCHANGED <<mode, processVars, drainVars, wake, queued, acked, pulled,
                   mishaps>>

DrainStep(x) ==
    \/ PullBatch(x) \/ NextBatch(x) \/ Drained(x)
    \/ \E m \in Jobs, outcome \in {"done", "later"} : Handle(x, m, outcome)

Shutdown ==
    EnterFinally \/ CloseHealthServer \/ ServerClosed \/ CloseBrowser \/ Exit

StartUp == Start \/ Run \/ \E d \in Dependencies : DependencyReady(d)

LifeNext ==
    \/ StartUp \/ StartFails \/ Stop \/ Shutdown \/ Kill
    \/ \E m \in Jobs : Stage(m) \/ Discard(m) \/ Reappear(m)
    \/ WakeHourly
    \/ \E x \in Wakes : RefuseWake(x) \/ Receive(x) \/ HangUp(x)
    \/ Poll
    \/ \E x \in Drains : DrainStep(x) \/ BatchThrows(x)

\* the platform starts the process again, the process goes on, the loop
\* polls, the cron wakes every hour and its request is answered
LifeFairness ==
    /\ WF_lifeVars(StartUp) /\ WF_lifeVars(Shutdown)
    /\ WF_lifeVars(WakeHourly) /\ WF_lifeVars(Poll)
    /\ WF_lifeVars(RefuseWake(Cron)) /\ SF_lifeVars(Receive(Cron))
    /\ \A x \in Drains : WF_lifeVars(DrainStep(x))

LifeSpec == LifeInit /\ [][LifeNext]_lifeVars /\ LifeFairness
-----------------------------------------------------------------------------
(* Properties *)

\* Types of the variables; the flag says whether a wake-up is being worked
\* for, and only a drain that works has jobs.
LifeTypeOK ==
    /\ mode \in {"webhook", "loop"}
    /\ life \in {"down", "starting", "running", "finally", "exiting"}
    /\ accepting \in BOOLEAN /\ runnable \in BOOLEAN /\ busy \in BOOLEAN
    /\ up \subseteq Required
    /\ components \in [Dependencies -> {"starting", "ready", "stopping"}]
    /\ server \in {"closed", "open", "closing"}
    /\ browser \in {"none", "open", "closed"}
    /\ drain \in [Drains -> {"no", "pull", "work", "empty"}]
    /\ batches \in [Drains -> SUBSET Jobs]
    /\ busy <=> \E x \in Wakes : drain[x] # "no"
    /\ \A x \in Drains : batches[x] # {} => drain[x] = "work"
    /\ wake \in [Wakes -> {"idle", "sent", "handled"}]
    /\ queued \subseteq Jobs /\ acked \subseteq Jobs /\ pulled \subseteq Jobs
    /\ place \in [Jobs -> {"queue", "inbox", "leased", "later", "done"}]
    /\ mishaps \in [kills : 0..MaxKills, stops : 0..MaxStops,
                    hangUps : 0..MaxHangUps, errors : 0..MaxErrors]

\* The browser is there as long as a batch uses it, also when the sender of
\* the wake-up has hung up, so that no connection keeps the server open
\* while the process shuts down.
BrowserOutlivesBatch ==
    \A x \in Drains : drain[x] = "work" => browser = "open"

\* Two wake-ups never work at the same time.
OneDrainAtATime ==
    Cardinality({x \in Drains : drain[x] # "no"}) <= 1

\* A message that was acknowledged because its wake-up was answered 200 has
\* been pulled: a wake-up that meets a busy or stopping worker is refused.
AckedMeansPulled == acked \subseteq pulled

\* A wake-up is answered 200 for work that is done, by one drain at a time.
WakeSafe == OneDrainAtATime /\ AckedMeansPulled

\* A staged message is pulled in the end, whatever became of its own
\* wake-up: the drain goes on until the inbox is empty, and when a drain
\* gave up or the Queue has forgotten the message, the cron wakes again.
EveryStagedPulled ==
    \A m \in Jobs : place[m] = "inbox" ~> place[m] # "inbox"

\* A process that was told to stop is gone in the end.
ShutdownEnds == (~accepting /\ life # "down") ~> life = "down"
=============================================================================

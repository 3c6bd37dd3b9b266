------------------------------- MODULE Alerts -------------------------------
(***************************************************************************)
(* Candidate alerts: a cron measures the system every few minutes, keeps   *)
(* the samples, and moves each alert policy from pending to firing to      *)
(* recovered (captureMetrics of apps/api/src/operations-readiness.ts and   *)
(* operations-readiness-postgres-capture.ts).  Captures may overlap: one   *)
(* measures, stalls, and writes after one that measured later.             *)
(*                                                                         *)
(* PostgreSQL writes a capture in one transaction that locks the policies; *)
(* D1 writes the samples, reads the alerts, and writes the alerts.         *)
(***************************************************************************)
EXTENDS Naturals, FiniteSets

CONSTANTS
    Policies,      \* the metrics with a threshold
    Captures,      \* captures in progress at the same time
    MaxTick,       \* bound on the time of a measurement
    Keep           \* ticks before a sample is pruned: seven days

ASSUME AlertsAssumption == MaxTick \in Nat \ {0} /\ Keep \in Nat

Instants == 1..MaxTick

VARIABLES
    backend,    \* "postgres" or "d1"
    tick,
    alerts,     \* operations_alert_instances
    events,     \* operations_alert_events, unique by policy, state and time
    samples,    \* operations_metric_samples: the times of the captures
    captures    \* captures[c]: phase, time, what was measured, what was read

alertVars == <<backend, tick, alerts, events, samples, captures>>

NoAlert   == [state |-> "none", first |-> 0, evaluated |-> 0, since |-> 0]
NoCapture == [phase |-> "none", at |-> 0, seen |-> [p \in Policies |-> "none"],
              read |-> [p \in Policies |-> NoAlert]]

AlertsInit ==
    /\ backend \in {"postgres", "d1"}
    /\ tick = 1
    /\ alerts = [p \in Policies |-> NoAlert]
    /\ events = {}
    /\ samples = {}
    /\ captures = [c \in Captures |-> NoCapture]

-----------------------------------------------------------------------------
\* evaluateThreshold: a first breach is pending, a second one fires; an alert
\* that never fired is dropped as soon as it is no breach any more
EvaluateThreshold(state, breached) ==
    CASE breached /\ state \in {"pending", "firing"}      -> "firing"
      [] breached /\ state \in {"none", "recovered"}      -> "pending"
      [] ~breached /\ state = "firing"                    -> "recovered"
      [] OTHER                                            -> "none"

\* measured, and not evaluated at this very time before
Evaluated(seen, previous, at) ==
    {p \in Policies : seen[p] # "none" /\ previous[p].evaluated # at}

\* mutant: state_since is overwritten
WrittenSince(row, state, at) ==
    IF state = "none" THEN NoAlert
    ELSE [state |-> state, evaluated |-> at, since |-> at,
          first |-> IF \/ row.state = "none"
                       \/ row.state = "recovered" /\ state = "pending"
                    THEN at ELSE row.first]

\* the row after INSERT ... ON CONFLICT DO UPDATE: its times depend on the
\* row that is there, its state on the row that was read
Written(row, state, at) ==
    IF state = "none" THEN NoAlert
    ELSE [state |-> state, evaluated |-> at,
          first |-> IF \/ row.state = "none"
                       \/ row.state = "recovered" /\ state = "pending"
                    THEN at ELSE row.first,
          since |-> IF row.state # state THEN at ELSE row.since]

Persist(seen, previous, at) ==
    LET next(p) == EvaluateThreshold(previous[p].state, seen[p] = "breach")
        moved   == {p \in Evaluated(seen, previous, at) :
                      next(p) \notin {"none", previous[p].state}}
    IN  /\ alerts' = [p \in Policies |->
                        IF p \in Evaluated(seen, previous, at)
                        THEN Written(alerts[p], next(p), at) ELSE alerts[p]]
        /\ events' = events \cup
                     {[policy |-> p, state |-> next(p), at |-> at] :
                        p \in moved}

-----------------------------------------------------------------------------
\* queue, heartbeat and dependencies are read; a metric may be missing
Measure(c) ==
    /\ captures[c].phase = "none"
    /\ \E seen \in [Policies -> {"none", "fine", "breach"}] :
         captures' = [captures EXCEPT ![c] =
           [NoCapture EXCEPT !.phase = "measured", !.at = tick, !.seen = seen]]
    /\ UNCHANGED <<backend, tick, alerts, events, samples>>

\* the transaction; FOR UPDATE, so that no other capture is between
CommitCapture(c) ==
    /\ backend = "postgres"
    /\ captures[c].phase = "measured"
    /\ samples' = samples \cup {captures[c].at}
    /\ Persist(captures[c].seen, alerts, captures[c].at)
    /\ captures' = [captures EXCEPT ![c] =
                      [NoCapture EXCEPT !.phase = "prune",
                                          !.at = captures[c].at]]
    /\ UNCHANGED <<backend, tick>>

Aged(at, now) == at + Keep < now

\* at most a thousand expired samples at a time; a failure is only logged
PruneSamples(c) ==
    /\ captures[c].phase = "prune"
    /\ \E some \in SUBSET {at \in Instants : Aged(at, captures[c].at)} :
         samples' = samples \ some
    /\ captures' = [captures EXCEPT ![c] = NoCapture]
    /\ UNCHANGED <<backend, tick, alerts, events>>

D1Sample(c) ==
    /\ backend = "d1"
    /\ captures[c].phase = "measured"
    /\ samples' = samples \cup {captures[c].at}
    /\ captures' = [captures EXCEPT ![c].phase = "sampled"]
    /\ UNCHANGED <<backend, tick, alerts, events>>

D1ReadAlerts(c) ==
    /\ captures[c].phase = "sampled"
    /\ captures' = [captures EXCEPT ![c].phase = "read", ![c].read = alerts]
    /\ UNCHANGED <<backend, tick, alerts, events, samples>>

D1PersistAlerts(c) ==
    /\ captures[c].phase = "read"
    /\ Persist(captures[c].seen, captures[c].read, captures[c].at)
    /\ captures' = [captures EXCEPT ![c] = NoCapture]
    /\ UNCHANGED <<backend, tick, samples>>

\* a request to the database fails, or the invocation is terminated
CaptureFails(c) ==
    /\ captures[c].phase # "none"
    /\ captures' = [captures EXCEPT ![c] = NoCapture]
    /\ UNCHANGED <<backend, tick, alerts, events, samples>>

NextWindow ==
    /\ tick < MaxTick
    /\ tick' = tick + 1
    /\ UNCHANGED <<backend, alerts, events, samples, captures>>

AlertsNext ==
    \/ NextWindow
    \/ \E c \in Captures :
         \/ Measure(c) \/ CommitCapture(c) \/ PruneSamples(c)
         \/ D1Sample(c) \/ D1ReadAlerts(c) \/ D1PersistAlerts(c)
         \/ CaptureFails(c)

AlertsSpec == AlertsInit /\ [][AlertsNext]_alertVars

-----------------------------------------------------------------------------
(* Properties *)

\* Types of the variables; no time is in the future.
AlertsTypeOK ==
    LET Times  == 0..tick
        States == {"none", "pending", "firing", "recovered"}
        Rows   == [Policies -> [state : States, first : Times,
                                evaluated : Times, since : Times]]
    IN  /\ backend \in {"postgres", "d1"} /\ tick \in Instants
        /\ alerts \in Rows
        /\ events \subseteq [policy : Policies, state : States, at : Times]
        /\ samples \subseteq Instants
        /\ captures \in [Captures ->
             [phase : {"none", "measured", "prune", "sampled", "read"},
              at : Times, seen : [Policies -> {"none", "fine", "breach"}],
              read : Rows]]

\* PostgreSQL: what the audit trail says of an alert is what the alert says
\* of itself: there is an event of its state at the time of its last
\* transition, in whatever order the captures write.
StateHasEvent ==
    \A p \in Policies : backend = "postgres" /\ alerts[p].state # "none" =>
        [policy |-> p, state |-> alerts[p].state, at |-> alerts[p].since]
           \in events

\* An alert was evaluated in a capture whose sample was kept, or pruned by
\* its age.
EvaluatedOnSample ==
    \A p \in Policies : alerts[p].evaluated # 0 =>
        alerts[p].evaluated \in samples \/ alerts[p].evaluated + Keep < tick

\* An alert fires only after it was pending, and is told to have recovered
\* only after it fired: two captures never fire on one breach.
FiredAfterPending ==
    \A e \in events :
      /\ e.state = "firing" =>
           \E d \in events :
                d.policy = e.policy /\ d.state = "pending" /\ d.at # e.at
      /\ e.state = "recovered" =>
           \E d \in events : d.policy = e.policy /\ d.state = "firing"

\* PostgreSQL: an alert that fires ends by recovering, never silently.
FiringRecovers ==
    [][backend = "postgres" =>
         \A p \in Policies : alerts[p].state = "firing" =>
           alerts'[p].state \in {"firing", "recovered"}]_alertVars

\* An alert, its events and its samples tell one story.
AlertsSafe ==
    /\ [](StateHasEvent /\ EvaluatedOnSample /\ FiredAfterPending)
    /\ FiringRecovers
=============================================================================

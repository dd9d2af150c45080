---------------------------- MODULE Connectivity ----------------------------
(***************************************************************************)
(* The connectivity state the supervisor derives from the reports of an    *)
(* agent (updateAgentConnectivity), composed with the reporting path.      *)
(* Every processed report counts as one round of the agent.                *)
(*                                                                         *)
(* FirstFailedAt and LastChangedAt are left out: the first is set exactly  *)
(* while failures > 0, the second when the status changes.                 *)
(***************************************************************************)
EXTENDS ReportDelivery

CONSTANT Threshold      \* FailureThreshold

ASSUME ThresholdAssumption == Threshold \in Nat \ {0}   \* applyDefaults, and main.go:537

VARIABLES
    conn,       \* s.connectivity[agent]
    badRounds   \* history: probe rounds seen in failed reports since the last good one

connVars == <<conn, badRounds>>
cvars == <<vars, connVars>>

Unknown == [failures |-> 0, status |-> "unknown"]   \* no entry: the Go zero value

\* More than half of the report's results never reached their target.
RoundFailed(batch) ==
    2 * Cardinality({i \in DOMAIN batch : log[batch[i]].outcome = "down"}) > Len(batch)

\* Faulty variant of Advance: a good report does not reset the counter.
AdvanceNoReset(c, failed) ==
    LET n == Smaller(c.failures + 1, Threshold)
    IN  IF failed
        THEN [failures |-> n, status |-> IF n >= Threshold THEN "failed" ELSE "checking"]
        ELSE [failures |-> c.failures, status |-> "ok"]

\* The counter is only compared with Threshold, so it saturates there.
Advance(c, failed) ==
    LET n == Smaller(c.failures + 1, Threshold)
    IN  IF failed
        THEN [failures |-> n, status |-> IF n >= Threshold THEN "failed" ELSE "checking"]
        ELSE [failures |-> 0, status |-> "ok"]

CInit == Init /\ conn = Unknown /\ badRounds = {}

\* handleReport after the commit: updateAgentConnectivity runs under connectivityMu.
Update(h) ==
    /\ Answer(h)
    /\ LET batch == post[h].batch
           bad == RoundFailed(batch)
       IN  /\ conn' = Advance(conn, bad)
           /\ badRounds' = IF bad
                           THEN badRounds \cup {log[i].round : i \in Range(batch)}
                           ELSE {}

\* The map lives in memory only.
Forget ==
    /\ SupervisorRestarts
    /\ conn' = Unknown
    /\ badRounds' = {}

CNext ==
    \/ \E h \in Slots : Update(h)
    \/ Forget
    \/ /\ \/ AgentStep \/ FetchFails \/ GiveUp \/ AgentRestarts
          \/ \E h \in Slots :
                Refuse(h) \/ Save(h) \/ Discard(h) \/ RequestLost(h) \/ SaveFails(h)
       /\ UNCHANGED connVars

CSpec == CInit /\ [][CNext]_cvars
----------------------------------------------------------------------------
(* Properties. *)

CTypeOK ==
    /\ TypeOK
    /\ conn \in [failures : 0 .. Threshold, status : {"unknown", "ok", "checking", "failed"}]
    /\ badRounds \subseteq 1 .. Rounds

\* README.md:47: failure_threshold is the number of consecutive bad ROUNDS after which
\* the agent is marked as failed.
FailedMeansBadRounds ==
    conn.status = "failed" => Cardinality(badRounds) >= Threshold

\* The long results of round r.
LongResults(r) == {i \in Results : log[i].round = r /\ log[i].long}

\* A round fits in one batch and its batch in one body, and so far no upload had to be
\* repeated.
Calm ==
    /\ Targets <= BatchSize
    /\ faults = 0
    /\ \A i \in Results :
         log[i].outcome # "refused" /\ Cardinality(LongResults(log[i].round)) <= BodyLimit

\* As long as no upload was ever repeated, an agent is marked as failed exactly when
\* its last Threshold rounds were bad: updateAgentConnectivity then counts rounds, as
\* the README says of failure_threshold.
CalmCountsRounds ==
    Calm => (conn.status = "failed" <=> Cardinality(badRounds) >= Threshold)
============================================================================

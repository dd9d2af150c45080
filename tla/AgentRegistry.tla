--------------------------- MODULE AgentRegistry ---------------------------
(***************************************************************************)
(* What the supervisor knows of an agent lives in two places: the row in   *)
(* the table agent_statuses and the entry in the map s.connectivity.  No   *)
(* lock spans both.  A report changes the table when SaveResults commits   *)
(* and the map afterwards, in updateAgentConnectivity; handleDeleteAgent   *)
(* changes them in the same order.  So the map may follow the commits in   *)
(* another order than they happened, and this module says what is then     *)
(* still true.                                                             *)
(*                                                                         *)
(* The row is kept and deleted under the agent's name without its outer    *)
(* spaces (SaveAgentHeartbeat, SaveResults, DeleteAgent and                *)
(* handleDeleteAgent trim it), the entry under the name as the reports     *)
(* have it.  Nothing refuses a name with outer spaces.                     *)
(*                                                                         *)
(* It composes the reporting path and the connectivity state with the      *)
(* heartbeats and the deletion of the agent.                               *)
(***************************************************************************)
EXTENDS Connectivity, SequencesExt

CONSTANT MaxDeletions   \* bound: DELETE /api/agents calls

ASSUME RegistryAssumption == MaxDeletions \in Nat

VARIABLES
    spaced,     \* the agent's name has outer spaces
    listed,     \* the agent has a row in agent_statuses
    deletions,  \* deletions so far
    owed,       \* commits the map has not followed yet, in commit order:
                \* a slot of post, or -n for the n-th deletion
    ideal,      \* history: the entry, if every commit changed the map at once
    overtaken,  \* history: commits in owed that a later one has overtaken
    disorder    \* history: the entry may show commits in the wrong order

registryVars == <<spaced, listed, deletions, owed, ideal, overtaken, disorder>>
rvars == <<cvars, registryVars>>

Deletions == {-n : n \in 1 .. MaxDeletions}

RInit ==
    /\ CInit
    /\ spaced \in BOOLEAN
    /\ listed = FALSE /\ deletions = 0
    /\ owed = <<>> /\ ideal = Unknown /\ overtaken = {} /\ disorder = FALSE

\* GET /api/tasks: SaveAgentHeartbeat, then the tasks.  If the fetch fails the
\* heartbeat may have been committed nevertheless.
Heartbeat ==
    /\ \/ FetchTasks /\ listed' = TRUE
       \/ FetchFails /\ listed' \in {listed, TRUE}
    /\ UNCHANGED <<connVars, spaced, deletions, owed, ideal, overtaken, disorder>>

\* Faulty variant of Report: only a heartbeat lists an agent.
ReportUnlisted(h) ==
    /\ Save(h)
    /\ owed' = Append(owed, h)
    /\ ideal' = Advance(ideal, RoundFailed(post[h].batch))
    /\ UNCHANGED <<connVars, spaced, listed, deletions, overtaken, disorder>>

\* SaveResults lists the agents of the report in the transaction of its rows.
Report(h) ==
    /\ Save(h)
    /\ listed' = TRUE
    /\ owed' = Append(owed, h)
    /\ ideal' = Advance(ideal, RoundFailed(post[h].batch))
    /\ UNCHANGED <<connVars, spaced, deletions, overtaken, disorder>>

\* The map follows commit c.  A wrong order is repaired by a commit after which the
\* former entry no longer matters, if it is the last one and nothing overtook it.
Follow(c, resets) ==
    LET before == Range(SubSeq(owed, 1, SelectInSeq(owed, LAMBDA d : d = c) - 1))
    IN  /\ owed' = RemoveFirst(owed, c)
        /\ overtaken' = (overtaken \cup before) \ {c}
        /\ disorder' = IF resets /\ owed = <<c>> /\ c \notin overtaken
                       THEN FALSE
                       ELSE disorder \/ before # {}

Publish(h) ==
    /\ Update(h)
    /\ Follow(h, ~RoundFailed(post[h].batch))
    /\ UNCHANGED <<spaced, listed, deletions, ideal>>

\* handleDeleteAgent: DeleteAgent's transaction commits ...
DeleteCommit ==
    /\ deletions < MaxDeletions
    /\ deletions' = deletions + 1
    /\ listed' = FALSE
    /\ owed' = Append(owed, -deletions')
    /\ ideal' = IF spaced THEN ideal ELSE Unknown
    /\ UNCHANGED <<cvars, spaced, overtaken, disorder>>

\* Faulty variant of DeleteEntry: the entry of the deleted agent stays.
EntryStays(d) ==
    /\ Contains(owed, d)
    /\ Follow(d, ~spaced)
    /\ UNCHANGED <<cvars, spaced, listed, deletions, ideal>>

\* ... and the entry is removed under connectivityMu: the one under the trimmed name, which
\* is not this agent's when its name has outer spaces.
DeleteEntry(d) ==
    /\ Contains(owed, d)
    /\ IF spaced
       THEN UNCHANGED connVars
       ELSE conn' = Unknown /\ badRounds' = {}
    /\ Follow(d, ~spaced)
    /\ UNCHANGED <<vars, spaced, listed, deletions, ideal>>

\* Faulty variant of RegistryRestarts: handlers go on in the next process.
HandlersSurvive ==
    /\ Forget
    /\ ideal' = Unknown /\ overtaken' = {} /\ disorder' = FALSE
    /\ UNCHANGED <<spaced, listed, deletions, owed>>

\* The supervisor stops: handlers end where they stand and the map is gone.
RegistryRestarts ==
    /\ Forget
    /\ owed' = <<>> /\ ideal' = Unknown /\ overtaken' = {} /\ disorder' = FALSE
    /\ UNCHANGED <<spaced, listed, deletions>>

\* What changes neither the table nor the map.
Elsewhere ==
    /\ \/ SomeProbe \/ Accepted \/ Rejected \/ Wake \/ GiveUp \/ AgentRestarts
       \/ \E h \in Slots :
             Send(h) \/ Refuse(h) \/ Discard(h) \/ RequestLost(h) \/ SaveFails(h)
    /\ UNCHANGED <<connVars, registryVars>>

RNext ==
    \/ Heartbeat \/ DeleteCommit \/ RegistryRestarts \/ Elsewhere
    \/ \E h \in Slots : Report(h) \/ Publish(h)
    \/ \E d \in Deletions : DeleteEntry(d)

RSpec == RInit /\ [][RNext]_rvars
----------------------------------------------------------------------------
(* Properties. *)

\* Every variable has its type; a commit is owed exactly while its handler stands
\* between the commit and the map.
RTypeOK ==
    /\ CTypeOK
    /\ spaced \in BOOLEAN /\ listed \in BOOLEAN /\ disorder \in BOOLEAN
    /\ deletions \in 0 .. MaxDeletions
    /\ {h \in Slots : post[h].stage = "saved"} = Range(owed) \ Deletions
    /\ ideal \in [failures : 0 .. Threshold, status : {"unknown", "ok", "checking", "failed"}]

\* The two steps of a handler are as good as one: when nobody stands between them, the
\* entry is what it would be if every report and every deletion changed table and map
\* at once (updateAgentConnectivity, handleDeleteAgent).  The only exception is that
\* the map followed two commits in the wrong order, and the next good report or
\* deletion that is alone repairs that.
AsIfAtomic == owed = <<>> /\ ~disorder => conn = ideal

\* An agent that was deleted, or never seen, has no connectivity entry: the next time it
\* reports, its failures are counted from zero.  This is true of names without outer
\* spaces only: the entry of any other agent outlives its deletion.
UnlistedIsUnknown == ~listed /\ ~spaced /\ owed = <<>> /\ ~disorder => conn = Unknown
============================================================================

---------------------------- MODULE AtLeastOnce ----------------------------
(***************************************************************************)
(* What the reporting path promises, without its mechanism.  An agent      *)
(* numbers the results it produces 1, 2, 3, ...  It holds a result until   *)
(* the supervisor has stored it, or until Capacity newer results exist, or *)
(* until the agent process ends.  A result may be stored while it is held, *)
(* after it has been given up, and more than once.                         *)
(***************************************************************************)
EXTENDS Naturals

CONSTANTS
    Capacity,   \* how many results an agent may hold back
    RoundSize   \* the most results one round produces

VARIABLES
    produced,   \* number of results produced so far
    held,       \* results the agent still owes the supervisor
    stored,     \* results the supervisor has at least one row for
    lost        \* results the agent discarded, stored or not

vars == <<produced, held, stored, lost>>

Init ==
    /\ produced = 0
    /\ held = {} /\ stored = {} /\ lost = {}

(***************************************************************************)
(* n new results join the held ones; those with Capacity newer results     *)
(* are given up, the oldest first.                                         *)
(***************************************************************************)
Produce(n) ==
    LET all == held \cup (produced + 1 .. produced + n)
    IN  /\ produced' = produced + n
        /\ held' = {i \in all : i + Capacity > produced + n}
        /\ lost' = lost \cup {i \in all : i + Capacity <= produced + n}
        /\ UNCHANGED stored

Store(S) ==
    /\ S \subseteq 1 .. produced
    /\ stored' = stored \cup S
    /\ UNCHANGED <<produced, held, lost>>

\* The agent forgets a result as delivered only after it was stored.
Release(S) ==
    /\ S \subseteq held \cap stored
    /\ held' = held \ S
    /\ UNCHANGED <<produced, stored, lost>>

\* The agent process ends: what it held in memory is gone.
Stop ==
    /\ lost' = lost \cup held
    /\ held' = {}
    /\ UNCHANGED <<produced, stored>>

Next ==
    \/ \E n \in 0 .. RoundSize : Produce(n)
    \/ \E S \in SUBSET (1 .. produced) : Store(S) \/ Release(S)
    \/ Stop

Spec == Init /\ [][Next]_vars
============================================================================

--------------------------- MODULE MCSeriesStore ---------------------------
(* Two agents with one series each; the name of the second is that of the first with a *)
(* space before it.                                                                    *)
EXTENDS SeriesStore, TLC

CONSTANTS A, SpaceA, a1, s1

MCAgents == {A, SpaceA}
MCTrimmed == [agent \in MCAgents |-> A]
MCSeries == {a1, s1}
MCAgentOf == [k \in MCSeries |-> IF k = a1 THEN A ELSE SpaceA]
Symmetry == Permutations(Reporters) \cup Permutations(Deleters)
============================================================================

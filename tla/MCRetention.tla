----------------------------- MODULE MCRetention -----------------------------
(* Model-checking instance of the retention cleaner. *)
EXTENDS Retention

MCConfig(r, f, w) == [raw |-> r, full |-> f, width |-> w]

\* Raw results for half a second, rollups for two and a half, buckets of two seconds; or
\* one and a half, two, and one.
MCConfigs == {MCConfig(1, 5, 4), MCConfig(3, 4, 2)}

\* One configuration: nothing to reload.
MCLossConfigs == {MCConfig(2, 8, 4)}
MCGapConfigs == {MCConfig(2, 8, 2)}
==============================================================================

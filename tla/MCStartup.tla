------------------------------ MODULE MCStartup ------------------------------
(* Model-checking instance of the start of the supervisor. *)
EXTENDS Startup

Key(ip) == [name |-> "web", ip |-> ip]
Row(i, ip) == [id |-> i, key |-> Key(ip)]

Holding(results, rollups, series, agents) ==
    [table |-> [t \in Tables |-> IF t = "results" THEN results ELSE rollups],
     fresh |-> [t \in Tables |-> Absent], series |-> series, agents |-> agents]

OldResults == [form |-> "old", rows |-> {Row(1, "null"), Row(2, "empty"), Row(3, "one")}]
OldRollups == [form |-> "old", rows |-> {Row(1, "one"), Row(2, "two")}]

\* No file; the schemas before agent_ip, before the rollups and before the series; and
\* the present one without agent_statuses and with it.
AnyFound ==
    {Holding(Absent, Absent, {}, FALSE),
     Holding([form |-> "noip", rows |-> {Row(1, "null")}], Absent, {}, FALSE),
     Holding(OldResults, Absent, {}, FALSE),
     Holding(OldResults, OldRollups, {}, TRUE),
     Holding([form |-> "new", rows |-> {Row(1, "one")}], Created, {Key("one")}, FALSE),
     Holding([form |-> "new", rows |-> {Row(1, "one")}], Created, {Key("one")}, TRUE)}

SavedKey == Key("empty")

Text(live, fixed) == [live |-> live, fixed |-> fixed]
AnySaved == {Text("a", 1), Text("b", 2), Text("invalid", 1)}
AnyPartial == {Text("invalid", 1), Text("short", 0)}
=============================================================================

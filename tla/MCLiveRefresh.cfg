\* One change and one fault.  The first message of a socket fills its channel, so an
\* event that comes before the page has read it drops the client.
CONSTANTS
    Changers = {c1}
    Polls = {p1}
    QueueSize = 1
    MaxVersion = 1
    MaxFaults = 1
SPECIFICATION FairSpec
INVARIANT ClosedOnce
PROPERTIES
    LatestStays
    CurrentUnlessMissed
    AgentsCatchUp

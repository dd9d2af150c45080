\* Any of twelve rows, windows of two seconds, pages of two rows and charts of four points,
\* so that eight rows aggregate in memory; up to three rows the tables change while the
\* query runs.
CONSTANTS
    Series = {"a", "b"}
    Window = 4
    PageSize = 2
    RawAge = 9
    Ranges = {5, 16}
    Contents <- AnyContents
    Instants = {4, 10, 13}
    Clock = {17}
    Asked = {{"a", "b"}, {"a"}}
    MaxChanges = 1
    Crowd = 3
    MaxPoints = 4
SPECIFICATION DSpec
\* A behaviour has one query and ends with its answer.
CHECK_DEADLOCK FALSE
INVARIANTS
    WTypeOK
    PagesDescend
    NoneSkipped
    Bounded
    Conserved
    EverySeriesDrawn

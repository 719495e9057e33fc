SPECIFICATION CronSpec
CONSTANTS
    j1 = j1
    j2 = j2
    w1 = w1
    Http = Http
    Mcp = Mcp
    NoRow = NoRow
    Jobs = {j1, j2}
    Existing = {j1}
    Workers = {w1}
    MaxEvents = 2
    MaxQueue = 1
PROPERTIES
    DeletedStaysDeleted
    EditsSurviveRuns
    DueIsServed
    StopCompletes

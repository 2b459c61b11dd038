SPECIFICATION Spec
CONSTANTS
    t1 = t1
    t2 = t2
    c1 = c1
    c2 = c2
    f1 = f1
    w1 = w1
    w2 = w2
    vr = vr
    Null = Null
    Missing = Missing
    Trips <- TwoTrips
    Clients <- TwoClients
    Files <- OneFile
    Workers <- TwoWorkers
    MaxCalls = 3
    Statuses <- SomeStatuses
    Restricted <- OneRestricted
    IdOf <- Spellings
    Components <- TwoComponents
    DayLength = 4
    Offset = 1
    Margin = 1
    ActivityDays = 2
    DelayMargin = 60
    ShiftMinutes = 2
    Tables <- SomeTables
    Users <- SomeUsers
    Queries <- SomeQueries
    Today <- SomeDays
    Fleets <- SomeFleets
    DelayTables <- SomeDelays
    CostTables <- SomeCosts
    Journeys <- SomeJourneys
    Grid = 500
    StopLists <- SomeStopLists
INVARIANTS
    ReportsAgree
    EtasOrdered
    OrderServes
    AnnouncedOnce
    FilesAccounted
    RateByRaceOnly
SYMMETRY Symmetry
CHECK_DEADLOCK FALSE

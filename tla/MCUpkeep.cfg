SPECIFICATION MCSpec
CONSTANTS
    Scheduler = Scheduler
    Callers = {c1}
    Editors = {e1}
    Names = {Blank, n1}
    Blank = Blank
    Week = 2
    Doublings = 1
    MaxSources = 1
    MaxRuns = 2
    MaxFaults = 1
    Horizon = 2
    r1 = r1
    a1 = a1
    s1 = s1
    s2 = s2
    Releases = {r1}
    Owners = {r1, a1}
    Sources = {s1, s2}
    Needs <- Both
    Bytes <- SameJpg
    None = None
    MaxLost = 1
    MaxClicks = 2
    MaxAttempts = 2
    MaxChanges = 1
INVARIANTS
    RunningIsWorkedOn
    OutcomeIsShown
    
    FilesStay
PROPERTIES
    SettingsHold
    DueIsAttempted
    HeldIsDecided
CHECK_DEADLOCK FALSE

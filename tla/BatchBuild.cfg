SPECIFICATION Spec
CONSTANTS
    Edits = {"spaced", "hurried", "quiet", "commands", "commands_race"}
    MaxClock = 3
    MaxEdits = 2
    MaxStops = 1
    Targets <- MCTargets
    Layouts <- MCLayouts
    Standard <- MCStandard
INVARIANTS TypeOK SkipIsCurrent FailuresRebuilt
PROPERTY BuildsCatchUp

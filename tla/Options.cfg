\* The command line: eight menus of options.
SPECIFICATION OptionsSpec
CONSTANTS
    Files <- MCFiles
    Content <- MCContent
    KnownNames <- MCKnown
    Menus <- MCMenus
    MaxOptions = 4
    Flows <- MCFlows
    Wire <- MCWire
INVARIANTS
    ProfilesAsDeclared
    CaptureAsAsked
CHECK_DEADLOCK FALSE

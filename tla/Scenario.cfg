SPECIFICATION ScenarioSpec
CONSTANTS
    U = U
    I = I
    G = G
    D = D
    Fresh = Fresh
    Nowhere = Nowhere
    Other = Other
    Names <- MCNames
    Addresses <- MCAddresses
    LoadOrder <- MCLoadOrder
    NamesOf <- MCNamesOf
    Values = {0, 1}
    Outcomes = {"success", "failure"}
    LocalNetwork = TRUE
    Deployable = {"Comptroller", "GovernorBravoDelegator"}
    InitialFiles <- MCInitialFiles
    StartsDry = FALSE
    HasAccount = TRUE
    MaxSteps = 3
    MaxObjects = 2
    DryRuns = {FALSE, TRUE}
INVARIANTS ScenarioTypeOK RestartLosesNothing EventsAreSelfContained
PROPERTIES NoSilentBreak ExpectationsAreJudged DryRunLeavesNoTrace
CHECK_DEADLOCK FALSE

SPECIFICATION ScenarioSpec
CONSTANTS
    U = U
    I = I
    G = G
    D = D
    Fresh = Fresh
    Nowhere = Nowhere
    Other = Other
    Names <- MCNames
    Addresses <- MCAddresses
    LoadOrder <- MCLoadOrder
    NamesOf <- MCNamesOf
    Values = {0, 1}
    Outcomes = {"success", "failure"}
    LocalNetwork = TRUE
    Deployable = {"Unitroller"}
    InitialFiles <- MCInitialFiles
    StartsDry = FALSE
    HasAccount = TRUE
    MaxSteps = 1
    MaxObjects = 2
    DryRuns = {FALSE}
INVARIANT ClearedInvariantsAreGone
CHECK_DEADLOCK FALSE

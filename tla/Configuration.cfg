SPECIFICATION ConfigurationSpec
CONSTANTS
    Processes = {p, q}
    Editors = {p}
    p = p
    q = q
    StepOrder <- MCStepOrder
    NeededToBuild = {"ones"}
    Fields = {1, 2}
    Credentials = {1}
    Missing = 0
    Secrets = {c1}
    Absent = absent
    MaxGen = 3
    MaxEdits = 2
    MaxFaults = 1
    MaxWorkflow = 1
    v1 = v1
    bad = bad
    Invalid = {bad}
    Template = template
    Builtin = builtin
    Nothing = nothing
    Imported = imported
    Wizards <- MCWizards
INVARIANTS PointerIsSound RuntimesAccounted ResultsHold
PROPERTIES ActivatedAsTested TypedIsForgotten
CHECK_DEADLOCK FALSE

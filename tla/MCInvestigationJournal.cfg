\* Three operations and a resume, awaited or overlapping, two failures or crashes.
SPECIFICATION Spec
CONSTANTS
    Op = {o1, o2, o3}
    Resumer = {r1}
    MaxEntries = 2
    MaxAtOnce = 2
    MaxFailures = 2
    Clients = {TRUE, FALSE}
SYMMETRY Symmetry
INVARIANTS
    AcceptedWasCommitted
    ResumeFindsArtifacts
    PersistedStays
CHECK_DEADLOCK FALSE

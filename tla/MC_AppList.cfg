SPECIFICATION Spec
CONSTANTS
    Text = {1, 2}
    MaxText = 2
    MaxApps = 2
    MaxOther = 2
INVARIANTS
    FindsWhatWasSaid
CHECK_DEADLOCK FALSE

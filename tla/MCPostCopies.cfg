SPECIFICATION Spec
CONSTANTS
    Week = 2
    MaxTime = 3
INVARIANTS
    NeverOlder
    ShowsWhatThereIs
    CutHeals
    ReadYourWrites

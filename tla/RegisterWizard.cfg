SPECIFICATION Spec
CONSTANTS
    Forms = {"player", "coach", "club"}
    Cities <- MCCities
    Ages = {3, 21, 22}
    Kinds = {"kyorogi", "poomseh"}
    MaxOpen = 2
INVARIANTS
    StepsBeforeAreComplete
    RefusedBeyondTheSteps

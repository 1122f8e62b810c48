SPECIFICATION FairSpec
CONSTANTS
    Styles = {"kyorugi", "poomsae"}
    Codes = {1, 2}
    SimulatePaid = {TRUE, FALSE}
    MaxCalls = 2
    MaxRows = 2
    Tabs = {"coach", "player"}
INVARIANTS
    ShownCodeAdmits
    OneStandingEnrollment
PROPERTIES
    EveryWaitEnds

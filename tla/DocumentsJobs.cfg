SPECIFICATION DocumentsSpec
CONSTANTS
    r1 = r1
    r2 = r2
    Processes = {r1, r2}
    NoDate = NoDate
    Unset = Unset
    Today = 100
    JobCases <- MCCases
    Contents <- MCContents
    Scopes = {"inbox", "buffer_inbox"}
    MaxIncidents = 3
    Cards = {"c1"}
    CardStates <- MCCardStates
INVARIANTS ReceiptsTellTheTruth HonestOwnersAreBelieved ChangesAreTold
CHECK_DEADLOCK FALSE

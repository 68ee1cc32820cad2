SPECIFICATION Spec
CONSTANTS
    Posts = {1, 2}
    Accounts <- MCAccounts
    Slots = {"s1", "s2"}
    Limits = {1}
    FirstLimit <- MCFirstLimit
    FirstModel <- MCFirstModel
    Models = {"local"}
    Given <- MCGiven
    Managed = {"default"}
    MaxSaves = 1
    MaxTrouble = 2
INVARIANTS
    PausedMeansUnusable

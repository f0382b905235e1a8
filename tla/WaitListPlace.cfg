SPECIFICATION WaitListSpec
CONSTANTS
    NoGuid = NoGuid
    Client = {c1, c2, c3, gm}
    Premium = {c2}
    Privileged = {gm}
    MaxPlayers = 2
    MaxEntries = 3
PROPERTY WaitingKeepsPlace

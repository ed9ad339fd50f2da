\* Two connections and no background sender: can the counter go below zero.
SPECIFICATION Spec
CONSTANTS
    Client = {c1, c2}
    NoClient = NoClient
    Talker = {}
    Background = {}
INVARIANTS
    OnlineCountIsANumber
CHECK_DEADLOCK FALSE

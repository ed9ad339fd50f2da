\* Two connections of one user who reconnects before the old one is closed.
SPECIFICATION Spec
CONSTANTS
    Client = {c1, c2}
    NoClient = NoClient
    User = {u1}
    NoUser = NoUser
    Restless = {u1}
INVARIANTS
    ConnectedUserIsInMap

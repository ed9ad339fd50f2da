\* Up to three sockets of the page at once; up to three MQTT clients and a publisher; two
\* requests of each kind that waits, with one thread for the greetings. The requests that
\* wait come to an end.
SPECIFICATION MCSpec
CONSTANTS
    Socket = {s1, s2, s3}
    Publisher = {p1}
    MaxClients = 3
    Redis = {t1, t2}
    Server = {h1, h2}
    Greeter = {g1, g2}
    Greeting = {m1, m2}
    Threads = 1
    MaxTries = 1
    MaxLines = 2
INVARIANTS
    RetryIsArmed
    OneConnection
    SettledLink
PROPERTIES
    SilentConnectionIsLeft
    NeverGivesUp
    LossIsMended
    WaitsAreSettled
CHECK_DEADLOCK FALSE

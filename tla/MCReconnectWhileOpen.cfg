\* Two sockets of the page: is a new one made while the page is connected.
SPECIFICATION Spec
CONSTANTS
    Socket = {s1, s2}
PROPERTIES
    ReconnectsOnlyWhenNotConnected

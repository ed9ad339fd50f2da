\* Two connections and the timer: does sendInfo reach every open member.
SPECIFICATION Spec
CONSTANTS
    Client = {c1, c2}
    NoClient = NoClient
    Talker = {}
    Background = {"timer"}
PROPERTIES
    SendInfoReachesOpenMembers

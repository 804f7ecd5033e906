SPECIFICATION Spec
CONSTANTS
    file = file
    docker = docker
    h1 = h1
    h2 = h2
    any = any
    some = some
    broken = broken
    empty = empty
    a = a
    b = b
    Providers = {file, docker}
    Hosts = {h1, h2}
    Patterns = {any, some, broken}
    Invalid = {broken}
    Empty = empty
    NoPool = ""
    HostsOf <- MCHostsOf
    Width <- MCWidth
    Announcements <- MCAnnouncements
    Requests <- MCRequests
INVARIANTS
    AnswersFollowAnnouncements
PROPERTIES
    ReloadsLeaveOthersAlone

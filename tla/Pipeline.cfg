SPECIFICATION FairSystemSpec
CONSTANTS
    File = file
    Docker = docker
    NoUpdater = NoUpdater
    NoPort = NoPort
    MaxVersion = 3
    MaxDocker = 2
    ChannelCap = 2
    Domains = {"a"}
    Ports = {1, 2}
    FileCases <- MCFileCases
    DockerPorts <- MCDockerPorts
CHECK_DEADLOCK FALSE
INVARIANTS
    RunsAsAccepted
    PortsAreServed
PROPERTIES
    RouterFollowsLog
    SourcesAreFollowed

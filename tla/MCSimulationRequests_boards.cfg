CONSTANTS
    Padded <- MCPadded
    HdlPort <- MCHdlPort
    GpioPin <- MCGpioPin
    Registries <- MCRegistries
    Boards <- MCBoards
SPECIFICATION Spec
CHECK_DEADLOCK FALSE
INVARIANTS NodesFollowNets DomainsMeetInBridges HdlRoutingIgnoresOrder PortsHaveOneDriver

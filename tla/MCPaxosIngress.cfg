CONSTANTS
    InstanceCount = 2
    Messages <- SomeMessages
    FifoDepth = 2
    MaxPackets = 3
SPECIFICATION Spec
INVARIANT InstancesDistinct
PROPERTIES ImplementsAcceptor PacketsLeave
CHECK_DEADLOCK FALSE

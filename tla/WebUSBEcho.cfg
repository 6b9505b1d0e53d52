SPECIFICATION Spec
CONSTANTS
    Packets = {"ping", "pong"}
    MaxTaken = 3
    MaxFailures = 2
INVARIANTS EchoTypeOK EchoInOrder BufferComesBack
PROPERTY EchoReturns

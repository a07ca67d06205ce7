\* Packets of three samples: empty, begun, full and several of them.
SPECIFICATION Spec
CONSTANTS
    Size = 3
    MaxFilled = 10
INVARIANT BufferSafe
PROPERTY FifoSpec

SPECIFICATION Spec
CONSTANTS
    Algos = {"sha256", "sha512", "rare"}
    Supported = {"sha256", "sha512"}
    MaxDepth = 2
    MaxStack = 3
    MaxSigners = 2
    FlatLength = 4
    InnerLength = 3
    Wires <- MCWires
INVARIANTS VerdictExact DigestsRight LayersMatch WrittenVerifies

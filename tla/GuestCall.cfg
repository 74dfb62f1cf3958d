SPECIFICATION Spec
CONSTANTS
    IntegerRegisters = 2
    PreciseRegisters = 3
    Modes <- TwoModes
    MaxArguments = 4
    MaxDepth = 3
    Self = Self
    Garbage = Garbage
INVARIANTS
    IndInv
    ValuesArrive

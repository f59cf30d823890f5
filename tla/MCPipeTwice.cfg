SPECIFICATION Spec
CONSTANTS
    NPcs = 4
    Workloads <- MCLoads
    BootPc = 0
    IrqPc = 1
    NmiPc = 2
    ExcPc = 3
    DbgPc = 2
    DbgExcPc = 1
    Target <- MCTarget
INVARIANT RunsProgramOrder

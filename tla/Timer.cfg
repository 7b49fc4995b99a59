SPECIFICATION Spec
CONSTANTS
    Second <- MCSecond
    Period <- MCPeriod
CONSTRAINT TimeBound
INVARIANTS
    TickBooks
    CountPrinted

CONSTANTS
    g = g
    a1 = a1
    a2 = a2
    a3 = a3
    b1 = b1
    b2 = b2
    c1 = c1
    x1 = x1
    x2 = x2
    x3 = x3
    y3 = y3
    y4 = y4
    Blocks <- ForkBlocks
    Genesis = g
    Path <- ForkPath
    Work <- ForkWork
    Outs <- ForkOuts
    Spends <- ForkSpends
    Creates <- ForkCreates
    ScriptOK = {a1, a2, a3, b1, b2}
    FastBlocks = {a1}
    Version <- ForkVersion
    HardForked = {}
    Sane = {a1, a2, a3, b1, b2}
    ContextOK = {a1, a2, a3, b1, b2}
    Blacklisted = {}
    MaxOrphanBlocks = 2
    DbResults = {TRUE}
    NoBlock = NoBlock
SPECIFICATION RunSpec
PROPERTIES
    ProcessBlockReturns
    ReorgCompletes
CHECK_DEADLOCK FALSE

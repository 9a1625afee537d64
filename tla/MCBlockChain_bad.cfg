CONSTANTS
    g = g
    a1 = a1
    a2 = a2
    a3 = a3
    b1 = b1
    b2 = b2
    c1 = c1
    x1 = x1
    x2 = x2
    x3 = x3
    y3 = y3
    y4 = y4
    Blocks <- BadBlocks
    Genesis = g
    Path <- BadPath
    Work <- BadWork
    Outs <- BadOuts
    Spends <- BadSpends
    Creates <- BadCreates
    ScriptOK = {a1, c1, x1, x3, y3, y4}
    FastBlocks = {c1, x1}
    Version <- BadVersion
    HardForked = {x2, x3, y3, y4}
    Sane = {a1, c1, x1, x2, x3, y3, y4}
    ContextOK = {a1, c1, x1, x2, x3, y3, y4}
    Blacklisted = {}
    MaxOrphanBlocks = 1
    DbResults = {TRUE, FALSE}
    NoBlock = NoBlock
SPECIFICATION Spec
INVARIANTS
    TypeOK
    StatusSound
    OrphanPoolBounded

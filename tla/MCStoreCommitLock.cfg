CONSTANTS
    r1 = r1
    r2 = r2
    Loop = Loop
    Pass = Pass
    Reader <- MCReader
    Pager <- MCPager
    CoinbaseMaturity = 1
    NodeTips <- MCNodeTips
SPECIFICATION Spec
INVARIANTS
    ReadsAreConsistent
    PagesAreOneAnswer
PROPERTIES
    CommitsHappen
    ReadsHappen

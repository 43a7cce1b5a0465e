\* Two symbols, three orders of up to two shares, the consumer joining and the
\* callback being set at any time.
SPECIFICATION SpecTrade
CONSTANTS
    OrderRefs = {1, 2, 3}
    Prices = {1, 5}
    Symbols = {AAPL, MSFT}
    NoSymbol = NoSymbol
    MaxShares = 2
    min_spread_ticks = 2
    tick_size = 1
    PriceMod = 16
    recv_ns = 1
    decided_ns = 2
SYMMETRY SymbolSymmetry
INVARIANTS
    BooksTypeOK
    EveryOrderIsRoutable
    LevelsAreAggregates
    CallbackKnowsTheTop
    BooksMirrorExchange
    OnlyEarlierOrdersAreUnrouted
    StaleEntriesAreSafe
PROPERTY QuoteInsideSpread
CHECK_DEADLOCK FALSE

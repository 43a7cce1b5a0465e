\* A consumer that joins after the first orders were added hears of their end.
SPECIFICATION SpecTrade
CONSTANTS
    OrderRefs = {1, 2, 3}
    Prices = {1, 5}
    Symbols = {AAPL, MSFT}
    NoSymbol = NoSymbol
    MaxShares = 2
    min_spread_ticks = 2
    tick_size = 1
    PriceMod = 16
    recv_ns = 1
    decided_ns = 2
PROPERTY EarlierOrdersCountAsUnknown
CHECK_DEADLOCK FALSE

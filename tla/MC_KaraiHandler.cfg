CONSTANTS
    k1 = k1
    k2 = k2
    c1 = c1
    p1 = p1
    Keys <- MCKeys
    Me = k1
    Symbols = {"0", "1"}
    Contracts = {c1}
    Prices <- MCPrices
    Addrs = {p1}
    SSO = 15
    NoReply = NoReply
    NoPair = NoPair
    TickerDown = TickerDown
    ContractReplies <- MCContractReplies
SPECIFICATION Spec
INVARIANT SignedHashBindsData

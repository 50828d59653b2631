SPECIFICATION FairSpec
CONSTANTS
    w1 = w1
    w2 = w2
    w3 = w3
    k1 = k1
    k2 = k2
    v = v
    Procs <- Three
    Keys <- TwoKeys
    Vals <- MCVals
    Snapshots <- MCSnapshots
    Calls <- MCCalls
    NoVal = NoVal
    Missing = Missing
    Bad = Bad
    Odd = Odd
    NoRequest = NoRequest
PROPERTIES
    Linearizable
    CallsEndOne

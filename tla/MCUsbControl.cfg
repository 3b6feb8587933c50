SPECIFICATION FairSpec
CONSTANTS
    PktLen = 2
    MaxRequests = 2
    Alternates = {0, 1}
    Requests <- MCRequests
INVARIANTS AddressAssigned WritesDelivered ReadExact
PROPERTIES TransferEnds

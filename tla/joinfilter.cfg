CONSTANTS
    Node = {1, 2, 3, 4, 5}
    Parent <- MCParent
    Device = {4, 5}
    PageSize = 1
    MaxFaults = 2
SPECIFICATION FairSpec
INVARIANT TypeOK
PROPERTIES FilterFaithful JoinsConverge

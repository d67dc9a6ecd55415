CONSTANTS
    rs1 = rs1  rs2 = rs2  p1 = p1  p2 = p2  p3 = p3
    nrs1 = nrs1  nrs2 = nrs2  d1 = d1  d2 = d2  rt = rt  x = x
    Routes <- MCRequestRoutes
    Candidates <- MCCandidates
    Queries <- MCQueries
    TokenLists <- MCTokenLists
    MaxSets = 3
    MaxFilters = 9
    MaxCard = 1
    Lifecycle = TRUE
SPECIFICATION Spec
INVARIANT QueryMatchesSpec
PROPERTY SetsChangeOnlyWhenTargeted
VIEW MCView
PROPERTY ImplementsFilterSets

SPECIFICATION Spec
CONSTANTS
    Numerals <- MCNumerals
    Neighbors <- MCNeighbors
    Queries <- MCQueries
INVARIANT ListingFollowsRequest

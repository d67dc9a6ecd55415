SPECIFICATION Spec
CONSTANTS
    Numerals <- MCNumerals
    Neighbors <- MCNeighbors
    Queries <- MCWordQueries
INVARIANT AsnValuesParsedStrictly

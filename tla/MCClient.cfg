SPECIFICATION Spec
CONSTANTS
    c1 = c1
    c2 = c2
    Callers <- MCCallers
    Endpoints <- MCEndpoints
    BadSegments <- MCBadSegments
    Deadline <- MCDeadlines
    Api <- MCApi
    Documents <- MCDocuments
    Lookups <- MCLookups
INVARIANTS
    BodyClosedOnReturn
    DecodersNeverPanic
    LookupsFindPresentKeys
PROPERTIES
    ImplementsJSONFetch

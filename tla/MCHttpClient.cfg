SPECIFICATION FairSpec
CONSTANTS
    Responses <- AllResponses
    Sketches <- TwoSketches
    MaxReuse = 2
INVARIANTS TypeOK StatusIsOfRequest BodyIsOfResponse
PROPERTIES RoundsEnd

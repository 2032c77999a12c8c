SPECIFICATION Spec
CONSTANTS
    Responses <- AllResponses
    Sketches <- NoStop
    MaxReuse = 2
INVARIANTS NoLengthWithoutHeader

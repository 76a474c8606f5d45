CONSTANTS
    SizeMax = 3
    LongMax = 3
    OptionValues <- ThreeOptions
    Requests <- SomeRequests
    Answers <- SomeAnswers
    Names = {id}
    id = id
    Values = {interim, final, trailer, long, none}
    interim = interim
    final = final
    trailer = trailer
    long = long
    none = none
    NoName = NoName
SPECIFICATION Spec
INVARIANTS
    ResponseIsWhatThePeerSent
    LimitsAreExact
PROPERTIES
    EverySendReturns

SPECIFICATION Spec
CONSTANTS
    Strs = {"s1", "s2"}
    Blobs = {"b1", "b2", "w1"}
    WideBlobs = {"w1"}
    Programs <- MCPrograms
    WideOnly = {"W"}
    ByteOnly = {"B"}
    Hash <- MCHash
    MaxPlace = 10
    FormatValues <- MCValues
    FormatWidths <- MCWidths
    FormatPrecs <- MCPrecs
INVARIANTS RefsExact EqExact SearchLaws FormatExact
PROPERTIES ImplementsValues
VIEW Shape

SPECIFICATION Spec
CONSTANTS
    Events <- MCEvents
    Registrable <- MCRegistrable
    Types <- MCTypes
    Accepts <- MCAccepts
    Eval <- EvalPredicate
    MaxProviders = 2
    MaxEvents = 3
    DefaultCallback = "schema"
    Nil = Nil
INVARIANTS
    TypeOK
    RequestsReachTheirOwner
    SchemaGapsAreContained
    ReadsAreTrue
PROPERTY TreatedAlike
CHECK_DEADLOCK FALSE

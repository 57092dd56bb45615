CONSTANTS
    Instants <- SomeInstants
    Dates <- SomeDates
    ServerWest <- EST
SPECIFICATION Spec
INVARIANTS TypeOK ShownUntilIsPicked AnsweredUntilPicked
PROPERTIES GrantIsInForce SavingKeepsThePeriod
CHECK_DEADLOCK FALSE

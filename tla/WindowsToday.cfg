CONSTANT Instants <- MCInstants
SPECIFICATION Spec
INVARIANT TodayIsTheDay
CHECK_DEADLOCK FALSE

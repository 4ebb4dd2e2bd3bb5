SPECIFICATION Spec
CONSTANT Functions = {1, 2, 3}
CHECK_DEADLOCK FALSE
INVARIANTS TypeOK GroupsAreComponents
PROPERTIES Ends KeepsPromise

SPECIFICATION Spec
INVARIANTS ValuesAreWhole ObjectsAgree
PROPERTIES CallsReturn
CHECK_DEADLOCK FALSE

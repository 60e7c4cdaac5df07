CONSTANTS
    Specs <- MCSpecs
    Moving <- MCMoving
    Displacements <- MCDisplacements
    MaxTime = 3
SPECIFICATION Spec
INVARIANTS
    FacesAreTheEdges
    GateIsExact
    MotionIsConsistent
CHECK_DEADLOCK FALSE

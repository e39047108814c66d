\* Ten elements: enough for a black node too few to be passed up twice.
CONSTANTS
    Elem = {1, 2, 3, 4, 5, 6, 7, 8, 9, 10}
SPECIFICATION Spec
VIEW LiveFields
INVARIANTS IsRedBlack SearchesExact WalksExact FreedBottomUp
PROPERTIES ImplementsSet RepairClimbs

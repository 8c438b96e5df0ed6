\* The shipped table, and intervals with their ends at the edges of the week.
SPECIFICATION Spec
CONSTANT Tables <- MCTables
INVARIANTS
    TypeOK
    PaintedIsDisplayed
    PageAgainstDecision
PROPERTY WalksEnd

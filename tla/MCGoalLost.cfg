CONSTANTS
    Goal = {g1}
    Finding = {x1}
    GoalStep = {s1}
    MaxActive = 1
    MaxCycles = 2
SPECIFICATION GoalsSpec
CHECK_DEADLOCK FALSE
INVARIANT FindingsCarried

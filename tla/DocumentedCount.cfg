SPECIFICATION Spec
CONSTANTS
    MaxMembers = 5
    Rules <- MCMembersPresent
INVARIANT ResultAsDocumented
CHECK_DEADLOCK FALSE

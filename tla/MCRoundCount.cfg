SPECIFICATION Spec
CONSTANTS
    MaxMembers = 5
    Rules <- MCRules
INVARIANTS
    ResultIsExact
    PassedOutvotes
    SuggestionStands
PROPERTIES
    QuorumIsAMajority
CHECK_DEADLOCK FALSE

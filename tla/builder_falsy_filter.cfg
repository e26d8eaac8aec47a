CONSTANTS
    Release = "gaiandb"
    FilterValues <- MCFiltersWithFalse
SPECIFICATION Spec
INVARIANT IssuesSpecMutation

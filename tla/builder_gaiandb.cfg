CONSTANTS
    Release = "gaiandb"
    FilterValues <- MCFilters
SPECIFICATION Spec
INVARIANT IssuesSpecQuery IssuesSpecMutation

CONSTANTS
    Release = "gaian"
    FilterValues <- MCFilters
SPECIFICATION Spec
INVARIANT IssuesSpecMutation

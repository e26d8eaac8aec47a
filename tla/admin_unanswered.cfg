CONSTANTS
    MaxRows = 2
    ToObjArrayFails = TRUE
SPECIFICATION Spec
INVARIANT AnswersSpecTableList

CONSTANTS
    MaxRows = 3
    ToObjArrayFails = FALSE
SPECIFICATION Spec
INVARIANT ProjectsSpecMessages AnswersSpecTableList

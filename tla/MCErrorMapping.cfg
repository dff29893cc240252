SPECIFICATION Spec
INVARIANT ResourceErrorsMatchStatus

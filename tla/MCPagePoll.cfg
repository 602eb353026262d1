SPECIFICATION Spec
INVARIANT LiveCallGoesOn
CHECK_DEADLOCK FALSE

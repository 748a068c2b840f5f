SPECIFICATION Spec
CONSTANT None = None
INVARIANT TypedErrorsKeepTheirBucket
CHECK_DEADLOCK FALSE

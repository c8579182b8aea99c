SPECIFICATION Spec
CONSTANT Jobs <- SealedJobs
INVARIANT FrameFits
CHECK_DEADLOCK FALSE

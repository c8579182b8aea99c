SPECIFICATION Spec
CONSTANT Jobs <- AllJobs
INVARIANT StatTellsMissing
INVARIANT StatFitsWindow
INVARIANT AnyKRestores
INVARIANT FrameFits
CHECK_DEADLOCK FALSE

SPECIFICATION Spec
CONSTANT Jobs <- AllJobs
INVARIANTS StaysInside RoundTrip
CHECK_DEADLOCK FALSE

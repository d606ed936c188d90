SPECIFICATION Spec
CONSTANT Jobs <- AllJobs
INVARIANTS SuccessIsWhole AgainOnlyIfRefused NoneLeftOut
PROPERTIES LeadsOn PlaceComesBack KeepsContract
CHECK_DEADLOCK FALSE

CONSTANTS
    Cases <- MCCases
SPECIFICATION Spec
INVARIANTS ReportTrue
PROPERTIES StartsSound SupervisorEnds

SPECIFICATION Spec
CHECK_DEADLOCK FALSE
CONSTANTS
    Instances = {i1}
    Handlers = {h1, h2}
    Outcomes = {a, b}
    Fight = a
    Confirming = {"primary"}
    Authorised = TRUE
    MaxRequests = 2
    MaxFaults = 1
INVARIANTS AcceptedReportsStand DisputeRowsBacked RowConverges
PROPERTIES OverdueSettles

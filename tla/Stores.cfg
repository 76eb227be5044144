SPECIFICATION StoresSpec
CONSTANTS
    Request = q
    Msgs = {1, 2, 3}
    Ordered = {1, 2}
    NeedsReceipt = {2, 3}
    Senders = {s1, s2}
    Limit = 1
    MaxRearms = 1
    MaxAttempts = 1
    MaxSlips = 1
INVARIANTS ConfirmedIsEvidence AggregateOrder OneHolder ToldIsStored
PROPERTIES ClosedStaysClosed RefinesTxStore RefinesTxProtocol

CONSTANT Depths = {1, 2, 3}
SPECIFICATION Spec
INVARIANTS TypeOK OneRequestOrEvent ContractObeyed SerialInputAnswered NothingLeftBehind SerialNeverTimesOut
PROPERTIES EncodeReturns
CHECK_DEADLOCK FALSE

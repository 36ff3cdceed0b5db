SPECIFICATION FairSpec
CONSTANTS
    a = a
    b = b
    Calls = {a}
    MaxRetries = 2
    HandlerErrors <- MCHandlerErrors
    GatewayReplies <- MCGateway
CHECK_DEADLOCK FALSE
INVARIANTS OkMeansExecuted RepeatedOnlyWhenInDoubt FinalAnswerIsDelivered
    MetricsMissOnlyPanics
PROPERTIES CancelledCallsReturn RemoteSpec

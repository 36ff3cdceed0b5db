SPECIFICATION Spec
CONSTANTS
    a = a
    b = b
    Calls = {a, b}
    MaxRetries = 1
    HandlerErrors <- MCRetriedError
    GatewayReplies <- NoGateway
CONSTRAINT OneAtATime
CHECK_DEADLOCK FALSE
PROPERTIES NoWriteOvertakesALaterOne

SPECIFICATION FairSpec
CONSTANTS
    Calls <- MCCalls
    Messages = 8
    Nothing = Nothing
INVARIANTS
    HandshakeAgrees
    ReceiverTrustsSender
    BusyWhileHolding
PROPERTIES
    DeliveredIntact
    MeetingDelivers

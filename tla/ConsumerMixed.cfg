SPECIFICATION Spec
CONSTANTS
    NoOffer = NoOffer
    Offers <- AllOffers
    Hazards <- NoHazards
    MaxConsumers = 1
    MaxCalls = 4
CHECK_DEADLOCK FALSE
INVARIANT EndpointAgrees

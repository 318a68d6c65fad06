SPECIFICATION FairSpec
CONSTANTS
    NoOffer = NoOffer
    Offers <- AllOffers
    Hazards <- NoHazards
    MaxConsumers = 2
    MaxCalls = 4
CHECK_DEADLOCK FALSE
INVARIANTS TypeOK EndpointIsOurs NeverDowngraded
PROPERTIES ProtocolRises AsRendezvous TimedWaitsEnd InfiniteWaitsEnd

----------------------------- MODULE MCConsumer -----------------------------
(***************************************************************************)
(* Consumer for TLC: a publisher of the name over each protocol, and one   *)
(* of another name.                                                        *)
(***************************************************************************)
EXTENDS Consumer

OurHttp == [ours |-> TRUE, protocol |-> Http, at |-> 1]
OurHttps == [ours |-> TRUE, protocol |-> Https, at |-> 2]
Foreign == [ours |-> FALSE, protocol |-> Https, at |-> 3]

AllOffers == {OurHttp, OurHttps, Foreign}
NoHazards == {}

=============================================================================

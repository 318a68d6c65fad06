------------------------------ MODULE Consumer ------------------------------
(***************************************************************************)
(* EpcConsumer (src/libepc/consumer.c) and the EpcServiceMonitor it looks  *)
(* for its publisher with (src/libepc/service-monitor.c).                  *)
(*                                                                         *)
(* All of it runs in one thread.  Waiting for the publisher runs a main    *)
(* loop inside the call, and so may the handlers of the two signals; each  *)
(* loop delivers timers, the callbacks of Avahi and what else the          *)
(* application does, including further calls.  The variable stack holds    *)
(* what has not returned yet, the innermost last.  All waits share the one *)
(* loop object of the consumer, hence one flag.                            *)
(*                                                                         *)
(* Consumers follow each other; what the library leaves behind of one that *)
(* was disposed of - timers and resolvers - stays in the model.  Avahi,    *)
(* the main context and libsoup are external.                              *)
(***************************************************************************)
EXTENDS Integers, SequencesExt

CONSTANTS
    Offers,        \* what may be announced: is it by the name looked for,
                   \* over which protocol, and where
    NoOffer,
    Hazards,       \* what may happen besides ordinary operation
    MaxConsumers,  \* bound: consumers created
    MaxCalls       \* bound: calls of the application and changes of the network

(* EpcProtocol; epc_consumer_service_found_cb asserts the order. *)
Unknown == 0
Http == 1
Https == 2

(* wait_in_handler: a handler of publisher-resolved waits without time-out;
   wait_nested: so does what the application does in a waiting loop;
   resolve_fails: Avahi cannot resolve a service that is announced. *)
AllHazards == {"wait_in_handler", "wait_nested", "resolve_fails"}

ASSUME ConsumerAssumption ==
    /\ Offers \subseteq [ours : BOOLEAN, protocol : {Http, Https}, at : Nat]
    /\ NoOffer \notin Offers
    /\ Hazards \subseteq AllHazards
    /\ MaxConsumers \in Nat
    /\ MaxCalls \in Nat

VARIABLES
    consumer,     \* the consumer there is, 0 for none
    created,      \* consumers created
    protocol,     \* priv->protocol
    endpoint,     \* priv->hostname, port and path: the offer they were taken from
    credentials,  \* priv->username and password
    types,        \* protocols browsed by priv->service_monitor, {} without one
    browsed,      \* offers its browsers have reported
    resolvers,    \* pending resolvers, each with the consumer it will report to
    met,          \* history: protocols over which this publisher was found so far
    running,      \* priv->loop runs
    timers,       \* time-outs pending, for each consumer created
    stack,        \* what has not returned yet
    net,          \* offers announced on the network
    fault,        \* a callback was called with a consumer that is gone
    budget        \* calls left

identity == <<consumer, created, credentials>>
target == <<protocol, endpoint>>
monitorVars == <<types, browsed, resolvers, met>>
vars == <<identity, target, monitorVars, running, timers, stack, net, fault, budget>>

Consumers == 1..MaxConsumers

(* What the publisher accepts, or anything else. *)
Credentials == {"none", "good"}

Frame(op) == [op |-> op, timed |-> FALSE, lookup |-> FALSE, offer |-> NoOffer,
              tried |-> "nothing"]
Frames == [op : {"wait", "emit", "send", "ask"}, timed : BOOLEAN, lookup : BOOLEAN,
           offer : Offers \cup {NoOffer}, tried : Credentials \cup {"nothing"}]

TypeOK ==
    /\ consumer \in 0..created
    /\ created \in 0..MaxConsumers
    /\ protocol \in {Unknown, Http, Https}
    /\ endpoint \in Offers \cup {NoOffer}
    /\ credentials \in Credentials
    /\ types \subseteq {Http, Https}
    /\ browsed \subseteq Offers
    /\ resolvers \subseteq [offer : Offers, consumer : Consumers]
    /\ met \subseteq {Http, Https}
    /\ running \in BOOLEAN
    /\ timers \in [Consumers -> Nat]
    /\ stack \in Seq(Frames)
    /\ net \subseteq Offers
    /\ fault \in {"none", "freed"}
    /\ budget \in 0..MaxCalls

Init ==
    /\ consumer = 0
    /\ created = 0
    /\ protocol = Unknown
    /\ endpoint = NoOffer
    /\ credentials = "none"
    /\ types = {}
    /\ browsed = {}
    /\ resolvers = {}
    /\ met = {}
    /\ running = FALSE
    /\ timers = [c \in Consumers |-> 0]
    /\ stack = <<>>
    /\ net \in SUBSET Offers
    /\ fault = "none"
    /\ budget = MaxCalls

-----------------------------------------------------------------------------
(* Where control is. *)

Top(op) == fault = "none" /\ stack # <<>> /\ Last(stack).op = op

Within(op) == \E i \in DOMAIN stack : stack[i].op = op

(* Some main loop runs, or may run in a handler; sending a message does not
   run one (external). *)
Dispatching == fault = "none" /\ ~Top("send")

(* The source of Avahi's callbacks does not recurse, so that a loop within
   such a callback gets no other one (external). *)
AvahiDispatching == Dispatching /\ ~Within("emit")

Spend == budget > 0 /\ budget' = budget - 1

(* The application calls: from its main loop, or while it is called back. *)
Call == Dispatching /\ Spend

-----------------------------------------------------------------------------
(* The life of a consumer. *)

(* Mutant: no protocol is taken for one to browse. *)
TypesAsked(p) == {p}

(* The service types monitored: all there are, unless one was asked for. *)
TypesFor(p) == IF p = Unknown THEN {Http, Https} ELSE {p}

(* epc_consumer_new_for_name_full, or g_object_new with a protocol. *)
NewForName(p) ==
    /\ protocol' = p
    /\ endpoint' = NoOffer
    /\ types' = TypesFor(p)
    /\ met' = {}

(* epc_consumer_new, for a service the application knows of. *)
NewForService(o) ==
    /\ protocol' = o.protocol
    /\ endpoint' = o
    /\ types' = {}
    /\ met' = {o.protocol}

New ==
    /\ Call
    /\ stack = <<>>
    /\ consumer = 0
    /\ created < MaxConsumers
    /\ created' = created + 1
    /\ consumer' = created'
    /\ (\E p \in {Unknown, Http, Https} : NewForName(p)) \/ (\E o \in Offers : NewForService(o))
    /\ credentials' = "none"
    /\ running' = FALSE
    /\ UNCHANGED <<browsed, resolvers, timers, stack, net, fault>>

(* epc_consumer_dispose and epc_service_monitor_dispose: the browsers are
   freed, but neither the resolvers nor the time-outs. *)
Dispose ==
    /\ Call
    /\ stack = <<>>
    /\ consumer # 0
    /\ consumer' = 0
    /\ protocol' = Unknown
    /\ endpoint' = NoOffer
    /\ credentials' = "none"
    /\ types' = {}
    /\ browsed' = {}
    /\ met' = {}
    /\ running' = FALSE
    /\ UNCHANGED <<created, resolvers, timers, stack, net, fault>>

(* epc_consumer_set_username, epc_consumer_set_password. *)
SetCredentials(c) ==
    /\ Call
    /\ consumer # 0
    /\ c # credentials
    /\ credentials' = c
    /\ UNCHANGED <<consumer, created, target, monitorVars, running, timers, stack, net, fault>>

-----------------------------------------------------------------------------
(* Finding the publisher. *)

(* epc_service_monitor_browser_cb for a new service. *)
BrowserNew(o) ==
    /\ AvahiDispatching
    /\ o \in net \ browsed
    /\ o.protocol \in types
    /\ browsed' = browsed \cup {o}
    /\ resolvers' = resolvers \cup {[offer |-> o, consumer |-> consumer]}
    /\ UNCHANGED <<identity, target, types, met, running, timers, stack, net, fault,
                   budget>>

(* The same for one that is gone; the consumer does not listen. *)
BrowserRemove(o) ==
    /\ AvahiDispatching
    /\ o \in browsed \ net
    /\ browsed' = browsed \ {o}
    /\ UNCHANGED <<identity, target, types, resolvers, met, running, timers, stack, net,
                   fault, budget>>

(* Mutant: only the first protocol found counts. *)
UpgradesOnce(o) == protocol = Unknown

(* Mutant: the last protocol found counts. *)
UpgradesAlways(o) == protocol # o.protocol

Upgrades(o) == o.protocol > protocol

(* Mutant: the waiting loop is not told. *)
AdoptSilently(o) ==
    /\ endpoint' = o
    /\ UNCHANGED running

(* The end of epc_consumer_service_found_cb. *)
Adopt(o) ==
    /\ endpoint' = o
    /\ running' = FALSE

(* Mutant: services of any name will do. *)
IgnoredNever(o) == FALSE

Ignored(o) == ~o.ours

(* Mutant: the protocol is assigned before the upgrade is signalled. *)
ServiceFoundEarly(o) ==
    \/ /\ Ignored(o)
       /\ UNCHANGED <<target, running, stack>>
    \/ /\ ~Ignored(o)
       /\ Upgrades(o)
       /\ protocol' = o.protocol
       /\ stack' = Append(stack, [Frame("emit") EXCEPT !.offer = o])
       /\ UNCHANGED <<endpoint, running>>
    \/ /\ ~Ignored(o)
       /\ ~Upgrades(o)
       /\ Adopt(o)
       /\ UNCHANGED <<protocol, stack>>

(* epc_consumer_service_found_cb; an upgrade is signalled before anything is
   assigned. *)
ServiceFoundCb(o) ==
    \/ /\ Ignored(o)
       /\ UNCHANGED <<target, running, stack>>
    \/ /\ ~Ignored(o)
       /\ Upgrades(o)
       /\ stack' = Append(stack, [Frame("emit") EXCEPT !.offer = o])
       /\ UNCHANGED <<target, running>>
    \/ /\ ~Ignored(o)
       /\ ~Upgrades(o)
       /\ Adopt(o)
       /\ UNCHANGED <<protocol, stack>>

(* The history of what was found, whatever the consumer makes of it. *)
Meet(o) == met' = IF o.ours THEN met \cup {o.protocol} ELSE met

(* epc_service_monitor_resolver_cb; a resolver frees itself. *)
ResolverFound(r) ==
    /\ AvahiDispatching
    /\ r \in resolvers
    /\ resolvers' = resolvers \ {r}
    /\ IF r.consumer = consumer
       THEN ServiceFoundCb(r.offer) /\ Meet(r.offer) /\ UNCHANGED fault
       ELSE fault' = "freed" /\ UNCHANGED <<target, met, running, stack>>
    /\ UNCHANGED <<identity, types, browsed, timers, net, budget>>

ResolverFails(r) ==
    /\ AvahiDispatching
    /\ r \in resolvers
    /\ r.offer \in net => "resolve_fails" \in Hazards
    /\ resolvers' = resolvers \ {r}
    /\ UNCHANGED <<identity, target, types, browsed, met, running, timers, stack, net,
                   fault, budget>>

(* The handlers of publisher-resolved have returned. *)
EmitReturns ==
    /\ Top("emit")
    /\ protocol' = Last(stack).offer.protocol
    /\ Adopt(Last(stack).offer)
    /\ stack' = Front(stack)
    /\ UNCHANGED <<identity, monitorVars, timers, net, fault, budget>>

-----------------------------------------------------------------------------
(* Waiting for the publisher, and requests. *)

(* epc_consumer_lookup and epc_consumer_list go on with a request if the
   publisher is known by then. *)
Requesting(frames, lookup) ==
    IF lookup /\ endpoint # NoOffer
    THEN Append(frames, [Frame("send") EXCEPT !.offer = endpoint]) ELSE frames

(* Mutant: nothing limits the wait. *)
NoTimer(timed) == timers

(* The time-out that is added for a wait. *)
WithTimer(timed) == IF timed THEN [timers EXCEPT ![consumer] = @ + 1] ELSE timers

(* epc_consumer_resolve_publisher, alone or at the start of a lookup, which
   always sets a time-out.  The same for a request for the list of keys. *)
Resolve(timed, lookup) ==
    /\ Call
    /\ consumer # 0
    /\ lookup => timed
    /\ (~timed /\ Within("emit")) => "wait_in_handler" \in Hazards
    /\ (~timed /\ Within("wait")) => "wait_nested" \in Hazards
    /\ IF endpoint # NoOffer
       THEN stack' = Requesting(stack, lookup) /\ UNCHANGED <<running, timers>>
       ELSE /\ stack' = Append(stack, [Frame("wait") EXCEPT !.timed = timed, !.lookup = lookup])
            /\ running' = TRUE
            /\ timers' = WithTimer(timed)
    /\ UNCHANGED <<identity, target, monitorVars, net, fault>>

(* epc_consumer_wait_cb: the time-out is over, whoever it was meant for. *)
WaitCb(c) ==
    /\ Dispatching
    /\ timers[c] > 0
    /\ timers' = [timers EXCEPT ![c] = @ - 1]
    /\ IF c = consumer
       THEN running' = FALSE /\ UNCHANGED fault
       ELSE fault' = "freed" /\ UNCHANGED running
    /\ UNCHANGED <<identity, target, monitorVars, stack, net, budget>>

(* g_main_loop_run returns. *)
WaitReturns ==
    /\ Top("wait")
    /\ ~running
    /\ stack' = Requesting(Front(stack), Last(stack).lookup)
    /\ UNCHANGED <<identity, target, monitorVars, running, timers, net, fault, budget>>

(* The message is answered, or cannot be sent (external). *)
SendReturns ==
    /\ Top("send")
    /\ stack' = Front(stack)
    /\ UNCHANGED <<identity, target, monitorVars, running, timers, net, fault, budget>>

Tried(c) == [stack EXCEPT ![Len(stack)].tried = c]

(* The publisher asks for authentication: epc_consumer_authenticate_cb sends
   what it has, and asks the application if that was not accepted. *)
AuthenticateCb ==
    /\ Top("send")
    /\ Last(stack).tried # "good"
    /\ stack' = IF Last(stack).tried = "nothing"
                THEN Tried(credentials)
                ELSE Append(stack, Frame("ask"))
    /\ UNCHANGED <<identity, target, monitorVars, running, timers, net, fault, budget>>

(* The handlers of authenticate return: they handled it, or did not, and the
   message is finished with the refusal. *)
AskReturns ==
    /\ Top("ask")
    /\ LET sends == Front(stack) IN
       \/ /\ Spend
          /\ stack' = [sends EXCEPT ![Len(sends)].tried = credentials]
       \/ /\ stack' = Front(sends)
          /\ UNCHANGED budget
    /\ UNCHANGED <<identity, target, monitorVars, running, timers, net, fault>>

-----------------------------------------------------------------------------
(* The network (external): what has left is reported before it is back. *)

OfferAppears(o) ==
    /\ fault = "none"
    /\ Spend
    /\ o \notin net \cup browsed
    /\ net' = net \cup {o}
    /\ UNCHANGED <<identity, target, monitorVars, running, timers, stack, fault>>

OfferLeaves(o) ==
    /\ fault = "none"
    /\ Spend
    /\ o \in net
    /\ net' = net \ {o}
    /\ UNCHANGED <<identity, target, monitorVars, running, timers, stack, fault>>

Next ==
    \/ New
    \/ Dispose
    \/ \E c \in Credentials : SetCredentials(c)
    \/ \E o \in Offers : BrowserNew(o) \/ BrowserRemove(o) \/ OfferAppears(o) \/ OfferLeaves(o)
    \/ \E r \in [offer : Offers, consumer : Consumers] : ResolverFound(r) \/ ResolverFails(r)
    \/ EmitReturns
    \/ \E timed, lookup \in BOOLEAN : Resolve(timed, lookup)
    \/ \E c \in Consumers : WaitCb(c)
    \/ WaitReturns
    \/ SendReturns
    \/ AuthenticateCb
    \/ AskReturns

Spec == Init /\ [][Next]_vars

-----------------------------------------------------------------------------
(* What the consumer promises. *)

(* A consumer looking for a publisher by name contacts only publishers of that
   name, found over a protocol it monitors, whoever else is announced and
   whatever an earlier consumer was waiting for
   (epc_consumer_service_found_cb). *)
EndpointIsOurs ==
    (types # {} /\ endpoint # NoOffer) => endpoint.ours /\ endpoint.protocol \in types

(* A publisher that was ever found over HTTPS is not contacted over plain HTTP,
   in whichever order its announcements are resolved and however often they
   come and go: the protocol requests are made with is the best of all those
   it was found over, unless the signal that tells of a better one has not
   returned (epc_consumer_service_found_cb, epc_consumer_create_request). *)
NeverDowngraded ==
    (endpoint # NoOffer /\ ~Within("emit")) =>
        protocol \in met /\ \A p \in met : p <= protocol

(* A consumer only upgrades its protocol, although the signal that tells of
   it may run other code before the protocol is assigned
   (epc_consumer_service_found_cb). *)
ProtocolRises == [][consumer' = consumer => protocol' >= protocol]_vars

R == INSTANCE Rendezvous WITH
       looking <- consumer # 0,
       wanted <- types,
       level <- protocol,
       choice <- endpoint

(* Through all waits, signals and left-over resolvers of earlier consumers, one
   after the other publishers of its name are met: the endpoint is that of the
   last, the protocol the best of all, and both change in one step, although the
   code runs handlers between comparing the protocols and assigning either
   (epc_consumer_service_found_cb, epc_service_monitor_resolver_cb). *)
AsRendezvous == R!Spec

(* What a request is made of belongs together: host and port are those of a
   service that speaks the protocol used ("The transport protocol to use for
   contacting the publisher", EpcConsumer:protocol). *)
EndpointAgrees == endpoint # NoOffer => endpoint.protocol = protocol

(* When the signal is emitted the publisher has been found ("This signal is
   emitted when a #EpcConsumer ... has found its #EpcPublisher"). *)
ResolvedWhenSignalled == Within("emit") => endpoint # NoOffer

(* A wait without time-out ends with the publisher only ("A @timeout of 0
   requests infinite waiting", epc_consumer_resolve_publisher). *)
InfiniteWaiting ==
    [][(WaitReturns /\ ~Last(stack).timed) => endpoint # NoOffer]_vars

(* A time-out fires only for somebody who waits ("Timeout reached when waiting
   for publisher", epc_consumer_wait_cb). *)
TimeoutEndsWait == [][(\E c \in Consumers : WaitCb(c)) => Within("wait")]_vars

-----------------------------------------------------------------------------
(* Liveness. *)

(* The main loop serves what is pending, handlers return, messages are
   answered or given up, and Avahi reports what is announced. *)
Fairness ==
    /\ WF_vars(EmitReturns)
    /\ WF_vars(WaitReturns)
    /\ WF_vars(SendReturns)
    /\ WF_vars(AskReturns)
    /\ \A c \in Consumers : WF_vars(WaitCb(c))
    /\ \A o \in Offers : WF_vars(BrowserNew(o)) /\ WF_vars(BrowserRemove(o))
    /\ \A r \in [offer : Offers, consumer : Consumers] : WF_vars(ResolverFound(r))

FairSpec == Spec /\ Fairness

Waiting(timed) == \E i \in DOMAIN stack : stack[i].op = "wait" /\ stack[i].timed = timed

(* Every lookup, and every wait with a time-out, comes to an end, also one in
   a handler, where the publisher cannot be found (epc_consumer_lookup). *)
TimedWaitsEnd == (Waiting(TRUE) /\ fault = "none") ~> (~Waiting(TRUE) \/ fault # "none")

(* A wait without time-out ends once a publisher of the name stays announced
   (epc_consumer_resolve_publisher). *)
InfiniteWaitsEnd ==
    <>[](fault = "none" /\ \E o \in net : o.ours /\ o.protocol \in types)
        => []<>~Waiting(FALSE)

=============================================================================

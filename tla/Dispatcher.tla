----------------------------- MODULE Dispatcher -----------------------------
(***************************************************************************)
(* One EpcDispatcher (src/libepc/dispatcher.c): the services it announces, *)
(* the Avahi entry group of each, the idle handler that commits a group,   *)
(* and the strategies for name collisions.                                 *)
(*                                                                         *)
(* The code runs in one main loop, but its calls nest: publishing a service*)
(* may report a collision at once, which suspends all services, renames    *)
(* and publishes all of them while the caller's own loop over the services *)
(* is unfinished.  The variable stack holds these loops, the innermost     *)
(* last, each with the services it has still to visit; the order is the    *)
(* hash table's, hence arbitrary.  One step visits one service.  The main  *)
(* loop delivers the next event when the stack is empty.                   *)
(*                                                                         *)
(* A change of name is notified before the services are published again;   *)
(* the application's handlers may call the dispatcher then.  They configure*)
(* it (Reentrant); that they neither add nor revoke services nor set the   *)
(* cookie is assumed: an unfinished loop may be walking the table of       *)
(* services, which must not change under it, with the old cookie in hand.  *)
(*                                                                         *)
(* Avahi (entry groups, browsers, the daemon) and the other publishers on  *)
(* the network are not code of this library; they are the actions and      *)
(* operators marked external, as wide as the calls of the code allow.      *)
(***************************************************************************)
EXTENDS Integers, SequencesExt

CONSTANTS
    Types,       \* service types, each the key of at most one service
    Strategies,  \* collision strategies the application chooses from
    AppCookies,  \* cookies the application may set, "null" for none
    Rivals,      \* kinds of publishers that may take a name: record of
                 \* local (on this host?) and cookie ("own" or "other")
    Hazards,     \* what may happen besides ordinary operation
    MaxName,     \* bound: alternative names tried
    MaxEvents    \* bound: application calls and spontaneous events

ClientStates == {"connecting", "registering", "running", "collision", "failure"}

(* client_failure: the daemon goes away; group_failure: Avahi reports the
   failure of a group; add_error: a service is refused; early_details: the
   application sets details of a service that has no group yet; early_reset:
   it sets the name or the cookie of a dispatcher that announces nothing yet,
   while somebody else's client is connected; lost_cookie: it sets details
   without repeating the cookie in them; reset_quiet:
   resetting a group that is not committed yet reports no new state;
   empty_commit: a group is committed although a reset has emptied it. *)
AllHazards == {"client_failure", "group_failure", "add_error", "early_details",
               "early_reset", "lost_cookie", "reset_quiet", "empty_commit"}

ASSUME DispatcherAssumption ==
    /\ Strategies \subseteq {"ignore", "change_name", "unique"}
    /\ Strategies # {}
    /\ AppCookies \subseteq {"null", "own"}
    /\ AppCookies # {}
    /\ Rivals \subseteq [local : BOOLEAN, cookie : {"own", "other"}]
    /\ Hazards \subseteq AllHazards
    /\ MaxName \in Nat
    /\ MaxEvents \in Nat

VARIABLES
    name,        \* priv->name, as the number of the alternative in use
    cookie,      \* priv->cookie: "null", set by the application or a UUID
    collisions,  \* priv->collisions
    monitor,     \* priv->monitor: its state, types browsed, names reported
    watch,       \* priv->watch_id # 0: the dispatcher watches the client
    services,    \* keys of priv->services
    marked,      \* services whose details hold the cookie
    group,       \* service->group and the state the daemon keeps for it
    entries,     \* names the service is registered under in its group
    commits,     \* services with a commit_handler
    signals,     \* state changes of each group not yet delivered
    client,      \* state of the shared Avahi client, "none" for no client
    notify,      \* client state the shell is about to report, or "none"
    stack,       \* unfinished loops over the services, innermost last; a
                 \* "notify" is a change of name whose handlers still run
    rivals,      \* other publishers, by name and type
    strangers,   \* names and types ever announced with a foreign cookie
    fault,       \* the first use of a pointer that is NULL or was freed
    budget       \* events left

configVars == <<cookie, collisions, marked>>
groupVars == <<group, entries, commits, signals>>
clientVars == <<client, notify>>
rivalVars == <<rivals, strangers>>
vars == <<name, configVars, monitor, watch, services, groupVars, clientVars,
          stack, rivalVars, fault, budget>>

Names == 0..MaxName
Slots == Names \X Types
NoRival == [local |-> FALSE, cookie |-> "none"]
Cookies == {"null", "own", "other", "uuid"}
NoneKnown == [p \in Slots |-> "none"]
NoMonitor == [state |-> "none", types |-> {}, known |-> NoneKnown]
Ops == {"publish", "reset", "cookie", "notify"}
GroupStates == {"none", "uncommited", "registering", "established", "collision", "freed"}

TypeOK ==
    /\ name \in Names
    /\ cookie \in {"null", "own", "uuid"}
    /\ collisions \in Strategies
    /\ monitor \in [state : {"none", "watching", "disconnected", "dead"},
                    types : SUBSET Types,
                    known : [Slots -> Cookies \cup {"none"}]]
    /\ watch \in BOOLEAN
    /\ services \subseteq Types
    /\ marked \subseteq Types
    /\ group \in [Types -> GroupStates]
    /\ entries \in [Types -> SUBSET Names]
    /\ commits \subseteq Types
    /\ signals \in [Types -> Seq({"uncommited", "collision", "failure"})]
    /\ client \in ClientStates \cup {"none"}
    /\ notify \in ClientStates \cup {"none"}
    /\ stack \in Seq([op : Ops, left : (SUBSET Types) \ {{}}])
    /\ rivals \in [Slots -> Rivals \cup {NoRival}]
    /\ strangers \subseteq Slots
    /\ fault \in {"none", "null_group", "freed_group", "freed_browser"}
    /\ budget \in 0..MaxEvents

NoGroups == [s \in Types |-> "none"]
NoEntries == [s \in Types |-> {}]
NoSignals == [s \in Types |-> <<>>]

Init ==
    /\ name = 0
    /\ cookie \in AppCookies
    /\ collisions \in Strategies
    /\ monitor = NoMonitor
    /\ watch = FALSE
    /\ services = {}
    /\ marked = {}
    /\ group = NoGroups
    /\ entries = NoEntries
    /\ commits = {}
    /\ signals = NoSignals
    /\ client = "none"
    /\ notify = "none"
    /\ stack = <<>>
    /\ rivals = [p \in Slots |-> NoRival]
    /\ strangers = {}
    /\ fault = "none"
    /\ budget = MaxEvents

-----------------------------------------------------------------------------
(* The unfinished loops. *)

(* epc_dispatcher_foreach_service, called while the loops in frames run. *)
Foreach(frames, op, S) ==
    IF S = {} THEN frames ELSE Append(frames, [op |-> op, left |-> S])

(* Mutant: a loop that has visited its last service is not left. *)
AfterKeepingLoop(s) ==
    Append(Front(stack), [op |-> Last(stack).op, left |-> Last(stack).left \ {s}])

(* What remains to do once the innermost loop has visited s. *)
After(s) == Foreach(Front(stack), Last(stack).op, Last(stack).left \ {s})

MainLoop == stack = <<>> /\ notify = "none" /\ fault = "none"

(* Where the application may call: from the main loop, or from a handler. *)
Reentrant == MainLoop \/ (stack # <<>> /\ Last(stack).op = "notify" /\ fault = "none")

Spend == budget > 0 /\ budget' = budget - 1

(* avahi_client_is_connected: only then are new groups created (external). *)
Connected == client \in {"registering", "running", "collision"}

-----------------------------------------------------------------------------
(* Name collisions. *)

(* Mutant: the idle handlers of suspended services stay. *)
SuspendKeepingCommits ==
    /\ group' = NoGroups
    /\ entries' = NoEntries
    /\ signals' = NoSignals
    /\ UNCHANGED <<commits, fault>>

(* Mutant: the groups of suspended services stay. *)
SuspendKeepingGroups ==
    /\ commits' = {}
    /\ UNCHANGED <<group, entries, signals, fault>>

(* epc_service_suspend of every service. *)
SuspendAll ==
    /\ group' = NoGroups
    /\ entries' = NoEntries
    /\ commits' = {}
    /\ signals' = NoSignals
    /\ fault' = IF \E s \in Types : group[s] = "freed" THEN "freed_group" ELSE fault

(* Mutant: the services are not published under the new name. *)
ChangeNameOnly(frames) ==
    /\ name < MaxName
    /\ name' = name + 1
    /\ stack' = frames

(* epc_dispatcher_change_name, up to the notification.  Without services there
   is nothing left to do, and what handlers call comes after it. *)
ChangeName(frames) ==
    /\ name < MaxName
    /\ name' = name + 1
    /\ stack' = Foreach(frames, "notify", services)

(* epc_dispatcher_watch_other; without services of its own the dispatcher
   watches all types there are. *)
WatchOther ==
    monitor' = IF monitor.state = "none"
               THEN [state |-> "watching", known |-> NoneKnown,
                     types |-> IF services = {} THEN Types ELSE services]
               ELSE monitor

(* epc_dispatcher_handle_collision. *)
HandleCollision(frames) ==
    /\ SuspendAll
    /\ \/ /\ collisions = "ignore"
          /\ stack' = frames
          /\ UNCHANGED <<name, monitor>>
       \/ /\ collisions = "change_name"
          /\ ChangeName(frames)
          /\ UNCHANGED monitor
       \/ /\ collisions = "unique"
          /\ WatchOther
          /\ stack' = frames
          /\ UNCHANGED name

-----------------------------------------------------------------------------
(* Visiting one service. *)

(* Answers of avahi_entry_group_add_service_strlst (external): a name taken
   on this host collides at once, a name the group holds already may; adding
   to a group that is committed may be refused.  The last name of the model
   is never contested. *)
AddResults(s) ==
    IF rivals[<<name, s>>].local THEN {"collision"}
    ELSE {"ok"}
         \cup (IF name \in entries[s] \/ group[s] \notin {"none", "uncommited"}
               THEN {"error"} ELSE {})
         \cup (IF name \in entries[s] /\ name < MaxName THEN {"collision"} ELSE {})
         \cup (Hazards \cap {"add_error"})

(* The group of s, in state g, is asked to add the service. *)
AddService(s, g) ==
    \E result \in AddResults(s) :
        \/ /\ result = "collision"
           /\ HandleCollision(After(s))
        \/ /\ result = "ok"
           /\ group' = [group EXCEPT ![s] = g]
           /\ entries' = [entries EXCEPT ![s] = @ \cup {name}]
           /\ commits' = commits \cup {s}
           /\ stack' = After(s)
           /\ UNCHANGED <<name, monitor, signals, fault>>
        \/ /\ result \in {"error", "add_error"}
           /\ group' = [group EXCEPT ![s] = g]
           /\ stack' = After(s)
           /\ UNCHANGED <<name, monitor, entries, commits, signals, fault>>

(* epc_service_run: a connected client creates the group and reports it as
   uncommited at once, which publishes the service. *)
Run(s) ==
    /\ group[s] = "none"
    /\ IF Connected
       THEN AddService(s, "uncommited")
       ELSE stack' = After(s) /\ UNCHANGED <<name, monitor, groupVars, fault>>

(* epc_service_publish of a service that has a group. *)
Publish(s) ==
    /\ Last(stack).op = "publish"
    /\ group[s] \notin {"none", "freed"}
    /\ AddService(s, group[s])

(* Resetting a group drops its entries; the daemon reports the state if it
   changes (external). *)
ResetSignals(s) ==
    IF group[s] = "uncommited" /\ "reset_quiet" \in Hazards
    THEN signals[s] ELSE Append(signals[s], "uncommited")

(* epc_service_reset of a service that has a group. *)
ResetGroup(s) ==
    /\ Last(stack).op \in {"reset", "cookie"}
    /\ group[s] \notin {"none", "freed"}
    /\ group' = [group EXCEPT ![s] = "uncommited"]
    /\ entries' = [entries EXCEPT ![s] = {}]
    /\ signals' = [signals EXCEPT ![s] = ResetSignals(s)]
    /\ stack' = After(s)
    /\ UNCHANGED <<name, monitor, commits, fault>>

(* Either operation on a group its client has freed. *)
TouchFreed(s) ==
    /\ group[s] = "freed"
    /\ fault' = "freed_group"
    /\ UNCHANGED <<name, monitor, groupVars, stack>>

(* epc_dispatcher_set_cookie_cb gives a service the cookie, or takes it away,
   before it resets it. *)
MarkVisited(s) ==
    marked' = IF Last(stack).op # "cookie" THEN marked
              ELSE IF cookie = "null" THEN marked \ {s} ELSE marked \cup {s}

Visit ==
    /\ stack # <<>>
    /\ fault = "none"
    /\ Last(stack).op # "notify"
    /\ \E s \in Last(stack).left :
         /\ MarkVisited(s)
         /\ Run(s) \/ Publish(s) \/ ResetGroup(s) \/ TouchFreed(s)
    /\ UNCHANGED <<cookie, collisions, watch, services, clientVars, rivalVars, budget>>

(* The handlers of notify::name have returned. *)
Notified ==
    /\ stack # <<>>
    /\ fault = "none"
    /\ Last(stack).op = "notify"
    /\ stack' = Foreach(Front(stack), "publish", services)
    /\ UNCHANGED <<name, configVars, monitor, watch, services, groupVars, clientVars,
                   rivalVars, fault, budget>>

-----------------------------------------------------------------------------
(* Events of the main loop. *)

(* Avahi commits a group that is not committed yet (external). *)
Commits(s) ==
    /\ group[s] \in {"uncommited", "collision"}
    /\ entries[s] = {} => "empty_commit" \in Hazards

(* epc_service_commit_cb. *)
CommitCb(s) ==
    /\ MainLoop
    /\ s \in commits
    /\ commits' = commits \ {s}
    /\ fault' = IF group[s] = "freed" THEN "freed_group" ELSE fault
    /\ group' = IF Commits(s) THEN [group EXCEPT ![s] = "registering"] ELSE group
    /\ UNCHANGED <<name, configVars, monitor, watch, services, entries, signals,
                   clientVars, stack, rivalVars, budget>>

(* avahi_client_free and avahi_client_new: the groups and browsers of the old
   client are freed with it, whoever still points at them. *)
RestartClient(groups) ==
    /\ group' = [s \in Types |-> IF groups[s] = "none" THEN "none" ELSE "freed"]
    /\ entries' = NoEntries
    /\ signals' = NoSignals
    /\ monitor' = IF monitor.state = "none" THEN monitor
                  ELSE [monitor EXCEPT !.state = "dead"]
    /\ \E c \in {"none", "connecting", "registering", "running"} :
         /\ client' = c
         /\ notify' = IF watch THEN c ELSE "none"

(* epc_service_group_cb; the states that need no reaction are left out. *)
GroupCb(s) ==
    /\ MainLoop
    /\ signals[s] # <<>>
    /\ \/ /\ Head(signals[s]) = "uncommited"
          /\ signals' = [signals EXCEPT ![s] = Tail(@)]
          /\ stack' = Foreach(<<>>, "publish", {s})
          /\ UNCHANGED <<name, monitor, group, entries, commits, clientVars, fault>>
       \/ /\ Head(signals[s]) = "collision"
          /\ HandleCollision(<<>>)
          /\ UNCHANGED clientVars
       \/ /\ Head(signals[s]) = "failure"
          /\ RestartClient(group)
          /\ UNCHANGED <<name, commits, stack, fault>>
    /\ UNCHANGED <<configVars, watch, services, rivalVars, budget>>

(* epc_dispatcher_client_cb.  After a failure the shell restarts the client
   once the callback has returned, or at once if this dispatcher does not
   watch the client. *)
ClientCb ==
    /\ notify # "none"
    /\ stack = <<>>
    /\ fault = "none"
    /\ \/ /\ notify \in {"running", "registering", "connecting"}
          /\ notify' = "none"
          /\ stack' = CASE notify = "running" -> Foreach(<<>>, "publish", services)
                        [] notify = "registering" -> Foreach(<<>>, "reset", services)
                        [] OTHER -> <<>>
          /\ UNCHANGED <<name, monitor, groupVars, client, fault>>
       \/ /\ notify = "collision"
          /\ notify' = "none"
          /\ HandleCollision(<<>>)
          /\ UNCHANGED client
       \/ /\ notify = "failure"
          /\ RestartClient(IF watch THEN NoGroups ELSE group)
          /\ commits' = IF watch THEN {} ELSE commits
          /\ fault' = IF watch /\ \E s \in Types : group[s] = "freed"
                      THEN "freed_group" ELSE fault
          /\ UNCHANGED <<name, stack>>
    /\ UNCHANGED <<configVars, watch, services, rivalVars, budget>>

(* The monitor's browser reports a publisher that appeared (external). *)
Present(p) ==
    \/ rivals[p] # NoRival
    \/ group[p[2]] = "established" /\ p[1] \in entries[p[2]]

CookieOf(p) ==
    IF rivals[p] # NoRival THEN rivals[p].cookie
    ELSE IF p[2] \in marked THEN cookie ELSE "null"

MonitorNew(p) ==
    /\ MainLoop
    /\ monitor.state \in {"watching", "disconnected"}
    /\ p[2] \in monitor.types
    /\ monitor.known[p] = "none"
    /\ Present(p)
    /\ monitor' = [monitor EXCEPT !.known[p] = CookieOf(p)]
    /\ UNCHANGED <<name, configVars, watch, services, groupVars, clientVars, stack,
                   rivalVars, fault, budget>>

(* Mutant: every service of our name counts as a stranger. *)
ForeignAlways(p) == TRUE

(* The service found does not carry the cookie of the dispatcher. *)
Foreign(p) ==
    monitor.known[p] = "null" \/ cookie = "null" \/ monitor.known[p] # cookie

(* epc_dispatcher_service_found_cb for a foreign service of the same name,
   where it gives up waiting; it does nothing for any other. *)
ServiceFoundCb(p) ==
    /\ MainLoop
    /\ monitor.state = "watching"
    /\ p[1] = name
    /\ monitor.known[p] # "none"
    /\ Foreign(p)
    /\ monitor' = [monitor EXCEPT !.state = "disconnected"]
    /\ ChangeName(<<>>)
    /\ UNCHANGED <<configVars, watch, services, groupVars, clientVars, rivalVars, fault,
                   budget>>

(* epc_dispatcher_service_removed_cb when the browser reports a removal. *)
ServiceRemovedCb(p) ==
    /\ MainLoop
    /\ monitor.state \in {"watching", "disconnected"}
    /\ monitor.known[p] # "none"
    /\ ~Present(p)
    /\ IF monitor.state = "watching" /\ p[1] = name
       THEN /\ monitor' = NoMonitor
            /\ stack' = Foreach(<<>>, "reset", services)
       ELSE /\ monitor' = [monitor EXCEPT !.known[p] = "none"]
            /\ UNCHANGED stack
    /\ UNCHANGED <<name, configVars, watch, services, groupVars, clientVars, rivalVars,
                   fault, budget>>

-----------------------------------------------------------------------------
(* Calls of the application. *)

(* epc_dispatcher_run. *)
RunDispatcher ==
    /\ MainLoop
    /\ Spend
    /\ ~watch
    /\ \E c \in IF client = "none" THEN {"connecting", "registering", "running"}
                ELSE {client} :
         /\ client' = c
         /\ notify' = c
    /\ watch' = TRUE
    /\ UNCHANGED <<name, configVars, monitor, services, groupVars, stack, rivalVars,
                   fault>>

(* epc_dispatcher_ensure_cookie. *)
EnsuredCookie == IF collisions = "unique" /\ cookie = "null" THEN "uuid" ELSE cookie

(* epc_dispatcher_add_service. *)
AddServiceCall(s) ==
    /\ MainLoop
    /\ Spend
    /\ s \notin services
    /\ cookie' = EnsuredCookie
    /\ marked' = IF cookie' = "null" THEN marked \ {s} ELSE marked \cup {s}
    /\ services' = services \cup {s}
    /\ stack' = IF watch THEN Foreach(<<>>, "publish", {s}) ELSE <<>>
    /\ UNCHANGED <<name, collisions, monitor, watch, groupVars, clientVars, rivalVars,
                   fault>>

(* epc_dispatcher_reset: every service is suspended and freed. *)
ResetDispatcher ==
    /\ MainLoop
    /\ Spend
    /\ SuspendAll
    /\ services' = {}
    /\ marked' = {}
    /\ UNCHANGED <<name, cookie, collisions, monitor, watch, clientVars, stack, rivalVars>>

(* epc_dispatcher_add_service_subtype, once the service has a group. *)
AddServiceSubtype(s) ==
    /\ Reentrant
    /\ Spend
    /\ s \in services
    /\ watch
    /\ group[s] # "none"
    /\ commits' = commits \cup {s}
    /\ fault' = IF group[s] = "freed" THEN "freed_group" ELSE fault
    /\ UNCHANGED <<name, configVars, monitor, watch, services, group, entries, signals,
                   clientVars, stack, rivalVars>>

(* epc_dispatcher_set_service_details: the new details replace all of the old
   ones, the cookie included, so that it stays only if the caller passes it
   again; the group is updated whether there is one or not. *)
SetServiceDetails(s) ==
    /\ Reentrant
    /\ Spend
    /\ s \in services
    /\ group[s] = "none" => "early_details" \in Hazards
    /\ \/ UNCHANGED marked
       \/ "lost_cookie" \in Hazards /\ marked' = marked \ {s}
    /\ commits' = commits \cup {s}
    /\ fault' = CASE group[s] = "none" -> "null_group"
                  [] group[s] = "freed" -> "freed_group"
                  [] OTHER -> fault
    /\ UNCHANGED <<name, cookie, collisions, monitor, watch, services, group, entries,
                   signals, clientVars, stack, rivalVars>>

(* Resetting the services gives those a group that have none, also before the
   dispatcher runs, if there is a connected client. *)
MayReset == (~watch /\ services # {} /\ Connected) => "early_reset" \in Hazards

(* epc_dispatcher_set_name. *)
SetName(n) ==
    /\ Reentrant
    /\ Spend
    /\ MayReset
    /\ name' = n
    /\ stack' = Foreach(stack, "reset", services)
    /\ UNCHANGED <<configVars, monitor, watch, services, groupVars, clientVars, rivalVars,
                   fault>>

(* epc_dispatcher_set_cookie. *)
SetCookie(c) ==
    /\ MainLoop
    /\ Spend
    /\ MayReset
    /\ cookie' = c
    /\ stack' = Foreach(<<>>, "cookie", services)
    /\ UNCHANGED <<name, collisions, marked, monitor, watch, services, groupVars, clientVars,
                   rivalVars, fault>>

(* epc_dispatcher_get_cookie: asking for the cookie may create it. *)
GetCookie ==
    /\ MainLoop
    /\ Spend
    /\ cookie' = EnsuredCookie
    /\ UNCHANGED <<name, collisions, marked, monitor, watch, services, groupVars,
                   clientVars, stack, rivalVars, fault>>

(* epc_dispatcher_set_collision_handling. *)
SetCollisionHandling(m) ==
    /\ Reentrant
    /\ Spend
    /\ collisions' = m
    /\ UNCHANGED <<name, cookie, marked, monitor, watch, services, groupVars, clientVars,
                   stack, rivalVars, fault>>

(* epc_dispatcher_dispose; the next dispatcher starts afresh. *)
Dispose ==
    /\ MainLoop
    /\ Spend
    /\ group' = NoGroups
    /\ entries' = NoEntries
    /\ commits' = {}
    /\ signals' = NoSignals
    /\ fault' = IF monitor.state = "dead" THEN "freed_browser"
                ELSE IF \E s \in Types : group[s] = "freed" THEN "freed_group" ELSE fault
    /\ monitor' = NoMonitor
    /\ services' = {}
    /\ marked' = {}
    /\ watch' = FALSE
    /\ name' = 0
    /\ cookie' \in AppCookies
    /\ collisions' \in Strategies
    /\ UNCHANGED <<clientVars, stack, rivalVars>>

Call ==
    \/ RunDispatcher
    \/ \E s \in Types : AddServiceCall(s) \/ AddServiceSubtype(s) \/ SetServiceDetails(s)
    \/ ResetDispatcher
    \/ \E n \in Names \ {MaxName} : SetName(n)
    \/ \E c \in AppCookies : SetCookie(c)
    \/ GetCookie
    \/ \E m \in Strategies : SetCollisionHandling(m)
    \/ Dispose

-----------------------------------------------------------------------------
(* The daemon and the other publishers (external). *)

(* A committed group is established, or loses its name to a rival. *)
GroupSettles(s) ==
    /\ fault = "none"
    /\ \/ /\ group[s] = "registering"
          /\ \A n \in entries[s] : rivals[<<n, s>>] = NoRival
          /\ group' = [group EXCEPT ![s] = "established"]
          /\ UNCHANGED signals
       \/ /\ group[s] \in {"registering", "established"}
          /\ \E n \in entries[s] : rivals[<<n, s>>] # NoRival
          /\ group' = [group EXCEPT ![s] = "collision"]
          /\ signals' = [signals EXCEPT ![s] = Append(@, "collision")]
    /\ UNCHANGED <<name, configVars, monitor, watch, services, entries, commits,
                   clientVars, stack, rivalVars, fault, budget>>

GroupFails(s) ==
    /\ MainLoop
    /\ "group_failure" \in Hazards
    /\ Spend
    /\ group[s] \notin {"none", "freed"}
    /\ signals' = [signals EXCEPT ![s] = Append(@, "failure")]
    /\ UNCHANGED <<name, configVars, monitor, watch, services, group, entries, commits,
                   clientVars, stack, rivalVars, fault>>

ClientChanges(c) ==
    /\ MainLoop
    /\ Spend
    /\ client # "none"
    /\ c # client
    /\ c = "failure" => "client_failure" \in Hazards
    /\ c = "collision" => name < MaxName
    /\ client' = c
    /\ notify' = IF watch \/ c = "failure" THEN c ELSE "none"
    /\ UNCHANGED <<name, configVars, monitor, watch, services, groupVars, stack, rivalVars,
                   fault>>

(* A publisher of this host cannot take what is registered already. *)
RivalAppears(p, r) ==
    /\ fault = "none"
    /\ Spend
    /\ p[1] < MaxName
    /\ rivals[p] = NoRival
    /\ r.local => p[1] \notin entries[p[2]]
    /\ rivals' = [rivals EXCEPT ![p] = r]
    /\ strangers' = IF r.cookie = "own" THEN strangers ELSE strangers \cup {p}
    /\ UNCHANGED <<name, configVars, monitor, watch, services, groupVars, clientVars,
                   stack, fault>>

RivalLeaves(p) ==
    /\ fault = "none"
    /\ rivals[p] # NoRival
    /\ rivals' = [rivals EXCEPT ![p] = NoRival]
    /\ UNCHANGED <<name, configVars, monitor, watch, services, groupVars, clientVars,
                   stack, strangers, fault, budget>>

Environment ==
    \/ \E s \in Types : GroupSettles(s) \/ GroupFails(s)
    \/ \E c \in ClientStates \ {"connecting"} : ClientChanges(c)
    \/ \E p \in Slots : RivalLeaves(p) \/ \E r \in Rivals : RivalAppears(p, r)

Next ==
    \/ Visit
    \/ Notified
    \/ ClientCb
    \/ \E s \in Types : CommitCb(s) \/ GroupCb(s)
    \/ \E p \in Slots : MonitorNew(p) \/ ServiceFoundCb(p) \/ ServiceRemovedCb(p)
    \/ Call
    \/ Environment

Spec == Init /\ [][Next]_vars

-----------------------------------------------------------------------------
(* What the dispatcher promises. *)

(* The idle handler that commits a group finds the service still announced
   and a live group, however many suspensions, removals, renamings and
   failures of the client came between scheduling and running it
   (epc_service_commit_cb). *)
CommitHasGroup ==
    fault = "none" =>
        \A s \in commits : s \in services /\ group[s] \notin {"none", "freed"}

(* Between two events no group holds records under a name other than the one
   the dispatcher goes by, although renaming may interrupt the very loop that
   publishes (epc_dispatcher_change_name, epc_dispatcher_set_property). *)
OneName ==
    MainLoop => \A s \in Types : entries[s] \subseteq {name}

(* Under the unique strategy the dispatcher waits for its own kind: unless the
   application changes it, the name changes only if somebody with a foreign
   cookie has announced a service under that very name
   (epc_dispatcher_service_found_cb). *)
UniqueKeepsName ==
    [][collisions = "unique" =>
         name' = name \/ budget' # budget \/ \E s \in Types : <<name, s>> \in strangers]_vars

(* No Avahi call is made on a group that was never created. *)
NoNullGroup == fault # "null_group"

(* No Avahi call is made on a group or browser of a client that was freed. *)
NoFreedObject == fault \notin {"freed_group", "freed_browser"}

(* While the monitor waits for the other service of this name to disappear,
   none of our services is announced under the name
   (EPC_COLLISIONS_UNIQUE_SERVICE, dispatcher.h). *)
DeferredIsSilent ==
    (monitor.state = "watching" /\ \E s \in Types : monitor.known[<<name, s>>] # "none"
                                                /\ rivals[<<name, s>>] # NoRival)
        => \A s \in Types : ~(group[s] = "established" /\ name \in entries[s])

-----------------------------------------------------------------------------
(* Liveness. *)

(* The main loop serves what is pending and handlers return; Avahi settles a
   committed group and its browsers report what they see. *)
Fairness ==
    /\ WF_vars(Visit)
    /\ WF_vars(Notified)
    /\ WF_vars(ClientCb)
    /\ \A s \in Types : WF_vars(CommitCb(s)) /\ WF_vars(GroupCb(s))
                        /\ WF_vars(GroupSettles(s))
    /\ \A p \in Slots : WF_vars(MonitorNew(p)) /\ WF_vars(ServiceFoundCb(p))
                        /\ WF_vars(ServiceRemovedCb(p))

FairSpec == Spec /\ Fairness

Announced(s) == group[s] = "established" /\ name \in entries[s]

(* Once the daemon stays up, every service of a running dispatcher ends up
   announced, whatever collisions, renamings and restarts came before. *)
EventuallyAnnounced ==
    \A s \in Types :
        <>[](watch /\ client = "running" /\ s \in services /\ fault = "none")
            => <>[]Announced(s)

(* Deferring ends: when no other service of the name is left, ours is
   announced (EPC_COLLISIONS_UNIQUE_SERVICE, dispatcher.h). *)
DeferredUntilGone ==
    \A s \in Types :
        <>[](/\ watch /\ client = "running" /\ s \in services /\ fault = "none"
             /\ \A t \in Types : rivals[<<name, t>>] = NoRival)
            => <>Announced(s)

=============================================================================

----------------------------- MODULE Publisher -----------------------------
(***************************************************************************)
(* One EpcPublisher (src/libepc/publisher.c): its resources, the life of   *)
(* its HTTP server, the requests it answers, and what it has its           *)
(* dispatchers announce.                                                   *)
(*                                                                         *)
(* The main thread nests: starting the server waits for keys to be         *)
(* generated in a loop of its own, epc_publisher_run waits in another, and *)
(* handlers of the application run under a lock the thread may take again. *)
(* The variable stack holds what the main thread has not returned from,    *)
(* the innermost last; the application may call the publisher at any depth.*)
(* Other threads call the functions that take the lock, when it is free.   *)
(*                                                                         *)
(* The HTTP server (libsoup), its connections and the credentials are not  *)
(* code of this file; they are marked external.                            *)
(***************************************************************************)
EXTENDS Integers, SequencesExt, FiniteSets

CONSTANTS
    Keys,        \* keys resources are published under
    Root,        \* the key NULL: the default resource
    NoKey,       \* no bookmark of the publisher itself
    Sockets,     \* connections of clients
    NoSocket,
    Kinds,       \* handlers used: "static" (contents) or "handler" (custom)
    Calls,       \* groups of calls the application makes
    Hazards,     \* what may happen besides ordinary operation
    MaxData,     \* bound: user data alive at a time
    MaxServers,  \* bound: servers created
    MaxCalls     \* bound: calls of the application

AllCalls == {"resources", "auth", "bookmarks", "run", "settings", "dispose"}

(* quit_early: the application quits while keys are generated; null_name: it
   unsets the name of a running server; new_path: it moves the contents of a
   running server; root_bookmark: it bookmarks the root; relabel: it replaces
   the resource of the default bookmark although that has a label, too;
   nested_release: it replaces or removes a resource from a handler or loop
   nested in the resource's own handler; start_fails: the dispatcher
   cannot run; no_host: the host name is not known; one_file: only one of
   certificate and key was set. *)
AllHazards == {"quit_early", "null_name", "new_path", "root_bookmark", "relabel",
               "nested_release", "start_fails", "no_host", "one_file"}

ASSUME PublisherAssumption ==
    /\ Root \notin Keys
    /\ NoKey \notin Keys \cup {Root}
    /\ NoSocket \notin Sockets
    /\ IsFiniteSet(Keys)
    /\ IsFiniteSet(Sockets)
    /\ Kinds \subseteq {"static", "handler"}
    /\ Calls \subseteq AllCalls
    /\ Hazards \subseteq AllHazards
    /\ MaxData \in Nat
    /\ MaxServers \in Nat
    /\ MaxCalls \in Nat

VARIABLES
    server,      \* priv->server: 0 for NULL, else which server it is
    created,     \* servers created
    started,     \* priv->server_started
    loop,        \* priv->server_loop: "none", "running", or "quit" was called
    auth,        \* priv->server_auth: "none", "basic" or "digest"
    dispatcher,  \* priv->dispatcher: its state and what it announces
    resources,   \* priv->resources and, under Root, priv->default_resource
    bookmark,    \* priv->default_bookmark
    refs,        \* references to the user data of handlers
    named,       \* priv->service_name # NULL
    basic,       \* EPC_AUTH_PASSWORD_TEXT_NEEDED in priv->auth_flags
    path,        \* priv->contents_path
    protocol,    \* priv->protocol
    files,       \* certificate and key files that are set
    clients,     \* priv->clients: handlers running for each known connection
    conn,        \* the request of each connection
    stack,       \* what the main thread has not returned from
    fault,       \* first misbehaviour
    budget       \* calls left

serverVars == <<server, created, started, auth>>
settings == <<named, basic, path, protocol, files>>
contentVars == <<resources, bookmark, refs>>
requestVars == <<clients, conn>>
vars == <<serverVars, loop, dispatcher, contentVars, settings, requestVars, stack, fault,
          budget>>

Data == 1..MaxData
Paths == 1..2
Nowhere == [server |-> 0, path |-> 0]
Places == [server : 0..MaxServers, path : {0} \cup Paths]

NoResource == [kind |-> "none", data |-> 0, auth |-> 0, label |-> FALSE, at |-> Nowhere]
Resources == [kind : {"none", "default"} \cup Kinds, data : {0} \cup Data,
              auth : {0} \cup Data, label : BOOLEAN, at : Places]

NoDispatcher == [state |-> "none", at |-> Nowhere, bookmark |-> NoKey]
NewDispatcher(st) == [NoDispatcher EXCEPT !.state = st]

NoRequest == [state |-> "idle", key |-> NoKey, data |-> 0, server |-> 0, open |-> TRUE]

Frame(op, wait, s, d) == [op |-> op, wait |-> wait, socket |-> s, data |-> d]
Frames == [op : {"create", "run", "auth", "handle"}, wait : BOOLEAN,
           socket : Sockets \cup {NoSocket}, data : {0} \cup Data]

TypeOK ==
    /\ server \in 0..created
    /\ created \in 0..MaxServers
    /\ started \in BOOLEAN
    /\ loop \in {"none", "running", "quit"}
    /\ auth \in {"none", "basic", "digest"}
    /\ dispatcher \in [state : {"none", "failed", "running"}, at : Places,
                       bookmark : Keys \cup {NoKey}]
    /\ resources \in [Keys \cup {Root} -> Resources]
    /\ bookmark \in Keys \cup {NoKey}
    /\ refs \in [Data -> Nat]
    /\ named \in BOOLEAN
    /\ basic \in BOOLEAN
    /\ path \in Paths
    /\ protocol \in {"http", "https"}
    /\ files \subseteq {"certificate", "key"}
    /\ DOMAIN clients \subseteq Sockets
    /\ \A s \in DOMAIN clients : clients[s] \in Nat
    /\ conn \in [Sockets -> [state : {"idle", "auth", "ready", "handling", "sending"},
                             key : Keys \cup {NoKey}, data : {0} \cup Data,
                             server : 0..MaxServers, open : BOOLEAN]]
    /\ stack \in Seq(Frames)
    /\ fault \in {"none", "silent", "assert", "freed_file"}
    /\ budget \in 0..MaxCalls

(* What epc_publisher_init leaves, followed by the construct properties. *)
Fresh ==
    /\ resources' = [k \in Keys \cup {Root} |-> NoResource]
    /\ bookmark' = NoKey
    /\ named' = TRUE
    /\ basic' = FALSE
    /\ path' = 1
    /\ protocol' = "https"
    /\ files' = {}

Init ==
    /\ server = 0
    /\ created = 0
    /\ started = FALSE
    /\ loop = "none"
    /\ auth = "none"
    /\ dispatcher = NoDispatcher
    /\ resources = [k \in Keys \cup {Root} |-> NoResource]
    /\ bookmark = NoKey
    /\ refs = [d \in Data |-> 0]
    /\ named = TRUE
    /\ basic = FALSE
    /\ path = 1
    /\ protocol = "https"
    /\ files = {}
    /\ clients = <<>>
    /\ conn = [s \in Sockets |-> NoRequest]
    /\ stack = <<>>
    /\ fault = "none"
    /\ budget = MaxCalls

-----------------------------------------------------------------------------
(* The lock, the main thread and its loops. *)

Spend == fault = "none" /\ budget > 0 /\ budget' = budget - 1

Holders == {i \in 1..Len(stack) : stack[i].op \in {"auth", "handle"}}

Creating == {i \in 1..Len(stack) : stack[i].op = "create"}

(* Mutant: handlers run without the lock. *)
LockUnused == TRUE

(* No handler runs, so another thread gets epc_publisher_lock. *)
LockFree == Holders = {}

(* The main thread is in one of its loops and takes the next request. *)
Dispatching ==
    /\ fault = "none"
    /\ stack # <<>> => Last(stack).op \in {"run", "create"}

(* Mutant: the data of the handler for authentication are forgotten. *)
ReleasedContents(r) == [d \in Data |-> IF d = r.data THEN refs[d] - 1 ELSE refs[d]]

(* Mutant: removing frees the resource once more than its table does. *)
ReleasedTwice(r) ==
    [d \in Data |-> IF d \in {r.data, r.auth} THEN refs[d] - 2 ELSE refs[d]]

(* The references left once a resource has been freed. *)
Released(r) ==
    [d \in Data |-> IF d \in {r.data, r.auth} THEN refs[d] - 1 ELSE refs[d]]

(* The innermost handler knows when a call it makes itself drops its data; the
   handlers around it do not, nor does a handler that loses them to another
   thread. *)
DropsData(own, gone) ==
    /\ (own /\ \E i \in 1..(Len(stack) - 1) : stack[i].data \in gone \ {0})
           => "nested_release" \in Hazards
    /\ stack' = IF own /\ stack # <<>> /\ Last(stack).data \in gone \ {0}
                THEN [stack EXCEPT ![Len(stack)].data = 0]
                ELSE stack

(* User data that are not in use. *)
NewData == {d \in Data : refs[d] = 0 /\ \A e \in 1..(d - 1) : refs[e] # 0}

-----------------------------------------------------------------------------
(* epc_publisher_announce: the publisher's dispatcher announces the service
   and the default bookmark unless its resource has a dispatcher itself, and
   every dispatcher of a resource announces that one. *)

Place(sv) == [server |-> sv, path |-> path]

Announced(sv, res) ==
    [k \in Keys \cup {Root} |->
       IF k # Root /\ res[k].label THEN [res[k] EXCEPT !.at = Place(sv)] ELSE res[k]]

(* Mutant: a default bookmark that is gone is not withdrawn. *)
AnnouncingMore(disp, sv, res, b) ==
    IF disp.state = "none" THEN disp
    ELSE [state |-> disp.state, at |-> Place(sv),
          bookmark |-> IF b # NoKey /\ res[b].kind # "none" /\ ~res[b].label
                       THEN b ELSE disp.bookmark]

Announcing(disp, sv, res, b) ==
    IF disp.state = "none" THEN disp
    ELSE [state |-> disp.state, at |-> Place(sv),
          bookmark |-> IF b # NoKey /\ res[b].kind # "none" /\ ~res[b].label
                       THEN b ELSE NoKey]

(* The calls below announce anew if there is a server. *)
Announce(res, b) ==
    IF server = 0
    THEN resources' = res /\ UNCHANGED dispatcher
    ELSE resources' = Announced(server, res) /\ dispatcher' = Announcing(dispatcher, server, res, b)

-----------------------------------------------------------------------------
(* Calls that take the lock, from the main thread (own) or another one. *)

(* epc_publisher_add_handler, also for epc_publisher_add and _add_file. *)
AddHandler(k, kind, own) ==
    /\ (server # 0 /\ bookmark = k /\ resources[k].label) => "relabel" \in Hazards
    /\ \E d \in NewData :
         /\ resources' = [resources EXCEPT ![k] = [NoResource EXCEPT !.kind = kind, !.data = d]]
         /\ refs' = [Released(resources[k]) EXCEPT ![d] = 1]
    /\ DropsData(own, {resources[k].data, resources[k].auth})
    /\ UNCHANGED <<bookmark, dispatcher>>

(* epc_publisher_remove. *)
RemoveKey(k, own) ==
    /\ resources[k].kind # "none"
    /\ refs' = Released(resources[k])
    /\ DropsData(own, {resources[k].data, resources[k].auth})
    /\ IF bookmark = k
       THEN /\ bookmark' = NoKey
            /\ resources' = [(IF server = 0 THEN resources ELSE Announced(server, resources))
                               EXCEPT ![k] = NoResource]
            /\ dispatcher' = IF server = 0 THEN dispatcher
                             ELSE Announcing(dispatcher, server, resources, NoKey)
       ELSE /\ resources' = [resources EXCEPT ![k] = NoResource]
            /\ UNCHANGED <<bookmark, dispatcher>>

(* epc_publisher_find_resource: the default resource is made when needed. *)
Findable(k) == k = Root \/ resources[k].kind # "none"

Found(k) ==
    IF resources[k].kind = "none" THEN [NoResource EXCEPT !.kind = "default"]
    ELSE resources[k]

(* epc_publisher_set_auth_handler. *)
SetAuthHandler(k, own) ==
    /\ Findable(k)
    /\ \E d \in NewData :
         /\ resources' = [resources EXCEPT ![k] = [Found(k) EXCEPT !.auth = d]]
         /\ refs' = [Released([data |-> 0, auth |-> resources[k].auth]) EXCEPT ![d] = 1]
    /\ DropsData(own, {resources[k].auth})
    /\ UNCHANGED <<bookmark, dispatcher>>

(* epc_publisher_add_bookmark with a label, or without. *)
AddBookmark(k, labelled) ==
    /\ Findable(k)
    /\ k = Root => "root_bookmark" \in Hazards
    /\ bookmark' = IF labelled THEN bookmark ELSE IF k = Root THEN NoKey ELSE k
    /\ Announce([resources EXCEPT ![k] = [Found(k) EXCEPT !.label = @ \/ labelled]], bookmark')
    /\ UNCHANGED <<refs, stack>>

LockedCall ==
    /\ Spend
    /\ \E own \in BOOLEAN :
         /\ own \/ LockFree
         /\ \/ /\ "resources" \in Calls
               /\ \E k \in Keys : RemoveKey(k, own) \/ \E kind \in Kinds : AddHandler(k, kind, own)
            \/ /\ "auth" \in Calls
               /\ \E k \in Keys \cup {Root} : SetAuthHandler(k, own)
            \/ /\ "bookmarks" \in Calls
               /\ \E k \in Keys \cup {Root}, labelled \in BOOLEAN : AddBookmark(k, labelled)
    /\ UNCHANGED <<serverVars, loop, settings, requestVars, fault>>

-----------------------------------------------------------------------------
(* Starting the server. *)

(* epc_publisher_install_handlers, with a service name or without. *)
AuthDomain(name) == IF basic' THEN "basic" ELSE IF name THEN "digest" ELSE "none"

(* Mutant: a nested run replaces the loop that waits already. *)
EnterAnew(frames, wait) ==
    /\ started' = TRUE
    /\ IF wait
       THEN loop' = "running" /\ stack' = Append(frames, Frame("run", FALSE, NoSocket, 0))
       ELSE stack' = frames /\ UNCHANGED loop

(* The end of epc_publisher_run_async, and epc_publisher_run. *)
Enter(frames, wait) ==
    /\ started' = TRUE
    /\ IF wait /\ loop = "none"
       THEN loop' = "running" /\ stack' = Append(frames, Frame("run", FALSE, NoSocket, 0))
       ELSE stack' = frames /\ UNCHANGED loop

(* epc_publisher_create_server, once the credentials are settled.  Handlers
   already installed are asserted not to be there. *)
Serve(frames, wait) ==
    /\ created' = created + 1
    /\ server' = created'
    /\ auth' = AuthDomain(named')
    /\ resources' = Announced(server', resources)
    /\ Enter(frames, wait)

(* There is a server already. *)
RunAgain(wait) ==
    /\ server # 0
    /\ Enter(stack, wait)
    /\ UNCHANGED <<server, created, auth, dispatcher, contentVars, settings, fault>>

(* The dispatcher of a failed or unfinished start is in the way. *)
RunRefused ==
    /\ server = 0
    /\ dispatcher.state # "none"
    /\ fault' = "silent"
    /\ UNCHANGED <<serverVars, loop, dispatcher, contentVars, settings, stack>>

RunFails ==
    /\ "start_fails" \in Hazards
    /\ server = 0
    /\ dispatcher.state = "none"
    /\ dispatcher' = NewDispatcher("failed")
    /\ named' = TRUE
    /\ UNCHANGED <<serverVars, loop, contentVars, basic, path, protocol, files, stack, fault>>

(* epc_publisher_create_server up to the credentials.  Looking for them with
   one file set fails at once, after both names were freed. *)
CreateServer(wait) ==
    /\ server = 0
    /\ dispatcher.state = "none"
    /\ created + Cardinality(Creating) < MaxServers
    /\ named' = TRUE
    /\ UNCHANGED <<bookmark, refs, basic, path, files>>
    /\ \/ /\ protocol = "https"
          /\ files = {}
          /\ dispatcher' = NewDispatcher("running")
          /\ stack' = Append(stack, Frame("create", wait, NoSocket, 0))
          /\ UNCHANGED <<serverVars, loop, resources, protocol, fault>>
       \/ /\ protocol = "https" => files # {}
          /\ Serve(stack, wait)
          /\ dispatcher' = Announcing(NewDispatcher("running"), server', resources, bookmark)
          /\ IF protocol = "https" /\ files # {"certificate", "key"}
             THEN protocol' = "http" /\ fault' = "freed_file"
             ELSE UNCHANGED <<protocol, fault>>

(* The credentials are there, or not, and the server starts. *)
CreateEnds ==
    /\ fault = "none"
    /\ stack # <<>>
    /\ Last(stack).op = "create"
    /\ \/ files' = {"certificate", "key"} /\ UNCHANGED protocol
       \/ files' = {} /\ protocol' = "http"
       \/ files' = {} /\ "no_host" \in Hazards /\ UNCHANGED protocol
    /\ UNCHANGED <<named, basic, path>>
    /\ Serve(Front(stack), Last(stack).wait)
    /\ dispatcher' = Announcing(dispatcher, server', resources, bookmark)
    /\ fault' = IF auth # "none" THEN "assert" ELSE fault
    /\ UNCHANGED <<bookmark, refs, requestVars, budget>>

Run ==
    /\ "run" \in Calls
    /\ Spend
    /\ \E wait \in BOOLEAN : RunAgain(wait) \/ CreateServer(wait)
    /\ UNCHANGED requestVars

RunInVain ==
    /\ "run" \in Calls
    /\ Spend
    /\ RunRefused \/ RunFails
    /\ UNCHANGED requestVars

(* g_main_loop_run returns after g_main_loop_quit. *)
LoopEnds ==
    /\ fault = "none"
    /\ stack # <<>>
    /\ Last(stack).op = "run"
    /\ loop = "quit"
    /\ loop' = "none"
    /\ stack' = Front(stack)
    /\ UNCHANGED <<serverVars, dispatcher, contentVars, settings, requestVars, fault, budget>>

-----------------------------------------------------------------------------
(* Stopping it. *)

(* epc_publisher_disconnect_idle_cb. *)
IdleClients == {s \in DOMAIN clients : clients[s] <= 1}

(* Mutant: the server is left to the loop that waits for it. *)
StopLoop ==
    /\ auth' = "none"
    /\ server' = IF loop = "none" THEN 0 ELSE server
    /\ started' = FALSE
    /\ dispatcher' = NoDispatcher
    /\ loop' = IF loop = "none" THEN "none" ELSE "quit"
    /\ UNCHANGED conn

(* epc_publisher_quit: connections taken for idle are closed, although a request may
   be under way. *)
Stop ==
    /\ auth' = "none"
    /\ server' = 0
    /\ started' = FALSE
    /\ dispatcher' = NoDispatcher
    /\ loop' = IF loop = "none" THEN "none" ELSE "quit"
    /\ conn' = [s \in Sockets |->
                  IF s \in IdleClients /\ conn[s] # NoRequest
                  THEN [conn[s] EXCEPT !.open = FALSE] ELSE conn[s]]

(* A closed connection without request is followed by a new one at once. *)
Reconnecting == {s \in IdleClients : conn[s] = NoRequest}

Quit ==
    /\ "run" \in Calls
    /\ Spend
    /\ Creating # {} => "quit_early" \in Hazards
    /\ Stop
    /\ clients' = [s \in DOMAIN clients \ Reconnecting |-> clients[s]]
    /\ UNCHANGED <<created, contentVars, settings, stack, fault>>

(* epc_publisher_dispose; the next publisher starts afresh. *)
Dispose ==
    /\ "dispose" \in Calls
    /\ Spend
    /\ stack = <<>>
    /\ Stop
    /\ Fresh
    /\ refs' = [d \in Data |->
                  IF \E k \in Keys \cup {Root} : d \in {resources[k].data, resources[k].auth}
                  THEN refs[d] - 1 ELSE refs[d]]
    /\ clients' = <<>>
    /\ UNCHANGED <<created, stack, fault>>

-----------------------------------------------------------------------------
(* Settings. *)

(* Handlers are removed and installed again if there is a server. *)
Reinstall(name) == auth' = IF server = 0 THEN auth ELSE AuthDomain(name)

(* epc_publisher_real_set_service_name; without a name the handlers are
   installed first, then one is computed if there is a dispatcher to tell. *)
SetServiceName(null) ==
    /\ null => "null_name" \in Hazards
    /\ named' = (~null \/ dispatcher.state # "none")
    /\ UNCHANGED basic
    /\ Reinstall(~null)
    /\ UNCHANGED <<path, protocol, files>>

(* epc_publisher_real_set_auth_flags. *)
SetAuthFlags(text) ==
    /\ basic' = (text /\ protocol = "https")
    /\ UNCHANGED named
    /\ Reinstall(named)
    /\ UNCHANGED <<path, protocol, files>>

(* epc_publisher_real_set_contents_path. *)
SetContentsPath(p) ==
    /\ p # path
    /\ server # 0 => "new_path" \in Hazards
    /\ path' = p
    /\ UNCHANGED <<named, basic>>
    /\ Reinstall(named)
    /\ UNCHANGED <<protocol, files>>

(* The properties that are refused once there is a server. *)
SetProtocol(p) ==
    /\ server = 0
    /\ protocol' = p
    /\ UNCHANGED <<named, basic, path, files, auth>>

SetFile(f) ==
    /\ server = 0
    /\ "one_file" \in Hazards
    /\ files' = files \cup {f}
    /\ UNCHANGED <<named, basic, path, protocol, auth>>

SetProperty ==
    /\ "settings" \in Calls
    /\ Spend
    /\ \/ \E null \in BOOLEAN : SetServiceName(null)
       \/ \E text \in BOOLEAN : SetAuthFlags(text)
       \/ \E p \in Paths : SetContentsPath(p)
       \/ \E p \in {"http", "https"} : SetProtocol(p)
       \/ \E f \in {"certificate", "key"} : SetFile(f)
    /\ UNCHANGED <<server, created, started, loop, dispatcher, contentVars, requestVars,
                   stack, fault>>

-----------------------------------------------------------------------------
(* Requests. *)

(* epc_auth_context_init: the handler of the resource, or of the default one
   for a key without resource. *)
AuthOf(k) ==
    IF resources[k].kind # "none" THEN resources[k].auth ELSE resources[Root].auth

(* The answer of s has been sent or given up (external); a connection that
   was closed is followed by a new one. *)
Ended(s) ==
    /\ conn' = [conn EXCEPT ![s] = NoRequest]
    /\ clients' = IF conn[s].open THEN clients
                  ELSE [t \in DOMAIN clients \ {s} |-> clients[t]]

(* A request arrives; epc_publisher_auth_filter decides whether the handler
   for its authentication has to be asked. *)
Request(s, k) ==
    /\ Dispatching
    /\ server # 0
    /\ conn[s] = NoRequest
    /\ LET asked == auth # "none" /\ AuthOf(k) # 0 IN
       /\ conn' = [conn EXCEPT ![s] = [state |-> IF asked THEN "auth" ELSE "ready",
                                       key |-> k, data |-> 0, server |-> server,
                                       open |-> TRUE]]
       /\ stack' = IF asked THEN Append(stack, Frame("auth", FALSE, s, AuthOf(k))) ELSE stack
    /\ UNCHANGED <<serverVars, loop, dispatcher, contentVars, settings, clients, fault, budget>>

(* epc_publisher_basic_auth_cb or epc_publisher_generic_auth_cb returns. *)
AuthReturns ==
    /\ fault = "none"
    /\ stack # <<>>
    /\ Last(stack).op = "auth"
    /\ stack' = Front(stack)
    /\ \/ conn' = [conn EXCEPT ![Last(stack).socket].state = "ready"] /\ UNCHANGED clients
       \/ Ended(Last(stack).socket)
    /\ UNCHANGED <<serverVars, loop, dispatcher, contentVars, settings, fault, budget>>

(* The server of the request is gone, and its handlers with it (external). *)
Unhandled(s) ==
    /\ Dispatching
    /\ conn[s].state = "ready"
    /\ conn[s].server # server \/ ~conn[s].open
    /\ Ended(s)
    /\ UNCHANGED <<serverVars, loop, dispatcher, contentVars, settings, stack, fault, budget>>

Tag(s) == IF s \in DOMAIN clients THEN clients[s] ELSE 0

(* Mutant: a client is tracked, but not untracked. *)
TaggedOnly(s, n) ==
    [t \in DOMAIN clients \cup {s} |-> IF t # s \/ n < Tag(s) THEN clients[t] ELSE n]

(* epc_publisher_track_client and _untrack_client set the tag of s to n. *)
Tagged(s, n) == [t \in DOMAIN clients \cup {s} |-> IF t = s THEN n ELSE clients[t]]

(* epc_publisher_handle_contents up to the call of the resource's handler.
   The built-in handlers return at once: nothing was found (as after the
   requests for "/" and "/list"), or the contents get one more reference. *)
Handle(s) ==
    /\ Dispatching
    /\ conn[s].state = "ready"
    /\ conn[s].open
    /\ conn[s].server = server
    /\ LET r == resources[conn[s].key] IN
       \/ /\ r.kind = "none"
          /\ clients' = Tagged(s, Tag(s))
          /\ conn' = [conn EXCEPT ![s] = NoRequest]
          /\ UNCHANGED <<refs, stack>>
       \/ /\ r.kind = "static"
          /\ clients' = Tagged(s, Tag(s))
          /\ conn' = [conn EXCEPT ![s].state = "sending", ![s].data = r.data]
          /\ refs' = [refs EXCEPT ![r.data] = @ + 1]
          /\ UNCHANGED stack
       \/ /\ r.kind = "handler"
          /\ clients' = Tagged(s, Tag(s) + 1)
          /\ conn' = [conn EXCEPT ![s].state = "handling"]
          /\ stack' = Append(stack, Frame("handle", FALSE, s, r.data))
          /\ UNCHANGED refs
    /\ UNCHANGED <<serverVars, loop, dispatcher, resources, bookmark, settings, fault, budget>>

(* The handler returns contents of its own, or none; a client of a server
   that was stopped meanwhile is cut off (epc_publisher_check_client). *)
HandlerReturns ==
    /\ fault = "none"
    /\ stack # <<>>
    /\ Last(stack).op = "handle"
    /\ stack' = Front(stack)
    /\ LET s == Last(stack).socket IN
       /\ clients' = IF conn[s].server = server THEN Tagged(s, Tag(s) - 1) ELSE clients
       /\ conn' = [conn EXCEPT ![s].state = "sending",
                               ![s].open = @ /\ conn[s].server = server]
    /\ UNCHANGED <<serverVars, loop, dispatcher, contentVars, settings, fault, budget>>

(* The message is finished and drops its reference to the contents. *)
Finish(s) ==
    /\ Dispatching
    /\ conn[s].state = "sending"
    /\ refs' = [d \in Data |-> IF d = conn[s].data THEN refs[d] - 1 ELSE refs[d]]
    /\ Ended(s)
    /\ UNCHANGED <<serverVars, loop, dispatcher, resources, bookmark, settings, stack, fault,
                   budget>>

Next ==
    \/ LockedCall
    \/ Run
    \/ RunInVain
    \/ Quit
    \/ Dispose
    \/ SetProperty
    \/ CreateEnds
    \/ LoopEnds
    \/ AuthReturns
    \/ HandlerReturns
    \/ \E s \in Sockets : Unhandled(s) \/ Handle(s) \/ Finish(s)
                          \/ \E k \in Keys : Request(s, k)

Spec == Init /\ [][Next]_vars

-----------------------------------------------------------------------------
(* What the publisher promises. *)

Referenced(d) ==
    Cardinality({k \in Keys \cup {Root} : resources[k].data = d})
    + Cardinality({k \in Keys \cup {Root} : resources[k].auth = d})
    + Cardinality({s \in Sockets : conn[s].data = d})

(* The user data of every handler have exactly as many references as there are
   resources and unfinished answers that use them: replacing, removing and
   disposing neither free contents that are still being sent nor forget any
   (epc_resource_free, epc_publisher_handle_static, the "finished" signal). *)
RefsExact == \A d \in Data : refs[d] = Referenced(d)

(* While a handler runs, its data keep an owner unless it drops them by a call
   of its own: other threads wait for the lock, and quitting, restarting and
   answering other requests meanwhile release nothing of it
   (epc_publisher_track_client, epc_publisher_basic_auth_cb).  An application
   that drops them from a deeper call is the hazard nested_release. *)
HandlerDataLive ==
    \A i \in Holders : stack[i].data # 0 => refs[stack[i].data] > 0

(* The tag of an open connection counts the handlers running for it, so that
   a connection nobody works for is taken for idle and closed when the server
   stops (epc_publisher_untrack_client, epc_publisher_disconnect_idle_cb). *)
TagsExact ==
    \A s \in DOMAIN clients : conn[s].open =>
        clients[s] = Cardinality({i \in Holders : stack[i].op = "handle" /\ stack[i].socket = s})

(* A server that takes requests is announced where it is, and asks for
   authentication ("it automatically publishes its contact information",
   epc_publisher_announce, epc_publisher_install_handlers). *)
ServingIsAnnounced ==
    server # 0 => /\ dispatcher.state = "running"
                  /\ dispatcher.at = Place(server)
                  /\ auth # "none"

(* The bookmarks that are announced are those of the resources there are: every
   labelled resource has one that leads to the present server, and the default
   bookmark is announced by the publisher or by its own resource
   (epc_publisher_announce). *)
BookmarksServed ==
    server # 0 =>
        /\ \A k \in Keys \cup {Root} : resources[k].label => resources[k].at = Place(server)
        /\ bookmark # NoKey => resources[bookmark].label \/ dispatcher.bookmark = bookmark
        /\ dispatcher.bookmark # NoKey => resources[dispatcher.bookmark].kind # "none"

(* No bookmark leads to a server that was stopped ("Stops the server component
   of the #EpcPublisher", epc_publisher_quit). *)
NoDeadBookmarks ==
    \A k \in Keys : resources[k].at.server \in {0, server}

(* A start that fails says why ("the function returns %FALSE and sets @error",
   epc_publisher_run). *)
FailureHasError == fault # "silent"

-----------------------------------------------------------------------------
(* Liveness. *)

(* Handlers return, keys get generated, and a main loop that was told to quit
   ends after what it is dispatching, however often that starts another. *)
Fairness ==
    /\ WF_vars(AuthReturns)
    /\ WF_vars(HandlerReturns)
    /\ WF_vars(CreateEnds)
    /\ SF_vars(LoopEnds)

FairSpec == Spec /\ Fairness

(* epc_publisher_run returns once the publisher has quit, whatever handlers and
   nested calls were under way. *)
QuitEndsRun == (loop = "quit" /\ fault = "none") ~> (loop = "none" \/ fault # "none")

=============================================================================

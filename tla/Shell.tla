------------------------------- MODULE Shell -------------------------------
(***************************************************************************)
(* The shared Avahi client of the library and the callbacks that watch it  *)
(* (src/libepc/shell.c).  The module keeps one AvahiClient, an array of    *)
(* watches searched by identifier, and a flag that refuses a restart of    *)
(* the client while the watches are being called.                          *)
(*                                                                         *)
(* Everything runs in one main loop.  The only interleaving is re-entrance:*)
(* a watch that is being called may itself call into the shell, so Watch,  *)
(* WatchRemove and RestartAvahiClient are enabled between two iterations   *)
(* of the notification loop, where they are what the callback just called  *)
(* does.                                                                   *)
(***************************************************************************)
EXTENDS Integers, SequencesExt

CONSTANTS
    Watchers,        \* users of epc_shell_watch_avahi_client_state
    FirstStates,     \* states avahi_client_new may report to the callback
    LaterStates,     \* states the daemon may report afterwards
    CallbacksRemove, \* may a watch be removed by a callback being notified?
    InitialReserve,  \* watches the array holds before it is reallocated
    StaleIds,        \* identifiers read from the block realloc has freed
    MaxClients,      \* bound: clients created
    MaxWatches,      \* bound: watches registered at a time
    MaxId            \* bound: largest identifier

ASSUME ShellAssumption ==
    /\ FirstStates \subseteq {"connecting", "registering", "running", "collision"}
    /\ LaterStates \subseteq {"registering", "running", "collision", "failure"}
    /\ CallbacksRemove \in BOOLEAN
    /\ InitialReserve \in Nat \ {0}
    /\ StaleIds \subseteq Nat
    /\ MaxClients \in Nat
    /\ MaxWatches \in Nat
    /\ MaxId \in Nat

VARIABLES
    client,    \* epc_shell_avahi_client: 0 for NULL, else which client it is
    created,   \* how many clients avahi_client_new has returned
    state,     \* avahi_client_get_state of the client
    allowed,   \* epc_shell_restart_avahi_client_allowed
    watches,   \* epc_shell_watches: the identifier and the user of each entry
    reserved,  \* watches the memory block of the array has room for
    held,      \* the identifier each watcher was given, 0 for none
    loop,      \* the notification loop of epc_shell_avahi_client_cb
    seen       \* the state each watcher was last told

vars == <<client, created, state, allowed, watches, reserved, held, loop, seen>>

States == FirstStates \cup LaterStates \cup {"unknown"}

Idle == [active |-> FALSE, client |-> 0, state |-> "unknown", at |-> 0]

TypeOK ==
    /\ client \in 0..created
    /\ created \in 0..MaxClients
    /\ state \in States
    /\ allowed \in BOOLEAN
    /\ watches \in Seq([id : Nat, owner : Watchers])
    /\ reserved \in Nat
    /\ held \in [Watchers -> Nat]
    /\ loop \in [active : BOOLEAN, client : Nat, state : States, at : Nat]
    /\ seen \in [Watchers -> States]

Init ==
    /\ client = 0
    /\ created = 0
    /\ state = "unknown"
    /\ allowed = TRUE
    /\ watches = <<>>
    /\ reserved = InitialReserve
    /\ held = [w \in Watchers |-> 0]
    /\ loop = Idle
    /\ seen = [w \in Watchers |-> "unknown"]

-----------------------------------------------------------------------------
(* The array of watches. *)

(* Mutant: the number of entries taken for the last identifier. *)
LastIdsByCount == {Len(watches)}

(* The last entry is read through a pointer taken before the array grew: if
   growing moved the array, what is read is whatever the freed block holds. *)
LastIds ==
    IF watches = <<>> THEN {0}
    ELSE {watches[Len(watches)].id} \cup
         (IF Len(watches) < reserved THEN {} ELSE StaleIds)

WatchAdd(w, id) ==
    /\ watches' = Append(watches, [id |-> id, owner |-> w])
    /\ reserved' = IF Len(watches) < reserved THEN reserved ELSE 2 * reserved

(* Positions the search visits: from MIN (id, len) to the end, never below. *)
Searched(id) ==
    {i \in 1..Len(watches) : i >= id \/ i = Len(watches)}

(* Mutant: the identifier of the entry is not compared. *)
FoundAnywhere(id) == Searched(id)

Found(id) == {i \in Searched(id) : watches[i].id = id}

-----------------------------------------------------------------------------
(* epc_shell_avahi_client_cb. *)

(* Mutant: the loop starts one entry too early. *)
ClientCallbackEarly(c, s) ==
    /\ client' = c
    /\ state' = s
    /\ allowed' = FALSE
    /\ loop' = [active |-> TRUE, client |-> c, state |-> s, at |-> -1]

(* Mutant: the loop skips the first entry. *)
ClientCallbackLate(c, s) ==
    /\ client' = c
    /\ state' = s
    /\ allowed' = FALSE
    /\ loop' = [active |-> TRUE, client |-> c, state |-> s, at |-> 1]

(* Mutant: the client may be restarted while the loop runs. *)
ClientCallbackRestartable(c, s) ==
    /\ client' = c
    /\ state' = s
    /\ allowed' = TRUE
    /\ loop' = [active |-> TRUE, client |-> c, state |-> s, at |-> 0]

(* The callback stores the client, forbids restarts and starts its loop. *)
ClientCallback(c, s) ==
    /\ client' = c
    /\ state' = s
    /\ allowed' = FALSE
    /\ loop' = [active |-> TRUE, client |-> c, state |-> s, at |-> 0]

(* One iteration: the length is read again, so entries added meanwhile are
   visited, and entries moved to a lower index by a removal are not. *)
NotifyNext ==
    /\ loop.active
    /\ loop.at < Len(watches)
    /\ loop' = [loop EXCEPT !.at = @ + 1]
    /\ seen' = [seen EXCEPT ![watches[loop.at + 1].owner] = loop.state]
    /\ UNCHANGED <<client, created, state, allowed, watches, reserved, held>>

(* avahi_client_new calls the callback before it returns, or fails. *)
NewClient ==
    \/ /\ client' = 0
       /\ state' = "unknown"
       /\ allowed' = TRUE
       /\ loop' = Idle
       /\ UNCHANGED created
    \/ /\ created < MaxClients
       /\ created' = created + 1
       /\ \E s \in FirstStates : ClientCallback(created + 1, s)

EndNotify ==
    /\ loop.active
    /\ loop.at >= Len(watches)
    /\ IF loop.state = "failure"
       THEN NewClient
       ELSE /\ allowed' = TRUE
            /\ loop' = Idle
            /\ UNCHANGED <<client, created, state>>
    /\ UNCHANGED <<watches, reserved, held, seen>>

(* The daemon changes state; the main loop runs the callback. *)
DaemonState(s) ==
    /\ ~loop.active
    /\ client # 0
    /\ s # state
    /\ ClientCallback(client, s)
    /\ UNCHANGED <<created, watches, reserved, held, seen>>

-----------------------------------------------------------------------------
(* The public operations. *)

(* epc_shell_get_avahi_client, as the first step of every operation that
   needs the client. *)
GetAvahiClient ==
    /\ ~loop.active
    /\ client = 0
    /\ NewClient
    /\ UNCHANGED <<watches, reserved, held, seen>>

(* epc_shell_watch_avahi_client_state, once there is a client. *)
Watch(w) ==
    /\ client # 0
    /\ held[w] = 0
    /\ Len(watches) < MaxWatches
    /\ \E last \in LastIds :
         /\ last < MaxId
         /\ WatchAdd(w, last + 1)
         /\ held' = [held EXCEPT ![w] = last + 1]
    /\ seen' = [seen EXCEPT ![w] = state]
    /\ UNCHANGED <<client, created, state, allowed, loop>>

(* epc_shell_watch_remove. *)
WatchRemove(w) ==
    /\ held[w] # 0
    /\ loop.active => CallbacksRemove
    /\ held' = [held EXCEPT ![w] = 0]
    /\ IF Found(held[w]) = {}
       THEN UNCHANGED watches
       ELSE \E i \in Found(held[w]) :
              /\ \A j \in Found(held[w]) : i <= j
              /\ watches' = RemoveAt(watches, i)
    /\ UNCHANGED <<client, created, state, allowed, reserved, loop, seen>>

(* epc_shell_restart_avahi_client, refused while watches are being called. *)
RestartAvahiClient ==
    /\ allowed
    /\ NewClient
    /\ UNCHANGED <<watches, reserved, held, seen>>

Next ==
    \/ NotifyNext
    \/ EndNotify
    \/ \E s \in LaterStates : DaemonState(s)
    \/ GetAvahiClient
    \/ \E w \in Watchers : Watch(w) \/ WatchRemove(w)
    \/ RestartAvahiClient

Spec == Init /\ [][Next]_vars

-----------------------------------------------------------------------------
(* What the shell promises. *)

(* Identifiers grow along the array, so no two registered watches share one
   and an identifier names at most one callback, whatever sequence of
   additions and removals built the array (epc_shell_watch_add). *)
IdsIncrease ==
    \A i, j \in 1..Len(watches) : i < j => watches[i].id < watches[j].id

(* A watcher that has not removed its watch is still registered under the
   identifier it was given: no removal takes away somebody else's entry
   (epc_shell_watch_remove). *)
HeldIsRegistered ==
    \A w \in Watchers : held[w] # 0 =>
        \E i \in 1..Len(watches) : watches[i] = [id |-> held[w], owner |-> w]

(* Every entry of the array belongs to a watcher that still holds it, so the
   loop never calls a callback its user has removed ("Removes the watching
   callback identified by @id", epc_shell_watch_remove). *)
RegisteredIsHeld ==
    \A i \in 1..Len(watches) : held[watches[i].owner] = watches[i].id

(* The client handed to the watches stays until the last one was called: no
   callback can have it freed and replaced under the callbacks still to be
   called (restart_avahi_client_allowed, epc_shell_avahi_client_cb). *)
ClientStaysDuringNotify ==
    [][(loop.active /\ loop.at < Len(watches)) => client' = client]_vars

(* Between two events every registered watcher has been told the state the
   client is in: those present when it changed by the loop, those that came
   later by the call that registered them. *)
WatchersKnowState ==
    (~loop.active /\ client # 0) =>
        \A w \in Watchers : held[w] # 0 => seen[w] = state

(* A failed client is freed only after every watcher was told of the failure
   (the comment on the restart in epc_shell_avahi_client_cb). *)
FailureToldBeforeFree ==
    [][(client # 0 /\ client' # client /\ state = "failure") =>
         \A w \in Watchers : held[w] # 0 => seen[w] = "failure"]_vars

=============================================================================

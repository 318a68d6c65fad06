---------------------------- MODULE ShellProofs ----------------------------
(***************************************************************************)
(* Theorems about the shell.  Two arguments: the client seen by a running  *)
(* notification loop needs only the restart flag; the array of watches     *)
(* needs that its identifiers increase, which is what makes the search for *)
(* an identifier find at most one entry.                                   *)
(***************************************************************************)
EXTENDS Shell, SequenceTheorems, TLAPS

(* RemoveAt of the community modules drops one element and moves the later
   ones down (g_array_remove_index). *)
LEMMA RemoveAtProperties ==
    ASSUME NEW S, NEW s \in Seq(S), NEW i \in 1..Len(s)
    PROVE  /\ RemoveAt(s, i) \in Seq(S)
           /\ Len(RemoveAt(s, i)) = Len(s) - 1
           /\ \A j \in 1..(Len(s) - 1) :
                RemoveAt(s, i)[j] = IF j < i THEN s[j] ELSE s[j + 1]
  <1> DEFINE front == SubSeq(s, 1, i - 1)
             back == SubSeq(s, i + 1, Len(s))
  <1>1. Len(s) \in Nat /\ \A j \in 1..Len(s) : s[j] \in S
    BY LenProperties, ElementOfSeq
  <1>2. /\ front \in Seq(S)
        /\ Len(front) = i - 1
        /\ \A j \in 1..(i - 1) : front[j] = s[j]
    BY <1>1, SubSeqProperties
  <1>3. /\ back \in Seq(S)
        /\ Len(back) = Len(s) - i
        /\ \A j \in 1..(Len(s) - i) : back[j] = s[i + j]
    BY <1>1, SubSeqProperties
  <1>4. RemoveAt(s, i) = front \o back
    BY DEF RemoveAt
  <1>5. /\ front \o back \in Seq(S)
        /\ Len(front \o back) = Len(s) - 1
        /\ \A j \in 1..(Len(s) - 1) :
             (front \o back)[j] = IF j <= i - 1 THEN front[j] ELSE back[j - (i - 1)]
    <2> HIDE DEF front, back
    <2>1. QED  BY <1>1, <1>2, <1>3, ConcatProperties
  <1>6. \A j \in 1..(Len(s) - 1) :
          (front \o back)[j] = IF j < i THEN s[j] ELSE s[j + 1]
    <2> HIDE DEF front, back
    <2> SUFFICES ASSUME NEW j \in 1..(Len(s) - 1)
                 PROVE  (front \o back)[j] = IF j < i THEN s[j] ELSE s[j + 1]
      OBVIOUS
    <2>1. CASE j < i
      BY <2>1, <1>1, <1>2, <1>5
    <2>2. CASE ~(j < i)
      <3>1. j - (i - 1) \in 1..(Len(s) - i) /\ i + (j - (i - 1)) = j + 1
        BY <2>2, <1>1
      <3>2. back[j - (i - 1)] = s[j + 1]
        BY <3>1, <1>3
      <3>3. (front \o back)[j] = back[j - (i - 1)]
        BY <2>2, <1>1, <1>5
      <3>4. QED  BY <2>2, <3>2, <3>3
    <2>3. QED  BY <2>1, <2>2
  <1>7. QED  BY <1>4, <1>5, <1>6

Entries == [id : Nat, owner : Watchers]

(* The facts about the array the proofs use in place of Seq. *)
LEMMA WatchesFacts ==
    ASSUME TypeOK
    PROVE  /\ Len(watches) \in Nat
           /\ \A i \in 1..Len(watches) :
                /\ watches[i] \in Entries
                /\ watches[i].id \in Nat
                /\ watches[i].owner \in Watchers
  <1>1. watches \in Seq(Entries)
    BY DEF TypeOK, Entries
  <1>2. Len(watches) \in Nat
    BY <1>1, LenProperties
  <1>3. \A i \in 1..Len(watches) : watches[i] \in Entries
    BY <1>1, ElementOfSeq
  <1>4. QED  BY <1>2, <1>3 DEF Entries

(* The new identifier of an added watch, and the array with the entry. *)
LEMMA WatchAddFacts ==
    ASSUME TypeOK, NEW w \in Watchers, NEW id \in Nat, WatchAdd(w, id)
    PROVE  /\ watches' \in Seq(Entries)
           /\ Len(watches') = Len(watches) + 1
           /\ \A i \in 1..Len(watches) : watches'[i] = watches[i]
           /\ watches'[Len(watches) + 1] = [id |-> id, owner |-> w]
  <1>1. [id |-> id, owner |-> w] \in Entries
    BY DEF Entries
  <1>2. QED  BY <1>1 DEF TypeOK, WatchAdd, Entries

(* Whatever is read as the last identifier is a number. *)
LEMMA LastIdsType == ASSUME TypeOK PROVE LastIds \subseteq Nat
  <1>1. CASE watches = <<>>
    BY <1>1 DEF LastIds
  <1>2. CASE watches # <<>>
    <2>1. Len(watches) \in 1..Len(watches)
      BY <1>2, EmptySeq, WatchesFacts DEF TypeOK
    <2>2. watches[Len(watches)].id \in Nat
      BY <2>1, WatchesFacts
    <2>3. QED  BY <1>2, <2>2, ShellAssumption DEF LastIds
  <1>3. QED  BY <1>1, <1>2

-----------------------------------------------------------------------------
(* Type correctness. *)

Loops == [active : BOOLEAN, client : Nat, state : States, at : Nat]

(* The part of TypeOK that creating a client and notifying can disturb. *)
ClientTyped ==
    /\ created \in 0..MaxClients
    /\ client \in 0..created
    /\ state \in States
    /\ allowed \in BOOLEAN
    /\ loop \in Loops

ArrayTyped ==
    /\ watches \in Seq(Entries)
    /\ reserved \in Nat
    /\ held \in [Watchers -> Nat]
    /\ seen \in [Watchers -> States]

(* The type invariant, split by what different steps disturb. *)
LEMMA TypeParts == TypeOK <=> ClientTyped /\ ArrayTyped
    BY DEF TypeOK, ClientTyped, ArrayTyped, Entries, Loops

(* Starting the notification loop keeps the client well typed. *)
LEMMA CallbackType ==
    ASSUME ClientTyped, created' \in 0..MaxClients, NEW c \in 0..created', NEW s \in States,
           ClientCallback(c, s)
    PROVE  ClientTyped'
  <1>1. c \in Nat
    BY ShellAssumption
  <1>2. loop' = [active |-> TRUE, client |-> c, state |-> s, at |-> 0]
    BY DEF ClientCallback
  <1>3. loop' \in Loops
    BY <1>1, <1>2 DEF Loops
  <1>4. QED  BY <1>3 DEF ClientCallback, ClientTyped

(* The loop that does not run is a loop. *)
LEMMA IdleType == Idle \in Loops
    BY DEF Idle, Loops, States

(* So does creating a client, or failing to. *)
LEMMA NewClientType == ASSUME ClientTyped, NewClient PROVE ClientTyped'
  <1>1. CASE client' = 0 /\ state' = "unknown" /\ allowed' = TRUE /\ loop' = Idle
             /\ UNCHANGED created
    BY <1>1, ShellAssumption, IdleType DEF ClientTyped, States
  <1>2. CASE /\ created < MaxClients
             /\ created' = created + 1
             /\ \E s \in FirstStates : ClientCallback(created + 1, s)
    <2>1. PICK s \in FirstStates : ClientCallback(created + 1, s)
      BY <1>2
    <2>2. created' \in 0..MaxClients /\ created + 1 \in 0..created'
      BY <1>2, ShellAssumption DEF ClientTyped
    <2>3. s \in States
      BY DEF States
    <2>4. QED  BY <2>1, <2>2, <2>3, CallbackType
  <1>3. QED  BY <1>1, <1>2 DEF NewClient

(* Every step of the shell keeps the types. *)
LEMMA TypeStep == TypeOK /\ [Next]_vars => TypeOK'
  <1> SUFFICES ASSUME ClientTyped, ArrayTyped, TypeOK, [Next]_vars
               PROVE  ClientTyped' /\ ArrayTyped'
    BY TypeParts, PTL
  <1>1. CASE NotifyNext
    <2>1. watches[loop.at + 1].owner \in Watchers
      <3>1. loop.at + 1 \in 1..Len(watches)
        BY <1>1, WatchesFacts DEF NotifyNext, TypeOK
      <3>2. QED  BY <3>1, WatchesFacts
    <2>2. loop \in Loops /\ loop' = [loop EXCEPT !.at = loop.at + 1]
      BY <1>1 DEF NotifyNext, ClientTyped
    <2>3. loop' \in Loops
      BY <2>2 DEF Loops
    <2>4. loop.state \in States
      BY <2>2 DEF Loops
    <2>5. seen' \in [Watchers -> States]
      BY <1>1, <2>1, <2>4 DEF NotifyNext, ArrayTyped
    <2>6. QED  BY <1>1, <2>3, <2>5 DEF NotifyNext, ClientTyped, ArrayTyped
  <1>2. CASE EndNotify
    <2>1. CASE loop.state = "failure"
      BY <1>2, <2>1, NewClientType DEF EndNotify, ArrayTyped
    <2>2. CASE loop.state # "failure"
      BY <1>2, <2>2, IdleType DEF EndNotify, ClientTyped, ArrayTyped
    <2>3. QED  BY <2>1, <2>2
  <1>3. ASSUME NEW s \in LaterStates, DaemonState(s)
        PROVE  ClientTyped' /\ ArrayTyped'
    <2>1. s \in States /\ client \in 0..created' /\ created' \in 0..MaxClients
      BY <1>3 DEF DaemonState, ClientTyped, States
    <2>2. ClientCallback(client, s)
      BY <1>3 DEF DaemonState
    <2>3. ClientTyped'
      BY <2>1, <2>2, CallbackType
    <2>4. QED  BY <1>3, <2>3 DEF DaemonState, ArrayTyped
  <1>4. CASE GetAvahiClient
    BY <1>4, NewClientType DEF GetAvahiClient, ArrayTyped
  <1>5. ASSUME NEW w \in Watchers, Watch(w)
        PROVE  ClientTyped' /\ ArrayTyped'
    <2>1. PICK last \in LastIds :
            WatchAdd(w, last + 1) /\ held' = [held EXCEPT ![w] = last + 1]
      BY <1>5 DEF Watch
    <2>2. last + 1 \in Nat
      BY LastIdsType
    <2>3. watches' \in Seq(Entries) /\ reserved' \in Nat
      <3>1. watches' \in Seq(Entries)
        BY <2>1, <2>2, WatchAddFacts
      <3>2. reserved' \in Nat
        BY <2>1 DEF WatchAdd, TypeOK
      <3>3. QED  BY <3>1, <3>2
    <2>4. held' \in [Watchers -> Nat]
      BY <2>1, <2>2 DEF TypeOK
    <2>5. seen' \in [Watchers -> States]
      BY <1>5 DEF Watch, ClientTyped, ArrayTyped
    <2>6. QED  BY <1>5, <2>3, <2>4, <2>5 DEF Watch, ClientTyped, ArrayTyped
  <1>6. ASSUME NEW w \in Watchers, WatchRemove(w)
        PROVE  ClientTyped' /\ ArrayTyped'
    <2>1. held' \in [Watchers -> Nat]
      BY <1>6 DEF WatchRemove, TypeOK
    <2>2. watches' \in Seq(Entries)
      <3>1. CASE Found(held[w]) = {}
        BY <1>6, <3>1 DEF WatchRemove, TypeOK, Entries
      <3>2. CASE Found(held[w]) # {}
        <4>1. PICK i \in Found(held[w]) : watches' = RemoveAt(watches, i)
          BY <1>6, <3>2 DEF WatchRemove
        <4>2. i \in 1..Len(watches)
          BY DEF Found, Searched
        <4>3. QED  BY <4>1, <4>2, RemoveAtProperties DEF TypeOK, Entries
      <3>3. QED  BY <3>1, <3>2
    <2>3. QED  BY <1>6, <2>1, <2>2 DEF WatchRemove, ClientTyped, ArrayTyped
  <1>7. CASE RestartAvahiClient
    BY <1>7, NewClientType DEF RestartAvahiClient, ArrayTyped
  <1>8. CASE UNCHANGED vars
    BY <1>8 DEF vars, ClientTyped, ArrayTyped
  <1>9. QED
    BY <1>1, <1>2, <1>3, <1>4, <1>5, <1>6, <1>7, <1>8 DEF Next

(* Every variable of the shell keeps its type, whatever the watchers, the
   reservation and the stale identifiers. *)
THEOREM TypeCorrect == Spec => []TypeOK
  <1>1. Init => TypeOK
    BY ShellAssumption, EmptySeq DEF Init, TypeOK, Idle, States
  <1>2. QED  BY <1>1, TypeStep, PTL DEF Spec

-----------------------------------------------------------------------------
(* The client during a notification. *)

(* While the loop runs there is a client, and restarts are refused. *)
LoopInv == loop.active => /\ client # 0
                          /\ ~allowed

(* A new client starts a loop of its own, or there is no loop. *)
LEMMA NewClientLoop == ASSUME TypeOK, NewClient PROVE LoopInv'
    BY DEF NewClient, ClientCallback, LoopInv, Idle, TypeOK

LEMMA LoopAlways == Spec => []LoopInv
  <1>1. Init => LoopInv
    BY DEF Init, LoopInv, Idle
  <1>2. TypeOK /\ LoopInv /\ [Next]_vars => LoopInv'
    <2> SUFFICES ASSUME TypeOK, LoopInv, [Next]_vars PROVE LoopInv'
      OBVIOUS
    <2>1. CASE NotifyNext
      BY <2>1 DEF NotifyNext, LoopInv, TypeOK
    <2>2. CASE EndNotify
      BY <2>2, NewClientLoop DEF EndNotify, LoopInv, Idle
    <2>3. ASSUME NEW s \in LaterStates, DaemonState(s) PROVE LoopInv'
      BY <2>3 DEF DaemonState, ClientCallback, LoopInv
    <2>4. CASE GetAvahiClient \/ RestartAvahiClient
      BY <2>4, NewClientLoop DEF GetAvahiClient, RestartAvahiClient
    <2>5. ASSUME NEW w \in Watchers, Watch(w) \/ WatchRemove(w) PROVE LoopInv'
      BY <2>5 DEF Watch, WatchRemove, LoopInv
    <2>6. CASE UNCHANGED vars
      BY <2>6 DEF vars, LoopInv
    <2>7. QED  BY <2>1, <2>2, <2>3, <2>4, <2>5, <2>6 DEF Next
  <1>3. QED  BY <1>1, <1>2, TypeCorrect, PTL DEF Spec

(* No callback being notified can have the client replaced under the ones
   still to be called (epc_shell_avahi_client_cb). *)
THEOREM ClientStays == Spec => ClientStaysDuringNotify
  <1>1. TypeOK /\ LoopInv /\ [Next]_vars
          => [(loop.active /\ loop.at < Len(watches)) => client' = client]_vars
    <2> SUFFICES ASSUME TypeOK, LoopInv, Next, loop.active, loop.at < Len(watches)
                 PROVE  client' = client
      OBVIOUS
    <2>1. CASE NotifyNext
      BY <2>1 DEF NotifyNext
    <2>2. ~EndNotify
      <3>1. loop.at \in Nat /\ Len(watches) \in Nat
        BY DEF TypeOK
      <3>2. QED  BY <3>1 DEF EndNotify
    <2>3. ASSUME NEW s \in LaterStates PROVE ~DaemonState(s)
      BY DEF DaemonState
    <2>4. ~GetAvahiClient /\ ~RestartAvahiClient
      BY DEF GetAvahiClient, RestartAvahiClient, LoopInv
    <2>5. ASSUME NEW w \in Watchers, Watch(w) \/ WatchRemove(w) PROVE client' = client
      BY <2>5 DEF Watch, WatchRemove
    <2>6. QED  BY <2>1, <2>2, <2>3, <2>4, <2>5 DEF Next
  <1>2. QED
    BY <1>1, LoopAlways, TypeCorrect, PTL DEF Spec, ClientStaysDuringNotify

-----------------------------------------------------------------------------
(* The array of watches. *)

(* Identifiers are positive, so that 0 can stand for "no watch". *)
IdsPositive == \A i \in 1..Len(watches) : watches[i].id > 0

ArrayInv == IdsIncrease /\ IdsPositive /\ HeldIsRegistered

(* Adding a watch whose identifier exceeds the last keeps the array ordered
   and leaves everybody registered. *)
LEMMA WatchArray ==
    ASSUME TypeOK, ArrayInv, StaleIds = {}, NEW w \in Watchers, Watch(w)
    PROVE  ArrayInv'
  <1>1. PICK last \in LastIds :
          WatchAdd(w, last + 1) /\ held' = [held EXCEPT ![w] = last + 1]
    BY DEF Watch
  <1>2. last \in Nat
    BY LastIdsType
  <1>3. /\ Len(watches) \in Nat
        /\ Len(watches') = Len(watches) + 1
        /\ \A i \in 1..Len(watches) : watches'[i] = watches[i]
        /\ watches'[Len(watches) + 1] = [id |-> last + 1, owner |-> w]
    BY <1>1, <1>2, WatchAddFacts, WatchesFacts
  <1>4. \A i \in 1..Len(watches) : watches[i].id \in Nat /\ watches[i].id <= last
    <2> SUFFICES ASSUME NEW i \in 1..Len(watches)
                 PROVE  watches[i].id \in Nat /\ watches[i].id <= last
      OBVIOUS
    <2>1. watches # <<>> /\ Len(watches) \in 1..Len(watches)
      BY <1>3, EmptySeq
    <2>2. last = watches[Len(watches)].id
      BY <2>1 DEF LastIds
    <2>3. watches[i].id \in Nat
      BY WatchesFacts
    <2>4. i = Len(watches) \/ watches[i].id < watches[Len(watches)].id
      BY <2>1, <1>3 DEF ArrayInv, IdsIncrease
    <2>5. QED  BY <2>2, <2>3, <2>4, <1>2
  <1>5. IdsIncrease'
    <2> SUFFICES ASSUME NEW i \in 1..Len(watches'), NEW j \in 1..Len(watches'), i < j
                 PROVE  watches'[i].id < watches'[j].id
      BY DEF IdsIncrease
    <2>1. i \in 1..Len(watches)
      BY <1>3
    <2>2. CASE j \in 1..Len(watches)
      BY <2>1, <2>2, <1>3 DEF ArrayInv, IdsIncrease
    <2>3. CASE j = Len(watches) + 1
      BY <2>1, <2>3, <1>2, <1>3, <1>4
    <2>4. QED  BY <2>2, <2>3, <1>3
  <1>6. IdsPositive'
    BY <1>2, <1>3 DEF ArrayInv, IdsPositive
  <1>7. HeldIsRegistered'
    <2> SUFFICES ASSUME NEW v \in Watchers, held'[v] # 0
                 PROVE  \E i \in 1..Len(watches') :
                          watches'[i] = [id |-> held'[v], owner |-> v]
      BY DEF HeldIsRegistered
    <2>1. CASE v = w
      <3>1. held'[v] = last + 1
        BY <1>1, <2>1 DEF TypeOK
      <3>2. Len(watches) + 1 \in 1..Len(watches')
        BY <1>3
      <3>3. QED  BY <2>1, <3>1, <3>2, <1>3
    <2>2. CASE v # w
      <3>1. held'[v] = held[v]
        BY <1>1, <2>2 DEF TypeOK
      <3>2. PICK i \in 1..Len(watches) : watches[i] = [id |-> held[v], owner |-> v]
        BY <3>1 DEF ArrayInv, HeldIsRegistered
      <3>3. i \in 1..Len(watches')
        BY <1>3
      <3>4. QED  BY <3>1, <3>2, <3>3, <1>3
    <2>3. QED  BY <2>1, <2>2
  <1>8. QED  BY <1>5, <1>6, <1>7 DEF ArrayInv

(* Removing a watch takes away the entry of its own user, or nothing. *)
LEMMA WatchRemoveArray ==
    ASSUME TypeOK, ArrayInv, NEW w \in Watchers, WatchRemove(w)
    PROVE  ArrayInv'
  <1>1. held' = [held EXCEPT ![w] = 0] /\ held[w] # 0
    BY DEF WatchRemove
  <1>2. CASE Found(held[w]) = {}
    <2>1. UNCHANGED watches
      BY <1>2 DEF WatchRemove
    <2>2. QED
      BY <1>1, <2>1 DEF ArrayInv, IdsIncrease, IdsPositive, HeldIsRegistered, TypeOK
  <1>3. CASE Found(held[w]) # {}
    <2>1. PICK k \in Found(held[w]) : watches' = RemoveAt(watches, k)
      BY <1>3 DEF WatchRemove
    <2>2. k \in 1..Len(watches) /\ watches[k].id = held[w]
      BY DEF Found, Searched
    <2>3. /\ Len(watches) \in Nat
          /\ Len(watches') = Len(watches) - 1
          /\ \A j \in 1..(Len(watches) - 1) :
               watches'[j] = IF j < k THEN watches[j] ELSE watches[j + 1]
      BY <2>1, <2>2, RemoveAtProperties, WatchesFacts DEF TypeOK
    <2>4. \A j \in 1..(Len(watches) - 1) :
            j \in 1..Len(watches) /\ j + 1 \in 1..Len(watches)
      BY <2>3
    <2>5. IdsIncrease'
      <3> SUFFICES ASSUME NEW i \in 1..Len(watches'), NEW j \in 1..Len(watches'), i < j
                   PROVE  watches'[i].id < watches'[j].id
        BY DEF IdsIncrease
      <3> DEFINE p == IF i < k THEN i ELSE i + 1
                 q == IF j < k THEN j ELSE j + 1
      <3>1. /\ p \in 1..Len(watches)
            /\ q \in 1..Len(watches)
            /\ p < q
        BY <2>2, <2>3
      <3>2. watches'[i] = watches[p] /\ watches'[j] = watches[q]
        BY <2>3
      <3> HIDE DEF p, q
      <3>3. QED  BY <3>1, <3>2 DEF ArrayInv, IdsIncrease
    <2>6. IdsPositive'
      <3> SUFFICES ASSUME NEW j \in 1..Len(watches') PROVE watches'[j].id > 0
        BY DEF IdsPositive
      <3>1. QED  BY <2>3, <2>4 DEF ArrayInv, IdsPositive
    <2>7. HeldIsRegistered'
      <3> SUFFICES ASSUME NEW v \in Watchers, held'[v] # 0
                   PROVE  \E i \in 1..Len(watches') :
                            watches'[i] = [id |-> held'[v], owner |-> v]
        BY DEF HeldIsRegistered
      <3>1. v # w /\ held'[v] = held[v]
        BY <1>1 DEF TypeOK
      <3>2. PICK i \in 1..Len(watches) : watches[i] = [id |-> held[v], owner |-> v]
        BY <3>1 DEF ArrayInv, HeldIsRegistered
      <3>3. PICK m \in 1..Len(watches) : watches[m] = [id |-> held[w], owner |-> w]
        BY <1>1 DEF ArrayInv, HeldIsRegistered
      <3>4. m = k
        <4>1. watches[m].id = watches[k].id /\ watches[k].id \in Nat
          BY <2>2, <3>3, WatchesFacts
        <4>2. ~(m < k) /\ ~(k < m)
          BY <2>2, <4>1, WatchesFacts DEF ArrayInv, IdsIncrease
        <4>3. QED  BY <2>2, <2>3, <4>2
      <3>5. i # k
        BY <3>1, <3>2, <3>3, <3>4
      <3>6. CASE i < k
        <4>1. i \in 1..(Len(watches) - 1) /\ watches'[i] = watches[i]
          BY <3>6, <2>2, <2>3
        <4>2. QED  BY <4>1, <3>1, <3>2, <2>3
      <3>7. CASE i > k
        <4>1. i - 1 \in 1..(Len(watches) - 1) /\ ~(i - 1 < k) /\ (i - 1) + 1 = i
          BY <3>7, <2>2, <2>3
        <4>2. watches'[i - 1] = watches[i]
          BY <4>1, <2>3
        <4>3. QED  BY <4>1, <4>2, <3>1, <3>2, <2>3
      <3>8. QED  BY <3>5, <3>6, <3>7, <2>2, <2>3
    <2>8. QED  BY <2>5, <2>6, <2>7 DEF ArrayInv
  <1>4. QED  BY <1>2, <1>3

(* Only registering and removing a watch change the array. *)
LEMMA ArrayStep ==
    ASSUME StaleIds = {} PROVE TypeOK /\ ArrayInv /\ [Next]_vars => ArrayInv'
  <1> SUFFICES ASSUME TypeOK, ArrayInv, [Next]_vars PROVE ArrayInv'
    OBVIOUS
  <1>1. CASE UNCHANGED <<watches, held>>
    BY <1>1 DEF ArrayInv, IdsIncrease, IdsPositive, HeldIsRegistered
  <1>2. CASE \E w \in Watchers : Watch(w) \/ WatchRemove(w)
    BY <1>2, WatchArray, WatchRemoveArray
  <1>3. QED
    BY <1>1, <1>2 DEF Next, NotifyNext, EndNotify, DaemonState, GetAvahiClient,
                      RestartAvahiClient, vars

LEMMA ArrayAlways == ASSUME StaleIds = {} PROVE Spec => []ArrayInv
  <1>1. Init => ArrayInv
    BY EmptySeq DEF Init, ArrayInv, IdsIncrease, IdsPositive, HeldIsRegistered
  <1>2. TypeOK /\ ArrayInv /\ [Next]_vars => ArrayInv'
    BY ArrayStep
  <1>3. QED  BY <1>1, <1>2, TypeCorrect, PTL DEF Spec

(* Unless an identifier is read from a block that was freed, no watcher ever
   loses its entry to the removal of another (epc_shell_watch_remove). *)
THEOREM WatchesSafe == ASSUME StaleIds = {} PROVE Spec => []HeldIsRegistered
  <1>1. ArrayInv => HeldIsRegistered
    BY DEF ArrayInv
  <1>2. QED  BY <1>1, ArrayAlways, PTL

-----------------------------------------------------------------------------
(* What the watchers know. *)

(* An entry the loop has still to visit. *)
Awaited(w) ==
    \E i \in 1..Len(watches) : i > loop.at /\ watches[i] = [id |-> held[w], owner |-> w]

Informed(w) == seen[w] = state \/ (loop.active /\ Awaited(w))

(* Who has not been told the client's state will be by the running loop. *)
KnowInv ==
    /\ loop.active => loop.state = state
    /\ client # 0 => \A w \in Watchers : held[w] # 0 => Informed(w)

(* A loop that starts visits every entry. *)
LEMMA CallbackKnows ==
    ASSUME TypeOK, HeldIsRegistered, NEW c, NEW s, ClientCallback(c, s),
           UNCHANGED <<watches, held>>
    PROVE  KnowInv'
  <1>1. loop' = [active |-> TRUE, client |-> c, state |-> s, at |-> 0] /\ state' = s
    BY DEF ClientCallback
  <1>2. \A w \in Watchers : held'[w] # 0 =>
          \E i \in 1..Len(watches') : watches'[i] = [id |-> held'[w], owner |-> w]
    BY DEF HeldIsRegistered
  <1>3. \A w \in Watchers : held'[w] # 0 => Informed(w)'
    <2>1. loop'.active /\ \A i \in 1..Len(watches') : i > loop'.at
      BY <1>1
    <2>2. QED  BY <1>2, <2>1 DEF Informed, Awaited
  <1>4. QED  BY <1>1, <1>3 DEF KnowInv

LEMMA NewClientKnows ==
    ASSUME TypeOK, HeldIsRegistered, NewClient, UNCHANGED <<watches, held>>
    PROVE  KnowInv'
  <1>1. CASE client' = 0 /\ loop' = Idle
    BY <1>1 DEF KnowInv, Idle
  <1>2. CASE \E s \in FirstStates : ClientCallback(created + 1, s)
    BY <1>2, CallbackKnows
  <1>3. QED  BY <1>1, <1>2 DEF NewClient

(* A loop that ends has told everybody. *)
LEMMA AllTold ==
    ASSUME TypeOK, KnowInv, client # 0, loop.active => loop.at >= Len(watches)
    PROVE  \A w \in Watchers : held[w] # 0 => seen[w] = state
  <1>1. loop.active => \A i \in 1..Len(watches) : ~(i > loop.at)
    BY DEF TypeOK
  <1>2. QED  BY <1>1 DEF KnowInv, Informed, Awaited

LEMMA KnowStep ==
    ASSUME CallbacksRemove = FALSE, TypeOK, LoopInv, HeldIsRegistered, KnowInv, [Next]_vars
    PROVE  KnowInv'
  <1>1. CASE NotifyNext
    <2> DEFINE v == watches[loop.at + 1].owner
    <2>1. /\ loop.active /\ loop.at \in Nat /\ loop.at + 1 \in 1..Len(watches)
          /\ loop' = [loop EXCEPT !.at = @ + 1]
          /\ seen' = [seen EXCEPT ![v] = loop.state]
          /\ client' = client /\ state' = state /\ watches' = watches /\ held' = held
      BY <1>1 DEF NotifyNext, TypeOK
    <2>2. loop'.active /\ loop'.state = loop.state /\ loop'.at = loop.at + 1
      BY <2>1 DEF TypeOK
    <2>3. loop.state = state
      BY <2>1 DEF KnowInv
    <2>4. ASSUME NEW w \in Watchers, held'[w] # 0, client # 0 PROVE Informed(w)'
      <3>1. seen'[w] = IF w = v THEN state ELSE seen[w]
        BY <2>1, <2>3 DEF TypeOK
      <3>2. CASE w = v
        BY <3>1, <3>2, <2>1 DEF Informed
      <3>3. CASE w # v
        <4>1. seen[w] = state \/ Awaited(w)
          BY <2>1, <2>4 DEF KnowInv, Informed
        <4>2. ASSUME Awaited(w) PROVE Awaited(w)'
          <5>1. PICK i \in 1..Len(watches) : i > loop.at /\ watches[i] = [id |-> held[w], owner |-> w]
            BY <4>2 DEF Awaited
          <5>2. i # loop.at + 1
            BY <5>1, <3>3
          <5>3. i > loop.at + 1
            BY <5>1, <5>2, <2>1
          <5>4. QED  BY <5>1, <5>3, <2>1, <2>2 DEF Awaited
        <4>3. QED  BY <4>1, <4>2, <3>1, <3>3, <2>1, <2>2 DEF Informed
      <3>4. QED  BY <3>2, <3>3
    <2>5. QED  BY <2>1, <2>2, <2>3, <2>4 DEF KnowInv
  <1>2. CASE EndNotify
    <2>1. CASE NewClient
      BY <1>2, <2>1, NewClientKnows DEF EndNotify
    <2>2. CASE loop' = Idle /\ UNCHANGED <<client, created, state>>
      <3>1. client # 0 => \A w \in Watchers : held[w] # 0 => seen[w] = state
        BY <1>2, AllTold DEF EndNotify
      <3>2. QED  BY <1>2, <2>2, <3>1 DEF EndNotify, KnowInv, Informed, Idle
    <2>3. QED  BY <1>2, <2>1, <2>2 DEF EndNotify
  <1>3. ASSUME NEW s \in LaterStates, DaemonState(s) PROVE KnowInv'
    BY <1>3, CallbackKnows DEF DaemonState
  <1>4. CASE GetAvahiClient \/ RestartAvahiClient
    BY <1>4, NewClientKnows DEF GetAvahiClient, RestartAvahiClient
  <1>5. ASSUME NEW w \in Watchers, Watch(w) PROVE KnowInv'
    <2>1. PICK last \in LastIds : /\ WatchAdd(w, last + 1)
                                  /\ held' = [held EXCEPT ![w] = last + 1]
      BY <1>5 DEF Watch
    <2>2. /\ seen' = [seen EXCEPT ![w] = state]
          /\ client' = client /\ state' = state /\ loop' = loop
      BY <1>5 DEF Watch
    <2>3. last + 1 \in Nat
      BY LastIdsType
    <2>4. /\ Len(watches) \in Nat /\ Len(watches') = Len(watches) + 1
          /\ \A i \in 1..Len(watches) : watches'[i] = watches[i]
      BY <2>1, <2>3, WatchAddFacts, WatchesFacts
    <2>5. ASSUME NEW v \in Watchers, held'[v] # 0, client # 0 PROVE Informed(v)'
      <3>1. CASE v = w
        BY <3>1, <2>2 DEF Informed, TypeOK
      <3>2. CASE v # w
        <4>1. held'[v] = held[v] /\ seen'[v] = seen[v]
          BY <3>2, <2>1, <2>2 DEF TypeOK
        <4>2. Informed(v)
          BY <4>1, <2>5 DEF KnowInv
        <4>3. Awaited(v) => Awaited(v)'
          BY <4>1, <2>2, <2>4 DEF Awaited
        <4>4. QED  BY <4>1, <4>2, <4>3, <2>2 DEF Informed
      <3>3. QED  BY <3>1, <3>2
    <2>6. QED  BY <2>2, <2>5 DEF KnowInv
  <1>6. ASSUME NEW w \in Watchers, WatchRemove(w) PROVE KnowInv'
    <2>1. /\ ~loop.active /\ loop' = loop /\ held' = [held EXCEPT ![w] = 0]
          /\ client' = client /\ state' = state /\ seen' = seen
      BY <1>6 DEF WatchRemove, TypeOK
    <2>2. \A v \in Watchers : held'[v] # 0 => held[v] # 0
      BY <2>1 DEF TypeOK
    <2>3. QED  BY <2>1, <2>2 DEF KnowInv, Informed
  <1>7. CASE UNCHANGED vars
    BY <1>7 DEF vars, KnowInv, Informed, Awaited
  <1>8. QED  BY <1>1, <1>2, <1>3, <1>4, <1>5, <1>6, <1>7 DEF Next

LEMMA KnowAlways ==
    ASSUME StaleIds = {}, CallbacksRemove = FALSE PROVE Spec => []KnowInv
  <1>1. Init => KnowInv
    BY DEF Init, KnowInv, Idle
  <1>2. TypeOK /\ LoopInv /\ ArrayInv /\ KnowInv /\ [Next]_vars => KnowInv'
    BY KnowStep DEF ArrayInv
  <1>3. QED  BY <1>1, <1>2, TypeCorrect, LoopAlways, ArrayAlways, PTL DEF Spec

(* If in addition no callback removes a watch, every watcher knows the client's
   state between two events (epc_shell_avahi_client_cb). *)
THEOREM WatchersInformed ==
    ASSUME StaleIds = {}, CallbacksRemove = FALSE PROVE Spec => []WatchersKnowState
  <1>1. TypeOK /\ KnowInv => WatchersKnowState
    BY AllTold DEF WatchersKnowState
  <1>2. QED  BY <1>1, KnowAlways, TypeCorrect, PTL

(* And no failed client is freed before everybody was told
   (epc_shell_avahi_client_cb). *)
THEOREM FailureTold ==
    ASSUME StaleIds = {}, CallbacksRemove = FALSE PROVE Spec => FailureToldBeforeFree
  <1>1. ASSUME TypeOK, LoopInv, KnowInv, Next, client # 0, client' # client, state = "failure"
        PROVE  \A w \in Watchers : held[w] # 0 => seen[w] = "failure"
    <2>1. loop.active => loop.at >= Len(watches)
      <3>1. EndNotify \/ RestartAvahiClient
        BY <1>1 DEF Next, NotifyNext, DaemonState, ClientCallback, GetAvahiClient, Watch, WatchRemove
      <3>2. QED  BY <3>1, <1>1 DEF EndNotify, RestartAvahiClient, LoopInv
    <2>2. QED  BY <2>1, <1>1, AllTold
  <1>2. TypeOK /\ LoopInv /\ KnowInv /\ [Next]_vars
          => [(client # 0 /\ client' # client /\ state = "failure") =>
                \A w \in Watchers : held[w] # 0 => seen[w] = "failure"]_vars
    BY <1>1
  <1>3. QED
    BY <1>2, KnowAlways, LoopAlways, TypeCorrect, PTL DEF Spec, FailureToldBeforeFree

=============================================================================

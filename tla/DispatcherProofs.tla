-------------------------- MODULE DispatcherProofs --------------------------
(***************************************************************************)
(* Theorems about the dispatcher.  Most actions touch the groups through   *)
(* one of three operators (SuspendAll, AddService, RestartClient) and the  *)
(* stack through Foreach and After; a lemma about each serves all the      *)
(* actions and all the invariants.                                         *)
(***************************************************************************)
EXTENDS Dispatcher, SequenceTheorems, TLAPS

Frames == [op : Ops, left : (SUBSET Types) \ {{}}]

(* The service t still has to be reset by one of the loops in frames. *)
ResetPending(t, frames) ==
    \E i \in 1..Len(frames) : frames[i].op = "reset" /\ t \in frames[i].left

(* The loops in frames visit members of S only. *)
Within(frames, S) == \A i \in 1..Len(frames) : frames[i].left \subseteq S

-----------------------------------------------------------------------------
(* The stack of unfinished loops. *)

(* Starting a loop keeps the stack well formed, leaves the pending resets
   pending and adds those of the new loop (epc_dispatcher_foreach_service). *)
LEMMA ForeachFacts ==
    ASSUME NEW frames \in Seq(Frames), NEW op \in Ops, NEW S,
           S \subseteq Types
    PROVE  /\ Foreach(frames, op, S) \in Seq(Frames)
           /\ \A t : ResetPending(t, frames) => ResetPending(t, Foreach(frames, op, S))
           /\ op = "reset" => \A t \in S : ResetPending(t, Foreach(frames, op, S))
           /\ \A T : Within(frames, T) /\ S \subseteq T => Within(Foreach(frames, op, S), T)
  <1>1. CASE S = {}
    BY <1>1 DEF Foreach
  <1>2. CASE S # {}
    <2> DEFINE frame == [op |-> op, left |-> S]
               longer == Append(frames, frame)
    <2>1. Foreach(frames, op, S) = longer
      BY <1>2 DEF Foreach
    <2>2. frame \in Frames /\ frame.op = op /\ frame.left = S
      BY <1>2 DEF Frames
    <2> HIDE DEF frame
    <2>3. /\ longer \in Seq(Frames)
          /\ Len(frames) \in Nat
          /\ Len(longer) = Len(frames) + 1
          /\ \A i \in 1..Len(frames) : longer[i] = frames[i]
          /\ longer[Len(frames) + 1] = frame
      BY <2>2
    <2> HIDE DEF longer
    <2>4. ASSUME NEW t, ResetPending(t, frames)
          PROVE  ResetPending(t, longer)
      <3>1. PICK i \in 1..Len(frames) : frames[i].op = "reset" /\ t \in frames[i].left
        BY <2>4 DEF ResetPending
      <3>2. i \in 1..Len(longer) /\ longer[i] = frames[i]
        BY <2>3
      <3>3. QED  BY <3>1, <3>2 DEF ResetPending
    <2>5. ASSUME op = "reset", NEW t \in S
          PROVE  ResetPending(t, longer)
      <3>1. Len(frames) + 1 \in 1..Len(longer)
        BY <2>3
      <3>2. QED  BY <2>2, <2>3, <2>5, <3>1 DEF ResetPending
    <2>6. ASSUME NEW T, Within(frames, T), S \subseteq T
          PROVE  Within(longer, T)
      <3> SUFFICES ASSUME NEW i \in 1..Len(longer) PROVE longer[i].left \subseteq T
        BY DEF Within
      <3>1. CASE i \in 1..Len(frames)
        BY <2>3, <2>6, <3>1 DEF Within
      <3>2. CASE i = Len(frames) + 1
        BY <2>2, <2>3, <2>6, <3>2
      <3>3. QED  BY <2>3, <3>1, <3>2
    <2>7. QED  BY <2>1, <2>3, <2>4, <2>5, <2>6
  <1>3. QED  BY <1>1, <1>2

(* The innermost loop of a stack, and the stack without it. *)
LEMMA StackFacts ==
    ASSUME stack \in Seq(Frames), stack # <<>>
    PROVE  /\ Len(stack) \in Nat \ {0}
           /\ Last(stack) = stack[Len(stack)]
           /\ Last(stack) \in Frames
           /\ Last(stack).op \in Ops
           /\ Last(stack).left \subseteq Types
           /\ Front(stack) \in Seq(Frames)
           /\ Len(Front(stack)) = Len(stack) - 1
           /\ \A i \in 1..(Len(stack) - 1) : Front(stack)[i] = stack[i]
  <1>1. Len(stack) \in Nat \ {0}
    BY EmptySeq
  <1>2. \A i \in 1..Len(stack) : stack[i] \in Frames
    BY ElementOfSeq
  <1>3. Last(stack) = stack[Len(stack)] /\ Last(stack) \in Frames
    BY <1>1, <1>2 DEF Last
  <1>4. Last(stack).op \in Ops /\ Last(stack).left \subseteq Types
    BY <1>3 DEF Frames
  <1> DEFINE n == Len(stack) - 1
  <1>5. /\ SubSeq(stack, 1, n) \in Seq(Frames)
        /\ Len(SubSeq(stack, 1, n)) = n
        /\ \A i \in 1..n : SubSeq(stack, 1, n)[i] = stack[i]
    <2>1. n \in Nat /\ \A i \in 1..n : i \in 1..Len(stack) /\ stack[i] \in Frames
      BY <1>1, <1>2
    <2> HIDE DEF n
    <2>2. /\ SubSeq(stack, 1, n) \in Seq(Frames)
          /\ Len(SubSeq(stack, 1, n)) = IF 1 <= n THEN n - 1 + 1 ELSE 0
          /\ \A i \in 1..(n - 1 + 1) : SubSeq(stack, 1, n)[i] = stack[1 + i - 1]
      BY <2>1, SubSeqProperties
    <2>3. \A i \in 1..n : i \in 1..(n - 1 + 1) /\ 1 + i - 1 = i
      BY <2>1
    <2>4. QED  BY <2>1, <2>2, <2>3
  <1>6. QED  BY <1>1, <1>3, <1>4, <1>5 DEF Front

(* Once the innermost loop has visited s, every other pending reset is still
   pending, and so is that of s if the loop was not a resetting one. *)
LEMMA AfterFacts ==
    ASSUME stack \in Seq(Frames), stack # <<>>, NEW s \in Last(stack).left
    PROVE  /\ After(s) \in Seq(Frames)
           /\ \A t : ResetPending(t, stack) /\ (t # s \/ Last(stack).op # "reset")
                       => ResetPending(t, After(s))
           /\ \A T : Within(stack, T) => Within(After(s), T)
  <1> DEFINE front == Front(stack)
             op == Last(stack).op
             S == Last(stack).left \ {s}
  <1>1. /\ front \in Seq(Frames)
        /\ op \in Ops
        /\ S \subseteq Types
    BY StackFacts
  <1>2. After(s) = Foreach(front, op, S)
    BY DEF After
  <1>3. ASSUME NEW t, ResetPending(t, stack), t # s \/ op # "reset"
        PROVE  ResetPending(t, After(s))
    <2>1. PICK i \in 1..Len(stack) : stack[i].op = "reset" /\ t \in stack[i].left
      BY <1>3 DEF ResetPending
    <2>2. CASE i = Len(stack)
      <3>1. op = "reset" /\ t \in S
        BY <2>1, <2>2, <1>3, StackFacts
      <3> HIDE DEF front, op, S
      <3>2. QED  BY <3>1, <1>1, <1>2, ForeachFacts
    <2>3. CASE i # Len(stack)
      <3>1. i \in 1..Len(front) /\ front[i] = stack[i]
        BY <2>3, StackFacts
      <3>2. ResetPending(t, front)
        BY <2>1, <3>1 DEF ResetPending
      <3> HIDE DEF front, op, S
      <3>3. QED  BY <3>2, <1>1, <1>2, ForeachFacts
    <2>4. QED  BY <2>2, <2>3
  <1>4. ASSUME NEW T, Within(stack, T) PROVE Within(After(s), T)
    <2>1. S \subseteq T
      BY <1>4, StackFacts DEF Within
    <2>2. Within(front, T)
      BY <1>4, StackFacts DEF Within
    <2> HIDE DEF front, op, S
    <2>3. QED  BY <2>1, <2>2, <1>1, <1>2, ForeachFacts
  <1>5. After(s) \in Seq(Frames)
    <2> HIDE DEF front, op, S
    <2>1. QED  BY <1>1, <1>2, ForeachFacts
  <1>6. QED  BY <1>3, <1>4, <1>5

(* When handlers have returned, the loop that publishes takes their place; every
   pending reset stays pending. *)
LEMMA NotifiedFacts ==
    ASSUME stack \in Seq(Frames), Notified, services \subseteq Types
    PROVE  /\ stack' \in Seq(Frames)
           /\ \A t : ResetPending(t, stack) => ResetPending(t, stack')
           /\ \A T : Within(stack, T) /\ services \subseteq T => Within(stack', T)
  <1> DEFINE front == Front(stack)
  <1>1. /\ stack # <<>>
        /\ Last(stack).op = "notify"
        /\ stack' = Foreach(front, "publish", services)
        /\ "publish" \in Ops
    BY DEF Notified, Ops
  <1>2. front \in Seq(Frames)
    BY <1>1, StackFacts
  <1>3. ASSUME NEW t, ResetPending(t, stack) PROVE ResetPending(t, front)
    <2>1. PICK i \in 1..Len(stack) : stack[i].op = "reset" /\ t \in stack[i].left
      BY <1>3 DEF ResetPending
    <2>2. i \in 1..Len(front) /\ front[i] = stack[i]
      BY <1>1, <2>1, StackFacts
    <2>3. QED  BY <2>1, <2>2 DEF ResetPending
  <1>4. ASSUME NEW T, Within(stack, T) PROVE Within(front, T)
    BY <1>1, <1>4, StackFacts DEF Within
  <1> HIDE DEF front
  <1>5. QED  BY <1>1, <1>2, <1>3, <1>4, ForeachFacts

-----------------------------------------------------------------------------
(* Type correctness. *)

Monitors == [state : {"none", "watching", "disconnected", "dead"},
             types : SUBSET Types,
             known : [Slots -> Cookies \cup {"none"}]]

Signals == {"uncommited", "collision", "failure"}

ConfigTyped ==
    /\ cookie \in {"null", "own", "uuid"}
    /\ collisions \in Strategies
    /\ watch \in BOOLEAN
    /\ services \subseteq Types
    /\ marked \subseteq Types
    /\ rivals \in [Slots -> Rivals \cup {NoRival}]
    /\ strangers \subseteq Slots
    /\ budget \in 0..MaxEvents

ClientTyped ==
    /\ client \in ClientStates \cup {"none"}
    /\ notify \in ClientStates \cup {"none"}

NameTyped == name \in Names /\ monitor \in Monitors

GroupTyped ==
    /\ group \in [Types -> GroupStates]
    /\ entries \in [Types -> SUBSET Names]
    /\ commits \subseteq Types
    /\ signals \in [Types -> Seq(Signals)]

FaultTyped == fault \in {"none", "null_group", "freed_group", "freed_browser"}

StackTyped == stack \in Seq(Frames)

(* The type invariant, split into the parts that different steps disturb. *)
LEMMA TypeParts ==
    TypeOK <=> /\ ConfigTyped /\ ClientTyped /\ NameTyped
               /\ GroupTyped /\ FaultTyped /\ StackTyped
    BY DEF TypeOK, ConfigTyped, ClientTyped, NameTyped, GroupTyped, FaultTyped,
           StackTyped, Monitors, Signals, Frames

(* What suspending leaves is well typed. *)
LEMMA EmptyGroupsType ==
    /\ NoGroups \in [Types -> GroupStates]
    /\ NoEntries \in [Types -> SUBSET Names]
    /\ NoSignals \in [Types -> Seq(Signals)]
    /\ NoMonitor \in Monitors
    BY EmptySeq DEF NoGroups, NoEntries, NoSignals, GroupStates, NoMonitor, NoneKnown,
                    Monitors

(* Suspending all services leaves well-typed groups. *)
LEMMA SuspendType ==
    ASSUME FaultTyped, SuspendAll PROVE GroupTyped' /\ FaultTyped'
    BY EmptyGroupsType DEF SuspendAll, GroupTyped, FaultTyped

(* Handling a collision leaves well-typed groups, name, monitor and loops. *)
LEMMA CollisionType ==
    ASSUME TypeOK, NEW frames \in Seq(Frames), HandleCollision(frames)
    PROVE  GroupTyped' /\ FaultTyped' /\ NameTyped' /\ StackTyped'
  <1>1. ConfigTyped /\ NameTyped /\ FaultTyped
    BY TypeParts
  <1>2. GroupTyped' /\ FaultTyped'
    BY <1>1, SuspendType DEF HandleCollision
  <1>3. CASE stack' = frames /\ UNCHANGED <<name, monitor>>
    BY <1>1, <1>2, <1>3 DEF NameTyped, StackTyped
  <1>4. CASE ChangeName(frames) /\ UNCHANGED monitor
    <2>1. name' \in Names
      BY <1>1, <1>4, DispatcherAssumption DEF ChangeName, NameTyped, Names
    <2>2. stack' \in Seq(Frames)
      BY <1>1, <1>4, ForeachFacts DEF ChangeName, ConfigTyped, Ops
    <2>3. QED  BY <1>1, <1>2, <1>4, <2>1, <2>2 DEF NameTyped, StackTyped
  <1>5. CASE WatchOther /\ stack' = frames /\ UNCHANGED name
    <2>1. \A T \in SUBSET Types :
            [state |-> "watching", types |-> T, known |-> NoneKnown] \in Monitors
      BY DEF Monitors, NoneKnown
    <2>2. monitor' \in Monitors
      BY <1>1, <1>5, <2>1 DEF WatchOther, NameTyped, ConfigTyped
    <2>3. QED  BY <1>1, <1>2, <1>5, <2>2 DEF NameTyped, StackTyped
  <1>6. QED  BY <1>3, <1>4, <1>5 DEF HandleCollision

(* So does adding a service to its group. *)
LEMMA AddServiceType ==
    ASSUME TypeOK, stack # <<>>, NEW s \in Last(stack).left, NEW g \in GroupStates,
           AddService(s, g)
    PROVE  GroupTyped' /\ FaultTyped' /\ NameTyped' /\ StackTyped'
  <1>1. NameTyped /\ GroupTyped /\ FaultTyped /\ StackTyped
    BY TypeParts
  <1>2. After(s) \in Seq(Frames) /\ s \in Types
    BY <1>1, AfterFacts, StackFacts DEF StackTyped
  <1>3. CASE HandleCollision(After(s))
    BY <1>2, <1>3, CollisionType
  <1>4. CASE /\ group' = [group EXCEPT ![s] = g]
             /\ entries' = [entries EXCEPT ![s] = @ \cup {name}]
             /\ commits' = commits \cup {s}
             /\ stack' = After(s)
             /\ UNCHANGED <<name, monitor, signals, fault>>
    <2>1. group' \in [Types -> GroupStates]
      BY <1>1, <1>4 DEF GroupTyped
    <2>2. entries' \in [Types -> SUBSET Names]
      BY <1>1, <1>4 DEF GroupTyped, NameTyped
    <2>3. QED
      BY <1>1, <1>2, <1>4, <2>1, <2>2 DEF GroupTyped, FaultTyped, NameTyped, StackTyped
  <1>5. CASE /\ group' = [group EXCEPT ![s] = g]
             /\ stack' = After(s)
             /\ UNCHANGED <<name, monitor, entries, commits, signals, fault>>
    BY <1>1, <1>2, <1>5 DEF GroupTyped, FaultTyped, NameTyped, StackTyped
  <1>6. QED  BY <1>3, <1>4, <1>5 DEF AddService

(* So does the replacement of the client. *)
LEMMA RestartType ==
    ASSUME TypeOK, NEW groups \in [Types -> GroupStates], RestartClient(groups)
    PROVE  /\ commits' \subseteq Types => GroupTyped'
           /\ name' = name => NameTyped'
           /\ ClientTyped'
  <1>1. NameTyped
    BY TypeParts
  <1>2. group' \in [Types -> GroupStates]
    BY DEF RestartClient, GroupStates
  <1>3. monitor' \in Monitors
    BY <1>1 DEF RestartClient, NameTyped, Monitors
  <1>4. ClientTyped'
    BY DEF RestartClient, ClientTyped, ClientStates
  <1>5. QED
    BY <1>1, <1>2, <1>3, <1>4, EmptyGroupsType DEF RestartClient, GroupTyped, NameTyped

(* A visit of a loop keeps the types. *)
LEMMA VisitType == ASSUME TypeOK, Visit PROVE TypeOK'
  <1>1. PICK s \in Last(stack).left :
          MarkVisited(s) /\ (Run(s) \/ Publish(s) \/ ResetGroup(s) \/ TouchFreed(s))
    BY DEF Visit
  <1>2. ConfigTyped /\ ClientTyped /\ NameTyped /\ GroupTyped /\ FaultTyped /\ StackTyped
    BY TypeParts
  <1>3. stack # <<>>
    BY DEF Visit
  <1>4. After(s) \in Seq(Frames) /\ s \in Types
    BY <1>2, <1>3, AfterFacts, StackFacts DEF StackTyped
  <1>5. ConfigTyped' /\ ClientTyped'
    <2>1. marked' \subseteq Types
      BY <1>1, <1>2, <1>4 DEF MarkVisited, ConfigTyped
    <2>2. QED  BY <1>2, <2>1 DEF Visit, rivalVars, ConfigTyped, ClientTyped, clientVars
  <1>6. GroupTyped' /\ FaultTyped' /\ NameTyped' /\ StackTyped'
    <2>1. CASE Run(s)
      <3>1. CASE AddService(s, "uncommited")
        BY <1>3, <3>1, AddServiceType DEF GroupStates
      <3>2. CASE stack' = After(s) /\ UNCHANGED <<name, monitor, groupVars, fault>>
        BY <1>2, <1>4, <3>2 DEF groupVars, GroupTyped, FaultTyped, NameTyped, StackTyped
      <3>3. QED  BY <2>1, <3>1, <3>2 DEF Run
    <2>2. CASE Publish(s)
      <3>1. group[s] \in GroupStates
        BY <1>2, <1>4 DEF GroupTyped
      <3>2. QED  BY <1>3, <2>2, <3>1, AddServiceType DEF Publish
    <2>3. CASE ResetGroup(s)
      <3>1. group' \in [Types -> GroupStates] /\ entries' \in [Types -> SUBSET Names]
        BY <1>2, <2>3 DEF ResetGroup, GroupTyped, GroupStates
      <3>2. ResetSignals(s) \in Seq(Signals)
        BY <1>2, <1>4 DEF ResetSignals, GroupTyped, Signals
      <3>3. signals' \in [Types -> Seq(Signals)]
        BY <1>2, <2>3, <3>2 DEF ResetGroup, GroupTyped
      <3>4. QED
        BY <1>2, <1>4, <2>3, <3>1, <3>3
           DEF ResetGroup, GroupTyped, FaultTyped, NameTyped, StackTyped
    <2>4. CASE TouchFreed(s)
      BY <1>2, <2>4
         DEF TouchFreed, groupVars, GroupTyped, FaultTyped, NameTyped, StackTyped
    <2>5. QED  BY <1>1, <2>1, <2>2, <2>3, <2>4
  <1>7. (ConfigTyped /\ ClientTyped /\ NameTyped /\ GroupTyped /\ FaultTyped /\ StackTyped)'
    BY <1>5, <1>6
  <1>8. QED  BY <1>7, TypeParts, PTL

(* The events of the main loop. *)
LEMMA EventType ==
    ASSUME TypeOK, ClientCb \/ \E s \in Types : CommitCb(s) \/ GroupCb(s)
    PROVE  TypeOK'
  <1>1. ConfigTyped /\ ClientTyped /\ NameTyped /\ GroupTyped /\ FaultTyped /\ StackTyped
    BY TypeParts
  <1>2. <<>> \in Seq(Frames)
    BY EmptySeq
  <1>3. ASSUME ClientCb
        PROVE  ConfigTyped' /\ ClientTyped' /\ NameTyped' /\ GroupTyped' /\ FaultTyped'
               /\ StackTyped'
    <2>1. ConfigTyped'
      BY <1>1, <1>3 DEF ClientCb, rivalVars, ConfigTyped, configVars
    <2>2. CASE /\ notify' = "none"
               /\ stack' = CASE notify = "running" -> Foreach(<<>>, "publish", services)
                             [] notify = "registering" -> Foreach(<<>>, "reset", services)
                             [] OTHER -> <<>>
               /\ UNCHANGED <<name, monitor, groupVars, client, fault>>
      <3>1. stack' \in Seq(Frames)
        <4>1. CASE notify = "running"
          BY <1>1, <1>2, <2>2, <4>1, ForeachFacts DEF ConfigTyped, Ops
        <4>2. CASE notify = "registering"
          BY <1>1, <1>2, <2>2, <4>2, ForeachFacts DEF ConfigTyped, Ops
        <4>3. CASE notify \notin {"running", "registering"}
          BY <1>2, <2>2, <4>3
        <4>4. QED  BY <4>1, <4>2, <4>3
      <3>2. QED
        BY <1>1, <2>1, <2>2, <3>1 DEF groupVars, ClientTyped, NameTyped, GroupTyped,
                                      FaultTyped, StackTyped
    <2>3. CASE notify' = "none" /\ HandleCollision(<<>>) /\ UNCHANGED client
      BY <1>1, <1>2, <2>1, <2>3, CollisionType DEF ClientTyped
    <2>4. CASE /\ RestartClient(IF watch THEN NoGroups ELSE group)
               /\ commits' = IF watch THEN {} ELSE commits
               /\ fault' = IF watch /\ \E s \in Types : group[s] = "freed"
                           THEN "freed_group" ELSE fault
               /\ UNCHANGED <<name, stack>>
      <3>1. (IF watch THEN NoGroups ELSE group) \in [Types -> GroupStates]
        BY <1>1, EmptyGroupsType DEF GroupTyped
      <3>2. commits' \subseteq Types
        BY <1>1, <2>4 DEF GroupTyped
      <3>3. FaultTyped' /\ StackTyped'
        BY <1>1, <2>4 DEF FaultTyped, StackTyped
      <3>4. QED  BY <2>1, <2>4, <3>1, <3>2, <3>3, RestartType
    <2>5. QED  BY <1>3, <2>2, <2>3, <2>4 DEF ClientCb
  <1>4. ASSUME NEW s \in Types, CommitCb(s)
        PROVE  ConfigTyped' /\ ClientTyped' /\ NameTyped' /\ GroupTyped' /\ FaultTyped'
               /\ StackTyped'
    <2>1. group' \in [Types -> GroupStates]
      BY <1>1, <1>4 DEF CommitCb, GroupTyped, GroupStates
    <2>2. QED
      BY <1>1, <1>4, <2>1
         DEF CommitCb, configVars, clientVars, rivalVars, ConfigTyped, ClientTyped,
             NameTyped, GroupTyped, FaultTyped, StackTyped
  <1>5. ASSUME NEW s \in Types, GroupCb(s)
        PROVE  ConfigTyped' /\ ClientTyped' /\ NameTyped' /\ GroupTyped' /\ FaultTyped'
               /\ StackTyped'
    <2>1. ConfigTyped'
      BY <1>1, <1>5 DEF GroupCb, rivalVars, ConfigTyped, configVars
    <2>2. CASE /\ signals' = [signals EXCEPT ![s] = Tail(@)]
               /\ stack' = Foreach(<<>>, "publish", {s})
               /\ UNCHANGED <<name, monitor, group, entries, commits, clientVars, fault>>
      <3>1. Tail(signals[s]) \in Seq(Signals)
        BY <1>1, <1>5, HeadTailProperties DEF GroupCb, GroupTyped
      <3>2. signals' \in [Types -> Seq(Signals)]
        BY <1>1, <2>2, <3>1 DEF GroupTyped
      <3>3. stack' \in Seq(Frames)
        BY <1>2, <2>2, ForeachFacts DEF Ops
      <3>4. QED
        BY <1>1, <2>1, <2>2, <3>2, <3>3
           DEF clientVars, ClientTyped, NameTyped, GroupTyped, FaultTyped, StackTyped
    <2>3. CASE HandleCollision(<<>>) /\ UNCHANGED clientVars
      BY <1>1, <1>2, <2>1, <2>3, CollisionType DEF ClientTyped, clientVars
    <2>4. CASE RestartClient(group) /\ UNCHANGED <<name, commits, stack, fault>>
      BY <1>1, <2>1, <2>4, RestartType DEF GroupTyped, FaultTyped, StackTyped
    <2>5. QED  BY <1>5, <2>2, <2>3, <2>4 DEF GroupCb
  <1>6. (ConfigTyped /\ ClientTyped /\ NameTyped /\ GroupTyped /\ FaultTyped /\ StackTyped)'
    BY <1>3, <1>4, <1>5
  <1>7. QED  BY <1>6, TypeParts, PTL

(* The monitor of the competing services. *)
LEMMA MonitorType ==
    ASSUME TypeOK, NEW p \in Slots, MonitorNew(p) \/ ServiceFoundCb(p) \/ ServiceRemovedCb(p)
    PROVE  TypeOK'
  <1>1. ConfigTyped /\ ClientTyped /\ NameTyped /\ GroupTyped /\ FaultTyped /\ StackTyped
    BY TypeParts
  <1>2. ConfigTyped' /\ ClientTyped' /\ GroupTyped' /\ FaultTyped'
    BY <1>1 DEF MonitorNew, ServiceFoundCb, ServiceRemovedCb, configVars, clientVars,
                groupVars, rivalVars, ConfigTyped, ClientTyped, GroupTyped, FaultTyped
  <1>3. <<>> \in Seq(Frames) /\ monitor \in Monitors
    BY <1>1, EmptySeq DEF NameTyped
  <1>4. ASSUME MonitorNew(p) PROVE NameTyped' /\ StackTyped'
    <2>1. CookieOf(p) \in Cookies
      BY <1>1, DispatcherAssumption DEF CookieOf, rivalVars, ConfigTyped, Cookies
    <2>2. [monitor EXCEPT !.known[p] = CookieOf(p)] \in Monitors
      BY <1>3, <2>1 DEF Monitors
    <2>3. NameTyped' /\ StackTyped'
      BY <1>1, <1>4, <2>2 DEF MonitorNew, NameTyped, StackTyped
    <2>4. QED  BY <2>3
  <1>5. ASSUME ServiceFoundCb(p) PROVE NameTyped' /\ StackTyped'
    <2>1. name' \in Names
      BY <1>1, <1>5, DispatcherAssumption DEF ServiceFoundCb, ChangeName, NameTyped, Names
    <2>2. stack' \in Seq(Frames)
      BY <1>1, <1>3, <1>5, ForeachFacts
         DEF ServiceFoundCb, ChangeName, ConfigTyped, Ops
    <2>3. monitor' \in Monitors
      BY <1>3, <1>5 DEF ServiceFoundCb, Monitors
    <2>4. QED  BY <2>1, <2>2, <2>3 DEF NameTyped, StackTyped
  <1>6. ASSUME ServiceRemovedCb(p) PROVE NameTyped' /\ StackTyped'
    <2>1. CASE monitor' = NoMonitor /\ stack' = Foreach(<<>>, "reset", services)
      <3>1. stack' \in Seq(Frames)
        BY <1>1, <1>3, <2>1, ForeachFacts DEF ConfigTyped, Ops
      <3>2. QED
        BY <1>1, <1>6, <2>1, <3>1, EmptyGroupsType
           DEF ServiceRemovedCb, NameTyped, StackTyped
    <2>2. CASE monitor' = [monitor EXCEPT !.known[p] = "none"] /\ UNCHANGED stack
      <3>1. [monitor EXCEPT !.known[p] = "none"] \in Monitors
        BY <1>3 DEF Monitors
      <3>2. QED
        BY <1>1, <1>6, <2>2, <3>1 DEF ServiceRemovedCb, NameTyped, StackTyped
    <2>3. QED  BY <1>6, <2>1, <2>2 DEF ServiceRemovedCb
  <1>7. (ConfigTyped /\ ClientTyped /\ NameTyped /\ GroupTyped /\ FaultTyped /\ StackTyped)'
    BY <1>2, <1>4, <1>5, <1>6
  <1>8. QED  BY <1>7, TypeParts, PTL

(* The budget of events stays in its range. *)
LEMMA SpendType == ASSUME ConfigTyped, Spend PROVE budget' \in 0..MaxEvents
    BY DispatcherAssumption DEF rivalVars, ConfigTyped, Spend

(* The calls of the application. *)
LEMMA CallType == ASSUME TypeOK, Call PROVE TypeOK'
  <1>1. ConfigTyped /\ ClientTyped /\ NameTyped /\ GroupTyped /\ FaultTyped /\ StackTyped
    BY TypeParts
  <1>2. <<>> \in Seq(Frames)
    BY EmptySeq
  <1>3. budget' \in 0..MaxEvents
    <2>1. Spend
      BY DEF Call, RunDispatcher, AddServiceCall, AddServiceSubtype, SetServiceDetails,
             ResetDispatcher, SetName, SetCookie, GetCookie, SetCollisionHandling, Dispose
    <2>2. QED  BY <1>1, <2>1, SpendType
  <1>4. EnsuredCookie \in {"null", "own", "uuid"}
    BY <1>1 DEF EnsuredCookie, rivalVars, ConfigTyped
  <1> DEFINE Typed == /\ ConfigTyped /\ ClientTyped /\ NameTyped
                      /\ GroupTyped /\ FaultTyped /\ StackTyped
  <1>5. ASSUME RunDispatcher PROVE Typed'
    BY <1>1, <1>3, <1>5
       DEF RunDispatcher, configVars, groupVars, rivalVars, ConfigTyped, ClientTyped,
           ClientStates, NameTyped, GroupTyped, FaultTyped, StackTyped
  <1>6. ASSUME NEW s \in Types, AddServiceCall(s) PROVE Typed'
    <2>1. ConfigTyped'
      BY <1>1, <1>3, <1>4, <1>6 DEF AddServiceCall, rivalVars, ConfigTyped
    <2>2. StackTyped'
      <3>1. Foreach(<<>>, "publish", {s}) \in Seq(Frames)
        BY <1>2, ForeachFacts DEF Ops
      <3>2. QED  BY <1>2, <1>6, <3>1 DEF AddServiceCall, StackTyped
    <2>3. QED
      BY <1>1, <1>6, <2>1, <2>2 DEF AddServiceCall, groupVars, clientVars, ClientTyped,
                                    NameTyped, GroupTyped, FaultTyped
  <1>7. ASSUME ResetDispatcher PROVE Typed'
    <2>1. GroupTyped' /\ FaultTyped'
      BY <1>1, <1>7, SuspendType DEF ResetDispatcher
    <2>2. QED
      BY <1>1, <1>3, <1>7, <2>1
         DEF ResetDispatcher, clientVars, rivalVars, ConfigTyped, ClientTyped,
             NameTyped, StackTyped
  <1>8. ASSUME NEW s \in Types, AddServiceSubtype(s) PROVE Typed'
    BY <1>1, <1>3, <1>8
       DEF AddServiceSubtype, configVars, clientVars, rivalVars, ConfigTyped,
           ClientTyped, NameTyped, GroupTyped, FaultTyped, StackTyped
  <1>9. ASSUME NEW s \in Types, SetServiceDetails(s) PROVE Typed'
    <2>1. marked' \subseteq Types
      BY <1>1, <1>9 DEF SetServiceDetails, rivalVars, ConfigTyped
    <2>2. FaultTyped'
      BY <1>1, <1>9 DEF SetServiceDetails, FaultTyped
    <2>3. QED
      BY <1>1, <1>3, <1>9, <2>1, <2>2
         DEF SetServiceDetails, clientVars, rivalVars, ConfigTyped, ClientTyped,
             NameTyped, GroupTyped, StackTyped
  <1>10. ASSUME NEW n \in Names, SetName(n) PROVE Typed'
    <2>1. StackTyped'
      BY <1>1, <1>10, ForeachFacts DEF SetName, ConfigTyped, StackTyped, Ops
    <2>2. QED
      BY <1>1, <1>3, <1>10, <2>1 DEF SetName, configVars, groupVars, clientVars,
                                     rivalVars, ConfigTyped, ClientTyped, NameTyped, GroupTyped,
                                     FaultTyped
  <1>11. ASSUME NEW c \in AppCookies, SetCookie(c) PROVE Typed'
    <2>1. StackTyped'
      BY <1>1, <1>2, <1>11, ForeachFacts DEF SetCookie, ConfigTyped, StackTyped, Ops
    <2>2. ConfigTyped'
      BY <1>1, <1>3, <1>11, DispatcherAssumption DEF SetCookie, rivalVars, ConfigTyped
    <2>3. QED
      BY <1>1, <1>11, <2>1, <2>2 DEF SetCookie, groupVars, clientVars, ClientTyped,
                                     NameTyped, GroupTyped, FaultTyped
  <1>12. ASSUME GetCookie PROVE Typed'
    BY <1>1, <1>3, <1>4, <1>12
       DEF GetCookie, groupVars, clientVars, rivalVars, ConfigTyped, ClientTyped,
           NameTyped, GroupTyped, FaultTyped, StackTyped
  <1>13. ASSUME NEW m \in Strategies, SetCollisionHandling(m) PROVE Typed'
    BY <1>1, <1>3, <1>13
       DEF SetCollisionHandling, groupVars, clientVars, rivalVars, ConfigTyped,
           ClientTyped, NameTyped, GroupTyped, FaultTyped, StackTyped
  <1>14. ASSUME Dispose PROVE Typed'
    <2>1. ConfigTyped'
      BY <1>1, <1>3, <1>14, DispatcherAssumption DEF Dispose, rivalVars, ConfigTyped
    <2>2. GroupTyped' /\ NameTyped'
      BY <1>14, EmptyGroupsType, DispatcherAssumption
         DEF Dispose, GroupTyped, NameTyped, Names
    <2>3. FaultTyped'
      BY <1>1, <1>14 DEF Dispose, FaultTyped
    <2>4. QED
      BY <1>1, <1>14, <2>1, <2>2, <2>3 DEF Dispose, clientVars, ClientTyped, StackTyped
  <1> HIDE DEF Typed
  <1>15. Typed'
    BY <1>5, <1>6, <1>7, <1>8, <1>9, <1>10, <1>11, <1>12, <1>13, <1>14 DEF Call
  <1>16. QED  BY <1>15, TypeParts, PTL DEF Typed

(* The daemon and the other publishers. *)
LEMMA EnvironmentType == ASSUME TypeOK, Environment PROVE TypeOK'
  <1>1. ConfigTyped /\ ClientTyped /\ NameTyped /\ GroupTyped /\ FaultTyped /\ StackTyped
    BY TypeParts
  <1> DEFINE Typed == /\ ConfigTyped /\ ClientTyped /\ NameTyped
                      /\ GroupTyped /\ FaultTyped /\ StackTyped
  <1>2. ASSUME NEW s \in Types, GroupSettles(s) PROVE Typed'
    <2>1. GroupTyped'
      <3>1. CASE group' = [group EXCEPT ![s] = "established"] /\ UNCHANGED signals
        BY <1>1, <1>2, <3>1 DEF GroupSettles, GroupTyped, GroupStates
      <3>2. CASE /\ group' = [group EXCEPT ![s] = "collision"]
                 /\ signals' = [signals EXCEPT ![s] = Append(@, "collision")]
        BY <1>1, <1>2, <3>2 DEF GroupSettles, GroupTyped, GroupStates, Signals
      <3>3. QED  BY <1>2, <3>1, <3>2 DEF GroupSettles
    <2>2. QED
      BY <1>1, <1>2, <2>1
         DEF GroupSettles, configVars, clientVars, rivalVars, ConfigTyped, ClientTyped,
             NameTyped, FaultTyped, StackTyped
  <1>3. ASSUME NEW s \in Types, GroupFails(s) PROVE Typed'
    <2>1. signals' \in [Types -> Seq(Signals)]
      BY <1>1, <1>3 DEF GroupFails, GroupTyped, Signals
    <2>2. QED
      BY <1>1, <1>3, <2>1, SpendType
         DEF GroupFails, configVars, clientVars, rivalVars, ConfigTyped, ClientTyped,
             NameTyped, GroupTyped, FaultTyped, StackTyped
  <1>4. ASSUME NEW c \in ClientStates, ClientChanges(c) PROVE Typed'
    BY <1>1, <1>4, SpendType
       DEF ClientChanges, configVars, groupVars, rivalVars, ConfigTyped, ClientTyped,
           NameTyped, GroupTyped, FaultTyped, StackTyped
  <1>5. ASSUME NEW p \in Slots, RivalLeaves(p) \/ \E r \in Rivals : RivalAppears(p, r)
        PROVE  Typed'
    <2>1. budget' \in 0..MaxEvents
      BY <1>1, <1>5, SpendType DEF RivalLeaves, RivalAppears, ConfigTyped
    <2>2. rivals' \in [Slots -> Rivals \cup {NoRival}]
      BY <1>1, <1>5 DEF RivalLeaves, RivalAppears, ConfigTyped
    <2>3. QED
      BY <1>1, <1>5, <2>1, <2>2 DEF RivalLeaves, RivalAppears, configVars, groupVars,
         clientVars, ConfigTyped, ClientTyped, NameTyped, GroupTyped, FaultTyped, StackTyped
  <1> HIDE DEF Typed
  <1>6. Typed'
    BY <1>2, <1>3, <1>4, <1>5 DEF Environment
  <1>7. QED  BY <1>6, TypeParts, PTL DEF Typed

(* Every step of the dispatcher keeps the types. *)
LEMMA TypeStep == TypeOK /\ [Next]_vars => TypeOK'
  <1> SUFFICES ASSUME TypeOK, [Next]_vars PROVE TypeOK'
    OBVIOUS
  <1>1. CASE Visit \/ Notified
    <2>1. CASE Notified
      <3>1. stack' \in Seq(Frames)
        BY <2>1, NotifiedFacts, TypeParts DEF StackTyped, ConfigTyped
      <3>2. QED
        BY <2>1, <3>1 DEF Notified, configVars, groupVars, clientVars, rivalVars, TypeOK,
                          Frames
    <2>2. QED  BY <1>1, <2>1, VisitType
  <1>2. CASE ClientCb \/ \E s \in Types : CommitCb(s) \/ GroupCb(s)
    BY <1>2, EventType
  <1>3. CASE \E p \in Slots : MonitorNew(p) \/ ServiceFoundCb(p) \/ ServiceRemovedCb(p)
    BY <1>3, MonitorType
  <1>4. CASE Call
    BY <1>4, CallType
  <1>5. CASE Environment
    BY <1>5, EnvironmentType
  <1>6. CASE UNCHANGED vars
    BY <1>6 DEF vars, configVars, groupVars, clientVars, rivalVars, TypeOK
  <1>7. QED  BY <1>1, <1>2, <1>3, <1>4, <1>5, <1>6 DEF Next

(* Every variable of the dispatcher keeps its type, and no finished loop stays
   on the stack, whatever the services, strategies, hazards and bounds. *)
THEOREM TypeCorrect == Spec => []TypeOK
  <1>1. Init => TypeOK
    <2> SUFFICES ASSUME Init PROVE TypeOK
      OBVIOUS
    <2>1. ConfigTyped /\ ClientTyped /\ FaultTyped
      <3>1. budget \in 0..MaxEvents /\ cookie \in {"null", "own", "uuid"}
        BY DispatcherAssumption DEF Init
      <3>2. rivals \in [Slots -> Rivals \cup {NoRival}]
        BY DEF Init
      <3>3. QED  BY <3>1, <3>2 DEF Init, ConfigTyped, ClientTyped, FaultTyped
    <2>2. NameTyped /\ GroupTyped
      BY EmptyGroupsType, DispatcherAssumption DEF Init, NameTyped, GroupTyped, Names
    <2>3. StackTyped
      BY EmptySeq DEF Init, StackTyped
    <2>4. QED  BY <2>1, <2>2, <2>3, TypeParts
  <1>2. QED  BY <1>1, TypeStep, PTL DEF Spec

-----------------------------------------------------------------------------
(* The groups of the services. *)

(* Only services have groups, only live groups have entries, only groups send
   signals, and the loops visit services only. *)
GroupInv ==
    /\ \A s \in Types : /\ group[s] # "none" => s \in services
                        /\ entries[s] # {} => group[s] \notin {"none", "freed"}
                        /\ signals[s] # <<>> => group[s] # "none"
    /\ Within(stack, services)

(* What an idle handler will commit exists. *)
CommitInv == \A s \in commits : group[s] # "none"

(* Suspending all services leaves no group, entry, commit or signal. *)
LEMMA SuspendInv ==
    ASSUME SuspendAll
    PROVE  /\ commits' = {}
           /\ \A s \in Types : group'[s] = "none" /\ entries'[s] = {} /\ signals'[s] = <<>>
    BY DEF SuspendAll, NoGroups, NoEntries, NoSignals

(* A collision leaves no group, and starts at most a loop over the services. *)
LEMMA CollisionInv ==
    ASSUME TypeOK, NEW frames \in Seq(Frames), Within(frames, services),
           HandleCollision(frames), services' = services
    PROVE  GroupInv' /\ CommitInv'
  <1>1. Within(stack', services)
    <2>1. CASE stack' = frames
      BY <2>1
    <2>2. CASE ChangeName(frames)
      BY <2>2, ForeachFacts DEF ChangeName, TypeOK, Ops
    <2>3. QED  BY <2>1, <2>2 DEF HandleCollision
  <1>2. /\ commits' = {}
        /\ \A s \in Types : group'[s] = "none" /\ entries'[s] = {} /\ signals'[s] = <<>>
    BY SuspendInv DEF HandleCollision
  <1>3. QED  BY <1>1, <1>2 DEF GroupInv, CommitInv, Within

(* Adding a service fills the group it was given and schedules its commit. *)
LEMMA AddServiceInv ==
    ASSUME TypeOK, GroupInv, stack # <<>>, NEW s \in Last(stack).left,
           NEW g \in GroupStates \ {"none", "freed"}, AddService(s, g), services' = services
    PROVE  GroupInv' /\ (CommitInv => CommitInv')
  <1>1. StackTyped /\ GroupTyped
    BY TypeParts
  <1>2. After(s) \in Seq(Frames) /\ Within(After(s), services)
    BY <1>1, AfterFacts DEF StackTyped, GroupInv
  <1>3. s \in Types /\ s \in services
    <2>1. Last(stack).left \subseteq services
      BY <1>1, StackFacts DEF StackTyped, GroupInv, Within
    <2>2. QED  BY <1>1, <2>1, StackFacts DEF StackTyped
  <1>4. CASE HandleCollision(After(s))
    BY <1>2, <1>4, CollisionInv
  <1>5. CASE /\ group' = [group EXCEPT ![s] = g]
             /\ entries' = [entries EXCEPT ![s] = @ \cup {name}]
             /\ commits' = commits \cup {s}
             /\ stack' = After(s)
             /\ UNCHANGED <<name, monitor, signals, fault>>
    <2>1. \A t \in Types : /\ group'[t] = IF t = s THEN g ELSE group[t]
                           /\ t # s => entries'[t] = entries[t]
      BY <1>1, <1>5 DEF GroupTyped
    <2>2. CommitInv => CommitInv'
      BY <1>1, <1>3, <1>5, <2>1 DEF CommitInv, GroupTyped
    <2>3. Within(stack', services')
      BY <1>2, <1>5
    <2>4. QED  BY <1>3, <1>5, <2>1, <2>2, <2>3 DEF GroupInv, Within
  <1>6. CASE /\ group' = [group EXCEPT ![s] = g]
             /\ stack' = After(s)
             /\ UNCHANGED <<name, monitor, entries, commits, signals, fault>>
    <2>1. \A t \in Types : group'[t] = IF t = s THEN g ELSE group[t]
      BY <1>1, <1>6 DEF GroupTyped
    <2>2. CommitInv => CommitInv'
      BY <1>1, <1>3, <1>6, <2>1 DEF CommitInv, GroupTyped
    <2>3. Within(stack', services')
      BY <1>2, <1>6
    <2>4. QED  BY <1>3, <1>6, <2>1, <2>2, <2>3 DEF GroupInv, Within
  <1>7. QED  BY <1>4, <1>5, <1>6 DEF AddService

(* Replacing the client leaves nothing in the groups it frees. *)
LEMMA RestartInv ==
    ASSUME TypeOK, GroupInv, NEW groups, groups = group \/ groups = NoGroups,
           RestartClient(groups), services' = services, stack' = stack,
           commits' = {} \/ (commits' = commits /\ groups = group)
    PROVE  GroupInv' /\ (CommitInv => CommitInv')
  <1>1. \A s \in Types : /\ group'[s] = IF groups[s] = "none" THEN "none" ELSE "freed"
                         /\ entries'[s] = {}
                         /\ signals'[s] = <<>>
    BY DEF RestartClient, NoEntries, NoSignals
  <1>2. \A s \in Types : groups[s] # "none" => group[s] # "none"
    BY DEF NoGroups
  <1>3. CommitInv => CommitInv'
    BY <1>1 DEF CommitInv, TypeOK
  <1>4. QED  BY <1>1, <1>2, <1>3 DEF GroupInv, Within

(* A visit of a loop keeps the groups in order. *)
LEMMA VisitInv ==
    ASSUME TypeOK, GroupInv, Visit PROVE GroupInv' /\ (CommitInv => CommitInv')
  <1>1. PICK s \in Last(stack).left :
          MarkVisited(s) /\ (Run(s) \/ Publish(s) \/ ResetGroup(s) \/ TouchFreed(s))
    BY DEF Visit
  <1>2. GroupTyped /\ StackTyped /\ stack # <<>> /\ services' = services
    BY TypeParts DEF Visit
  <1>3. Within(After(s), services) /\ s \in Types
    BY <1>2, AfterFacts, StackFacts DEF StackTyped, GroupInv
  <1>4. ASSUME UNCHANGED groupVars, stack' = stack \/ stack' = After(s)
        PROVE  GroupInv' /\ (CommitInv => CommitInv')
    BY <1>2, <1>3, <1>4 DEF groupVars, GroupInv, CommitInv, Within
  <1>5. CASE Run(s)
    <2>1. CASE AddService(s, "uncommited")
      BY <1>2, <2>1, AddServiceInv DEF GroupStates
    <2>2. QED  BY <1>4, <1>5, <2>1 DEF Run
  <1>6. CASE Publish(s)
    <2>1. group[s] \in GroupStates \ {"none", "freed"}
      BY <1>2, <1>3, <1>6 DEF Publish, GroupTyped
    <2>2. QED  BY <1>2, <1>6, <2>1, AddServiceInv DEF Publish
  <1>7. CASE ResetGroup(s)
    <2>1. \A t \in Types : /\ group'[t] = IF t = s THEN "uncommited" ELSE group[t]
                           /\ entries'[t] = IF t = s THEN {} ELSE entries[t]
                           /\ t # s => signals'[t] = signals[t]
      BY <1>2, <1>3, <1>7 DEF ResetGroup, GroupTyped
    <2>2. group[s] # "none" /\ commits' = commits /\ Within(stack', services')
      BY <1>2, <1>3, <1>7 DEF ResetGroup
    <2>3. CommitInv => CommitInv'
      BY <1>2, <2>1, <2>2 DEF CommitInv, GroupTyped
    <2>4. QED  BY <1>2, <2>1, <2>2, <2>3 DEF GroupInv
  <1>8. CASE TouchFreed(s)
    BY <1>4, <1>8 DEF TouchFreed
  <1>9. QED  BY <1>1, <1>5, <1>6, <1>7, <1>8

(* Every step keeps the groups in order; the only one that may schedule a
   commit without a group sets details too early. *)
LEMMA GroupStep ==
    ASSUME TypeOK, GroupInv, [Next]_vars
    PROVE  GroupInv' /\ ("early_details" \notin Hazards /\ CommitInv => CommitInv')
  <1>1. /\ GroupTyped /\ StackTyped /\ <<>> \in Seq(Frames)
        /\ services \subseteq Types
    BY TypeParts, EmptySeq DEF ConfigTyped
  <1>2. \A S : Within(<<>>, S)
    BY EmptySeq DEF Within
  <1>3. ASSUME UNCHANGED groupVars, services \subseteq services', Within(stack', services')
        PROVE  GroupInv' /\ (CommitInv => CommitInv')
    BY <1>3 DEF groupVars, GroupInv, CommitInv
  <1>4. \A op \in Ops : Within(Foreach(<<>>, op, services), services)
    BY <1>1, <1>2, ForeachFacts
  <1>5. CASE Visit \/ Notified
    <2>1. CASE Notified
      <3>1. Within(stack', services)
        BY <1>1, <2>1, NotifiedFacts DEF StackTyped, GroupInv
      <3>2. QED  BY <1>3, <2>1, <3>1 DEF Notified
    <2>2. QED  BY <1>5, <2>1, VisitInv
  <1>6. CASE ClientCb
    <2>1. CASE /\ stack' = CASE notify = "running" -> Foreach(<<>>, "publish", services)
                             [] notify = "registering" -> Foreach(<<>>, "reset", services)
                             [] OTHER -> <<>>
               /\ UNCHANGED groupVars
      <3>1. Within(stack', services)
        BY <1>2, <1>4, <2>1 DEF Ops
      <3>2. services' = services
        BY <1>6 DEF ClientCb
      <3>3. QED  BY <1>3, <2>1, <3>1, <3>2
    <2>2. CASE HandleCollision(<<>>)
      BY <1>1, <1>2, <1>6, <2>2, CollisionInv DEF ClientCb
    <2>3. CASE /\ RestartClient(IF watch THEN NoGroups ELSE group)
               /\ commits' = IF watch THEN {} ELSE commits
               /\ UNCHANGED stack
      <3>1. services' = services
        BY <1>6 DEF ClientCb
      <3>2. QED  BY <2>3, <3>1, RestartInv
    <2>4. QED  BY <1>6, <2>1, <2>2, <2>3 DEF ClientCb
  <1>7. ASSUME NEW s \in Types, CommitCb(s)
        PROVE  GroupInv' /\ (CommitInv => CommitInv')
    <2>1. /\ \/ group' = group
             \/ /\ group[s] \notin {"none", "freed"}
                /\ group' = [group EXCEPT ![s] = "registering"]
          /\ commits' \subseteq commits
          /\ UNCHANGED <<services, entries, signals, stack>>
      BY <1>7 DEF CommitCb, Commits
    <2>2. CommitInv => CommitInv'
      BY <1>1, <2>1 DEF CommitInv, GroupTyped
    <2>3. QED  BY <1>1, <2>1, <2>2 DEF GroupInv, GroupTyped
  <1>8. ASSUME NEW s \in Types, GroupCb(s)
        PROVE  GroupInv' /\ (CommitInv => CommitInv')
    <2>1. services' = services /\ stack = <<>> /\ s \in services
      BY <1>8 DEF GroupCb, MainLoop, GroupInv
    <2>2. CASE /\ signals' = [signals EXCEPT ![s] = Tail(@)]
               /\ stack' = Foreach(<<>>, "publish", {s})
               /\ UNCHANGED <<group, entries, commits>>
      <3>1. Within(stack', services)
        <4>1. {s} \subseteq Types /\ {s} \subseteq services
          BY <2>1
        <4>2. Within(Foreach(<<>>, "publish", {s}), services)
          BY <1>1, <1>2, <4>1, ForeachFacts DEF Ops
        <4>3. QED  BY <2>2, <4>2
      <3>2. group[s] # "none"
        BY <1>8 DEF GroupCb, GroupInv
      <3>3. \A t \in Types : t # s => signals'[t] = signals[t]
        BY <1>1, <2>2 DEF GroupTyped
      <3>4. QED  BY <2>1, <2>2, <3>1, <3>2, <3>3 DEF GroupInv, CommitInv
    <2>3. CASE HandleCollision(<<>>)
      BY <1>1, <1>2, <2>1, <2>3, CollisionInv
    <2>4. CASE RestartClient(group) /\ UNCHANGED <<commits, stack>>
      BY <2>1, <2>4, RestartInv
    <2>5. QED  BY <1>8, <2>2, <2>3, <2>4 DEF GroupCb
  <1>9. ASSUME NEW p \in Slots, MonitorNew(p) \/ ServiceFoundCb(p) \/ ServiceRemovedCb(p)
        PROVE  GroupInv' /\ (CommitInv => CommitInv')
    <2>1. UNCHANGED <<groupVars, services>>
      BY <1>9 DEF MonitorNew, ServiceFoundCb, ServiceRemovedCb
    <2>2. stack' = stack \/ \E op \in Ops : stack' = Foreach(<<>>, op, services)
      BY <1>9 DEF MonitorNew, ServiceFoundCb, ChangeName, ServiceRemovedCb, Ops
    <2>3. Within(stack', services)
      BY <1>4, <2>2 DEF GroupInv
    <2>4. QED  BY <1>3, <2>1, <2>3
  <1>10. CASE Call
    <2>1. CASE RunDispatcher \/ GetCookie \/ \E m \in Strategies : SetCollisionHandling(m)
      BY <1>3, <2>1 DEF RunDispatcher, GetCookie, SetCollisionHandling, GroupInv
    <2>2. CASE \/ \E n \in Names : SetName(n)
               \/ \E c \in AppCookies : SetCookie(c)
      <3>1. /\ \/ stack' = Foreach(stack, "reset", services)
               \/ stack' = Foreach(<<>>, "cookie", services)
            /\ UNCHANGED <<groupVars, services>>
        BY <2>2 DEF SetName, SetCookie
      <3>2. Within(stack', services)
        BY <1>1, <1>4, <3>1, ForeachFacts DEF StackTyped, GroupInv, Ops
      <3>3. QED  BY <1>3, <3>1, <3>2
    <2>3. ASSUME NEW s \in Types, AddServiceCall(s)
          PROVE  GroupInv' /\ (CommitInv => CommitInv')
      <3>1. services' = services \cup {s} /\ UNCHANGED groupVars
        BY <2>3 DEF AddServiceCall
      <3>2. Within(Foreach(<<>>, "publish", {s}), services')
        <4>1. {s} \subseteq services' /\ {s} \subseteq Types /\ "publish" \in Ops
          BY <3>1 DEF Ops
        <4>2. QED  BY <1>1, <1>2, <4>1, ForeachFacts
      <3>3. Within(stack', services')
        BY <1>2, <2>3, <3>2 DEF AddServiceCall
      <3>4. QED  BY <1>3, <3>1, <3>3
    <2>4. CASE ResetDispatcher
      <3>1. /\ commits' = {} /\ stack' = <<>>
            /\ \A s \in Types : group'[s] = "none" /\ entries'[s] = {} /\ signals'[s] = <<>>
        BY <2>4, SuspendInv DEF ResetDispatcher, MainLoop
      <3>2. QED  BY <1>2, <3>1 DEF GroupInv, CommitInv
    <2>5. CASE Dispose
      <3>1. /\ commits' = {} /\ stack' = <<>>
            /\ \A s \in Types : group'[s] = "none" /\ entries'[s] = {} /\ signals'[s] = <<>>
        BY <2>5 DEF Dispose, MainLoop, NoGroups, NoEntries, NoSignals
      <3>2. QED  BY <1>2, <3>1 DEF GroupInv, CommitInv
    <2>6. ASSUME NEW s \in Types, AddServiceSubtype(s)
          PROVE  GroupInv' /\ (CommitInv => CommitInv')
      BY <2>6 DEF AddServiceSubtype, GroupInv, CommitInv
    <2>7. ASSUME NEW s \in Types, SetServiceDetails(s)
          PROVE  /\ GroupInv'
                 /\ "early_details" \notin Hazards /\ CommitInv => CommitInv'
      BY <2>7 DEF SetServiceDetails, GroupInv, CommitInv
    <2>8. QED  BY <1>10, <2>1, <2>2, <2>3, <2>4, <2>5, <2>6, <2>7 DEF Call
  <1>11. CASE Environment
    <2>1. ASSUME NEW s \in Types, GroupSettles(s) \/ GroupFails(s)
          PROVE  GroupInv' /\ (CommitInv => CommitInv')
      <3>1. /\ group[s] \notin {"none", "freed"}
            /\ group' = group \/ \E g \in {"established", "collision"} :
                                    group' = [group EXCEPT ![s] = g]
            /\ \A t \in Types : t # s => signals'[t] = signals[t]
            /\ UNCHANGED <<entries, commits, services, stack>>
        BY <1>1, <2>1 DEF GroupSettles, GroupFails, GroupTyped
      <3>2. \A t \in Types : /\ group[t] # "none" <=> group'[t] # "none"
                             /\ group'[t] = "freed" => group[t] = "freed"
        BY <1>1, <3>1 DEF GroupTyped
      <3>3. CommitInv => CommitInv'
        BY <1>1, <3>1, <3>2 DEF CommitInv, GroupTyped
      <3>4. QED  BY <3>1, <3>2, <3>3 DEF GroupInv
    <2>2. ASSUME \/ \E c \in ClientStates : ClientChanges(c)
                 \/ \E p \in Slots : RivalLeaves(p) \/ \E r \in Rivals : RivalAppears(p, r)
          PROVE  GroupInv' /\ (CommitInv => CommitInv')
      <3>1. UNCHANGED <<groupVars, services, stack>>
        BY <2>2 DEF ClientChanges, RivalLeaves, RivalAppears
      <3>2. QED  BY <1>3, <3>1 DEF GroupInv
    <2>3. QED  BY <1>11, <2>1, <2>2 DEF Environment
  <1>12. CASE UNCHANGED vars
    BY <1>12 DEF vars, groupVars, GroupInv, CommitInv
  <1>13. QED
    BY <1>5, <1>6, <1>7, <1>8, <1>9, <1>10, <1>11, <1>12 DEF Next

(* At the start there is nothing to put in order. *)
LEMMA GroupInit == Init => GroupInv /\ CommitInv
    BY EmptySeq DEF Init, GroupInv, CommitInv, NoGroups, NoEntries, NoSignals, Within

(* The groups of every reachable state are in order. *)
LEMMA GroupsInOrder == Spec => []GroupInv
  <1>1. TypeOK /\ GroupInv /\ [Next]_vars => GroupInv'
    BY GroupStep
  <1>2. QED  BY <1>1, GroupInit, TypeCorrect, PTL DEF Spec

(* No group is freed and none reports a failure. *)
LiveInv ==
    \A s \in Types : group[s] # "freed" /\ signals[s] \in Seq({"uncommited", "collision"})

(* Before the dispatcher runs there is no group, and nothing that makes one. *)
WatchInv ==
    ~watch => /\ \A s \in Types : group[s] = "none"
              /\ monitor.state = "none"
              /\ notify \in {"none", "failure"}
              /\ stack # <<>> => ~Connected

(* The three calls and reports under which an idle handler may find no group. *)
Ordinary == {"early_details", "early_reset", "group_failure"} \cap Hazards = {}

(* Suspended services have no group that could be freed. *)
LEMMA SuspendLive == ASSUME SuspendAll PROVE LiveInv'
    BY SuspendInv, EmptySeq DEF LiveInv

(* A visit frees no group; before the dispatcher runs it finds none. *)
LEMMA VisitLive ==
    ASSUME TypeOK, LiveInv, WatchInv, Visit PROVE LiveInv' /\ WatchInv'
  <1>1. PICK s \in Last(stack).left :
          Run(s) \/ Publish(s) \/ ResetGroup(s) \/ TouchFreed(s)
    BY DEF Visit
  <1>2. GroupTyped /\ StackTyped /\ stack # <<>> /\ UNCHANGED <<watch, clientVars>>
    BY TypeParts DEF Visit
  <1>3. s \in Types
    BY <1>2, StackFacts DEF StackTyped
  <1>4. ASSUME NEW g \in GroupStates \ {"none", "freed"}, AddService(s, g) PROVE LiveInv'
    <2>1. CASE HandleCollision(After(s))
      BY <2>1, SuspendLive DEF HandleCollision
    <2>2. CASE group' = [group EXCEPT ![s] = g] /\ UNCHANGED signals
      BY <1>2, <1>3, <2>2 DEF LiveInv, GroupTyped
    <2>3. QED  BY <1>4, <2>1, <2>2 DEF AddService
  <1>5. LiveInv'
    <2>1. CASE Run(s)
      BY <1>4, <2>1 DEF Run, GroupStates, groupVars, LiveInv
    <2>2. CASE Publish(s)
      <3>1. group[s] \in GroupStates \ {"none", "freed"}
        BY <1>2, <1>3, <2>2 DEF Publish, GroupTyped
      <3>2. QED  BY <1>4, <2>2, <3>1 DEF Publish
    <2>3. CASE ResetGroup(s)
      <3>1. ResetSignals(s) \in Seq({"uncommited", "collision"})
        BY <1>3 DEF ResetSignals, LiveInv
      <3>2. QED  BY <1>2, <1>3, <2>3, <3>1 DEF ResetGroup, LiveInv, GroupTyped
    <2>4. QED  BY <1>1, <1>3, <2>1, <2>2, <2>3 DEF TouchFreed, LiveInv
  <1>6. ASSUME ~watch PROVE /\ ~Connected
                            /\ UNCHANGED <<group, monitor, clientVars>>
    BY <1>1, <1>2, <1>3, <1>6
       DEF WatchInv, Run, Publish, ResetGroup, TouchFreed, groupVars
  <1>7. WatchInv'
    BY <1>2, <1>6 DEF WatchInv, clientVars, Connected
  <1>8. QED  BY <1>5, <1>7

(* Every step keeps the groups alive, and makes none before the dispatcher
   runs. *)
LEMMA LiveStep ==
    ASSUME Ordinary, TypeOK, GroupInv, LiveInv, WatchInv, [Next]_vars
    PROVE  LiveInv' /\ WatchInv'
  <1>1. GroupTyped /\ <<>> \in Seq(Frames)
    BY TypeParts, EmptySeq
  <1>2. ASSUME UNCHANGED groupVars PROVE LiveInv'
    BY <1>2 DEF groupVars, LiveInv
  <1>3. ASSUME UNCHANGED <<watch, group, monitor, clientVars>>,
               stack' # <<>> => stack # <<>> \/ watch
        PROVE  WatchInv'
    BY <1>3 DEF WatchInv, clientVars, Connected
  <1>4. ASSUME watch' PROVE WatchInv'
    BY <1>4 DEF WatchInv
  <1>5. CASE Visit
    BY <1>5, VisitLive
  <1>6. CASE Notified
    BY <1>2, <1>3, <1>6 DEF Notified, groupVars
  <1>7. CASE ClientCb
    <2>1. CASE watch
      <3>1. watch'
        BY <1>7, <2>1 DEF ClientCb
      <3>2. LiveInv'
        BY <1>2, <1>7, <2>1, SuspendLive, EmptySeq
           DEF ClientCb, HandleCollision, RestartClient, NoGroups, NoSignals, LiveInv
      <3>3. QED  BY <1>4, <3>1, <3>2
    <2>2. CASE ~watch
      <3>1. RestartClient(group) /\ UNCHANGED <<watch, stack>> /\ stack = <<>>
        BY <1>7, <2>2 DEF ClientCb, WatchInv
      <3>2. \A s \in Types : group'[s] = "none" /\ signals'[s] = <<>>
        BY <2>2, <3>1 DEF RestartClient, WatchInv, NoSignals
      <3>3. monitor' = monitor /\ notify' = "none"
        BY <2>2, <3>1 DEF RestartClient, WatchInv
      <3>4. QED  BY <2>2, <3>1, <3>2, <3>3, EmptySeq DEF LiveInv, WatchInv
    <2>3. QED  BY <2>1, <2>2
  <1>8. ASSUME NEW s \in Types, CommitCb(s) PROVE LiveInv' /\ WatchInv'
    <2>1. /\ group' = group \/ (/\ group[s] # "none"
                                /\ group' = [group EXCEPT ![s] = "registering"])
          /\ UNCHANGED <<watch, monitor, signals, clientVars, stack>>
      BY <1>8 DEF CommitCb, Commits
    <2>2. LiveInv'
      BY <1>1, <2>1 DEF LiveInv, GroupTyped
    <2>3. WatchInv'
      BY <1>3, <1>4, <2>1 DEF WatchInv
    <2>4. QED  BY <2>2, <2>3
  <1>9. ASSUME NEW s \in Types, GroupCb(s) PROVE LiveInv' /\ WatchInv'
    <2>1. watch /\ watch' = watch
      BY <1>9 DEF GroupCb, GroupInv, WatchInv
    <2>2. signals[s] \in Seq({"uncommited", "collision"}) /\ signals[s] # <<>>
      BY <1>9 DEF GroupCb, LiveInv
    <2>3. /\ Head(signals[s]) # "failure"
          /\ Tail(signals[s]) \in Seq({"uncommited", "collision"})
      BY <2>2, HeadTailProperties
    <2>4. CASE signals' = [signals EXCEPT ![s] = Tail(@)] /\ UNCHANGED group
      BY <1>1, <2>1, <2>3, <2>4, <1>4 DEF LiveInv, GroupTyped
    <2>5. CASE HandleCollision(<<>>)
      BY <1>4, <2>1, <2>5, SuspendLive DEF HandleCollision
    <2>6. QED  BY <1>9, <2>3, <2>4, <2>5 DEF GroupCb
  <1>10. ASSUME NEW p \in Slots, MonitorNew(p) \/ ServiceFoundCb(p) \/ ServiceRemovedCb(p)
         PROVE  LiveInv' /\ WatchInv'
    <2>1. watch'
      BY <1>10 DEF MonitorNew, ServiceFoundCb, ServiceRemovedCb, WatchInv
    <2>2. UNCHANGED groupVars
      BY <1>10 DEF MonitorNew, ServiceFoundCb, ServiceRemovedCb
    <2>3. QED  BY <1>2, <1>4, <2>1, <2>2
  <1>11. CASE Call
    <2>1. CASE RunDispatcher
      BY <1>2, <1>4, <2>1 DEF RunDispatcher
    <2>2. CASE ResetDispatcher \/ Dispose
      <3>1. LiveInv'
        BY <2>2, SuspendLive, EmptySeq DEF ResetDispatcher, Dispose, NoGroups, NoSignals, LiveInv
      <3>2. \A s \in Types : group'[s] = "none"
        BY <2>2 DEF ResetDispatcher, Dispose, SuspendAll, NoGroups
      <3>3. /\ stack' = <<>> /\ notify' = "none"
            /\ (watch' = watch /\ monitor' = monitor) \/ monitor' = NoMonitor
        BY <2>2 DEF ResetDispatcher, Dispose, MainLoop, clientVars
      <3>4. QED  BY <3>1, <3>2, <3>3 DEF WatchInv, NoMonitor
    <2>3. ASSUME \/ \E n \in Names : SetName(n)
                 \/ \E c \in AppCookies : SetCookie(c)
          PROVE  LiveInv' /\ WatchInv'
      <3>1. /\ UNCHANGED <<watch, monitor, groupVars, clientVars>>
            /\ stack' # <<>> => stack # <<>> \/ services # {}
            /\ (~watch /\ services # {}) => ~Connected
        BY <2>3 DEF SetName, SetCookie, Foreach, MayReset, Ordinary
      <3>2. WatchInv'
        BY <3>1 DEF WatchInv, groupVars, clientVars, Connected
      <3>3. QED  BY <1>2, <3>1, <3>2
    <2>4. CASE \/ GetCookie \/ \E m \in Strategies : SetCollisionHandling(m)
               \/ \E s \in Types : AddServiceCall(s) \/ AddServiceSubtype(s)
                                   \/ SetServiceDetails(s)
      <3>1. /\ UNCHANGED <<watch, group, signals, monitor, clientVars>>
            /\ stack' # <<>> => stack # <<>> \/ watch
        BY <2>4 DEF GetCookie, SetCollisionHandling, AddServiceCall, AddServiceSubtype,
                    SetServiceDetails, groupVars
      <3>2. QED  BY <1>3, <3>1 DEF LiveInv
    <2>5. QED  BY <1>11, <2>1, <2>2, <2>3, <2>4 DEF Call
  <1>12. CASE Environment
    <2>1. ASSUME NEW s \in Types, GroupSettles(s) PROVE LiveInv' /\ WatchInv'
      <3>1. watch'
        BY <2>1 DEF GroupSettles, WatchInv
      <3>2. ASSUME group' = [group EXCEPT ![s] = "established"], UNCHANGED signals
            PROVE  LiveInv'
        BY <1>1, <3>2, Zenon DEF LiveInv, GroupTyped
      <3>3. ASSUME group' = [group EXCEPT ![s] = "collision"],
                   signals' = [signals EXCEPT ![s] = Append(@, "collision")]
            PROVE  LiveInv'
        <4>1. Append(signals[s], "collision") \in Seq({"uncommited", "collision"})
          BY DEF LiveInv
        <4>2. \A t \in Types :
                /\ group'[t] = IF t = s THEN "collision" ELSE group[t]
                /\ signals'[t] = IF t = s THEN Append(signals[s], "collision") ELSE signals[t]
          BY <1>1, <3>3 DEF GroupTyped
        <4>3. QED  BY <4>1, <4>2 DEF LiveInv
      <3>4. QED  BY <1>4, <2>1, <3>1, <3>2, <3>3 DEF GroupSettles
    <2>2. ASSUME NEW s \in Types PROVE ~GroupFails(s)
      BY DEF GroupFails, Ordinary
    <2>3. ASSUME NEW c \in ClientStates, ClientChanges(c) PROVE LiveInv' /\ WatchInv'
      BY <1>2, <2>3 DEF ClientChanges, MainLoop, WatchInv, groupVars
    <2>4. ASSUME NEW p \in Slots, RivalLeaves(p) \/ \E r \in Rivals : RivalAppears(p, r)
          PROVE  LiveInv' /\ WatchInv'
      BY <1>2, <1>3, <2>4 DEF RivalLeaves, RivalAppears, groupVars
    <2>5. QED  BY <1>12, <2>1, <2>2, <2>3, <2>4 DEF Environment
  <1>13. CASE UNCHANGED vars
    BY <1>2, <1>3, <1>13 DEF vars, groupVars
  <1>14. QED
    BY <1>5, <1>6, <1>7, <1>8, <1>9, <1>10, <1>11, <1>12, <1>13 DEF Next

(* The idle handler always finds the service announced and its group alive,
   whatever suspensions, removals, collisions, renamings and failures of the
   client came between scheduling and running it (epc_service_commit_cb):
   unless the application sets details of a service that has no group, or the
   name or cookie of a dispatcher that does not run yet, or Avahi reports the
   failure of a group, which frees those of all services. *)
THEOREM CommitSafe == ASSUME Ordinary PROVE Spec => []CommitHasGroup
  <1>1. Init => LiveInv /\ WatchInv
    BY EmptySeq DEF Init, LiveInv, WatchInv, NoGroups, NoSignals, NoMonitor
  <1>2. TypeOK /\ GroupInv /\ LiveInv /\ WatchInv /\ [Next]_vars => LiveInv' /\ WatchInv'
    BY LiveStep
  <1>3. TypeOK /\ GroupInv /\ CommitInv /\ [Next]_vars => CommitInv'
    BY GroupStep DEF Ordinary
  <1>4. TypeOK /\ GroupInv /\ CommitInv /\ LiveInv => CommitHasGroup
    BY DEF TypeOK, GroupInv, CommitInv, LiveInv, CommitHasGroup
  <1>5. QED
    BY <1>1, <1>2, <1>3, <1>4, GroupInit, GroupsInOrder, TypeCorrect, PTL DEF Spec

-----------------------------------------------------------------------------
(* One name at a time. *)

(* No collision is waited out, so there is never a monitor. *)
NeverWatching == monitor.state = "none"

(* No step creates a monitor if no collision is waited out. *)
LEMMA NeverWatchingStep ==
    ASSUME "unique" \notin Strategies, TypeOK, NeverWatching, [Next]_vars
    PROVE  NeverWatching'
  <1>1. collisions # "unique"
    BY DEF TypeOK
  <1>2. ASSUME NEW frames, HandleCollision(frames) PROVE monitor' = monitor
    BY <1>1, <1>2 DEF HandleCollision
  <1>3. ASSUME NEW groups, RestartClient(groups) PROVE monitor' = monitor
    BY <1>3 DEF RestartClient, NeverWatching
  <1>4. CASE Visit
    <2>1. ASSUME NEW s, NEW g, AddService(s, g) PROVE monitor' = monitor
      BY <1>2, <2>1 DEF AddService
    <2>2. monitor' = monitor
      BY <1>4, <2>1 DEF Visit, Run, Publish, ResetGroup, TouchFreed
    <2>3. QED  BY <2>2 DEF NeverWatching
  <1>5. CASE Notified
    BY <1>5 DEF Notified, NeverWatching
  <1>6. CASE ClientCb \/ \E s \in Types : CommitCb(s) \/ GroupCb(s)
    <2>1. monitor' = monitor
      BY <1>2, <1>3, <1>6 DEF ClientCb, CommitCb, GroupCb
    <2>2. QED  BY <2>1 DEF NeverWatching
  <1>7. ASSUME NEW p \in Slots
        PROVE  ~MonitorNew(p) /\ ~ServiceFoundCb(p) /\ ~ServiceRemovedCb(p)
    BY DEF MonitorNew, ServiceFoundCb, ServiceRemovedCb, NeverWatching
  <1>8. CASE Call
    <2>1. monitor' \in {monitor, NoMonitor}
      BY <1>8 DEF Call, RunDispatcher, AddServiceCall, AddServiceSubtype,
         SetServiceDetails, ResetDispatcher, SetName, SetCookie, GetCookie,
         SetCollisionHandling, Dispose
    <2>2. QED  BY <2>1 DEF NoMonitor, NeverWatching
  <1>9. CASE Environment \/ UNCHANGED vars
    BY <1>9 DEF Environment, GroupSettles, GroupFails, ClientChanges, RivalAppears,
                RivalLeaves, vars, NeverWatching
  <1>10. QED  BY <1>4, <1>5, <1>6, <1>7, <1>8, <1>9 DEF Next

(* A group holds other names only while a loop is still to reset it. *)
NameInv == \A s \in Types : entries[s] \subseteq {name} \/ ResetPending(s, stack)

(* A visit adds the present name only, and the one that ends a pending reset
   empties the group or finds none. *)
LEMMA VisitName ==
    ASSUME TypeOK, GroupInv, NameInv, Visit
    PROVE  NameInv'
  <1>1. PICK s \in Last(stack).left :
          MarkVisited(s) /\ (Run(s) \/ Publish(s) \/ ResetGroup(s) \/ TouchFreed(s))
    BY DEF Visit
  <1>2. GroupTyped /\ stack \in Seq(Frames) /\ stack # <<>>
    BY TypeParts DEF Visit, StackTyped
  <1>3. s \in Types
    BY <1>2, StackFacts
  <1>4. \A t : ResetPending(t, stack) /\ (t # s \/ Last(stack).op # "reset")
                 => ResetPending(t, After(s))
    BY <1>2, AfterFacts
  <1>5. ASSUME SuspendAll PROVE NameInv'
    BY <1>5, SuspendInv DEF NameInv
  <1>6. ASSUME /\ stack' = After(s)
               /\ name' = name
               /\ entries'[s] \subseteq entries[s] \cup {name}
               /\ \A t \in Types : t # s => entries'[t] = entries[t]
               /\ Last(stack).op # "reset" \/ entries'[s] \subseteq {name}
        PROVE  NameInv'
    <2> SUFFICES ASSUME NEW t \in Types, ~(entries'[t] \subseteq {name'})
                 PROVE  ResetPending(t, stack')
      BY DEF NameInv
    <2>1. ~(entries[t] \subseteq {name}) /\ (t # s \/ Last(stack).op # "reset")
      BY <1>6
    <2>2. QED  BY <1>4, <1>6, <2>1 DEF NameInv
  <1>7. ASSUME NEW g, AddService(s, g), Last(stack).op # "reset" \/ entries[s] = {}
        PROVE  NameInv'
    <2>1. CASE HandleCollision(After(s))
      BY <1>5, <2>1 DEF HandleCollision
    <2>2. CASE /\ entries' = [entries EXCEPT ![s] = @ \cup {name}]
               /\ stack' = After(s)
               /\ UNCHANGED name
      BY <1>2, <1>3, <1>6, <1>7, <2>2 DEF GroupTyped
    <2>3. CASE stack' = After(s) /\ UNCHANGED <<name, entries>>
      BY <1>6, <1>7, <2>3
    <2>4. QED  BY <1>7, <2>1, <2>2, <2>3 DEF AddService
  <1>8. CASE Run(s)
    <2>1. entries[s] = {}
      BY <1>3, <1>8 DEF Run, GroupInv
    <2>2. CASE AddService(s, "uncommited")
      BY <1>7, <2>1, <2>2
    <2>3. CASE stack' = After(s) /\ UNCHANGED <<name, monitor, groupVars, fault>>
      BY <1>6, <2>1, <2>3 DEF groupVars
    <2>4. QED  BY <1>8, <2>2, <2>3 DEF Run
  <1>9. CASE Publish(s)
    BY <1>7, <1>9 DEF Publish
  <1>10. CASE ResetGroup(s)
    <2>1. entries'[s] = {} /\ \A t \in Types : t # s => entries'[t] = entries[t]
      BY <1>2, <1>3, <1>10 DEF ResetGroup, GroupTyped
    <2>2. QED  BY <1>6, <1>10, <2>1 DEF ResetGroup
  <1>11. CASE TouchFreed(s)
    BY <1>11 DEF TouchFreed, groupVars, NameInv
  <1>12. QED  BY <1>1, <1>8, <1>9, <1>10, <1>11

(* Every step leaves the groups with the present name, or with a loop that
   will reset them. *)
LEMMA NameStep ==
    ASSUME TypeOK, GroupInv, NeverWatching, NameInv, [Next]_vars
    PROVE  NameInv'
  <1>1. GroupTyped /\ <<>> \in Seq(Frames) /\ services \subseteq Types
    BY TypeParts, EmptySeq DEF ConfigTyped
  <1>2. ASSUME SuspendAll \/ entries' = NoEntries PROVE NameInv'
    BY <1>2, SuspendInv DEF NameInv, NoEntries
  <1>3. ASSUME stack = <<>> \/ stack' = stack, UNCHANGED <<name, entries>> PROVE NameInv'
    <2>1. stack = <<>> => \A s \in Types : ~ResetPending(s, stack)
      BY EmptySeq DEF ResetPending
    <2>2. QED  BY <1>3, <2>1 DEF NameInv
  <1>4. CASE Visit \/ Notified
    <2>1. CASE Notified
      BY <1>1, <2>1, NotifiedFacts, TypeParts DEF StackTyped, Notified, groupVars, NameInv
    <2>2. QED  BY <1>4, <2>1, VisitName
  <1>5. CASE ClientCb \/ \E s \in Types : CommitCb(s) \/ GroupCb(s)
    BY <1>2, <1>3, <1>5 DEF ClientCb, CommitCb, GroupCb, MainLoop, HandleCollision,
                            RestartClient, groupVars
  <1>6. ASSUME NEW p \in Slots
        PROVE  ~MonitorNew(p) /\ ~ServiceFoundCb(p) /\ ~ServiceRemovedCb(p)
    BY DEF MonitorNew, ServiceFoundCb, ServiceRemovedCb, NeverWatching
  <1>7. CASE Call
    <2>1. CASE \E n \in Names : SetName(n)
      <3>1. stack' = Foreach(stack, "reset", services) /\ entries' = entries
        BY <2>1 DEF SetName, groupVars
      <3>2. \A s \in services : ResetPending(s, stack')
        BY <1>1, <3>1, ForeachFacts, TypeParts DEF StackTyped, Ops
      <3>3. \A s \in Types : s \in services \/ entries[s] = {}
        BY DEF GroupInv
      <3>4. QED  BY <3>1, <3>2, <3>3 DEF NameInv
    <2>2. CASE ResetDispatcher \/ Dispose
      BY <1>2, <2>2 DEF ResetDispatcher, Dispose
    <2>3. CASE \/ RunDispatcher \/ GetCookie
               \/ \E s \in Types : AddServiceCall(s) \/ AddServiceSubtype(s)
                                   \/ SetServiceDetails(s)
               \/ \E c \in AppCookies : SetCookie(c)
               \/ \E m \in Strategies : SetCollisionHandling(m)
      BY <1>3, <2>3 DEF RunDispatcher, GetCookie, AddServiceCall, AddServiceSubtype,
                        SetServiceDetails, SetCookie, SetCollisionHandling, MainLoop,
                        groupVars
    <2>4. QED  BY <1>7, <2>1, <2>2, <2>3 DEF Call
  <1>8. CASE Environment \/ UNCHANGED vars
    <2>1. UNCHANGED <<name, entries, stack>>
      BY <1>8 DEF Environment, GroupSettles, GroupFails, ClientChanges, RivalAppears,
                  RivalLeaves, vars, groupVars
    <2>2. QED  BY <2>1 DEF NameInv
  <1>9. QED  BY <1>4, <1>5, <1>6, <1>7, <1>8 DEF Next

(* Without the strategy that waits collisions out, no group holds records
   under a name the dispatcher no longer goes by once its loops have ended,
   however deep renamings were nested in loops that publish
   (epc_dispatcher_change_name, epc_dispatcher_set_property). *)
THEOREM OneNameAtATime ==
    ASSUME "unique" \notin Strategies PROVE Spec => []OneName
  <1>1. Init => NeverWatching /\ NameInv
    BY DEF Init, NoMonitor, NeverWatching, NoEntries, NameInv
  <1>2. TypeOK /\ NeverWatching /\ [Next]_vars => NeverWatching'
    BY NeverWatchingStep
  <1>3. TypeOK /\ GroupInv /\ NeverWatching /\ NameInv /\ [Next]_vars => NameInv'
    BY NameStep
  <1>4. NameInv => OneName
    BY EmptySeq DEF NameInv, OneName, MainLoop, ResetPending
  <1>5. QED  BY <1>1, <1>2, <1>3, <1>4, TypeCorrect, GroupsInOrder, PTL DEF Spec

-----------------------------------------------------------------------------
(* Waiting for our own kind. *)

(* The dispatcher and its services carry one cookie, and what the monitor
   knows of a name carries it too unless a stranger has announced that name. *)
Familiar(p) == monitor.known[p] \in {"none", "own"} \/ p \in strangers

CookieInv ==
    /\ cookie = "own"
    /\ services \subseteq marked
    /\ \A p \in Slots : rivals[p] = NoRival \/ rivals[p].cookie = "own" \/ p \in strangers
    /\ \A p \in Slots : Familiar(p)

OneCookie == AppCookies = {"own"} /\ "lost_cookie" \notin Hazards

(* Nothing but the announcement of a stranger brings another cookie in. *)
LEMMA CookieStep ==
    ASSUME OneCookie, TypeOK, GroupInv, CookieInv, [Next]_vars
    PROVE  CookieInv'
  <1>1. GroupTyped /\ monitor \in Monitors /\ rivals \in [Slots -> Rivals \cup {NoRival}]
    BY TypeParts DEF NameTyped, ConfigTyped
  <1>2. \A p \in Slots : NoneKnown[p] = "none" /\ NoMonitor.known[p] = "none"
    BY DEF NoneKnown, NoMonitor
  <1>3. ASSUME UNCHANGED rivalVars,
               \/ monitor' = monitor
               \/ monitor' = NoMonitor
               \/ \E st : monitor' = [monitor EXCEPT !.state = st]
               \/ \E T : monitor' = [state |-> "watching", types |-> T, known |-> NoneKnown]
        PROVE  \A p \in Slots : Familiar(p)'
    BY <1>1, <1>2, <1>3 DEF CookieInv, Monitors, Familiar, rivalVars
  <1>4. ASSUME UNCHANGED rivalVars, NEW frames, HandleCollision(frames)
        PROVE  \A p \in Slots : Familiar(p)'
    BY <1>3, <1>4 DEF HandleCollision, WatchOther
  <1>5. ASSUME UNCHANGED rivalVars, NEW groups, RestartClient(groups)
        PROVE  \A p \in Slots : Familiar(p)'
    BY <1>3, <1>5 DEF RestartClient
  <1>6. CASE Visit
    <2>1. UNCHANGED rivalVars
      BY <1>6 DEF Visit
    <2>2. ASSUME NEW s, NEW g, AddService(s, g)
          PROVE  \A p \in Slots : Familiar(p)'
      BY <1>3, <1>4, <2>1, <2>2 DEF AddService
    <2>3. \A p \in Slots : Familiar(p)'
      BY <1>3, <1>6, <2>1, <2>2 DEF Visit, Run, Publish, ResetGroup, TouchFreed
    <2>4. /\ UNCHANGED <<cookie, services>>
          /\ \E s : MarkVisited(s)
      BY <1>6 DEF Visit
    <2>5. services' \subseteq marked'
      BY <2>4 DEF MarkVisited, CookieInv
    <2>6. QED  BY <2>1, <2>3, <2>4, <2>5 DEF rivalVars, CookieInv
  <1>7. CASE Notified
    BY <1>7 DEF Notified, configVars, rivalVars, CookieInv, Familiar
  <1>8. CASE ClientCb \/ \E s \in Types : CommitCb(s) \/ GroupCb(s)
    <2>1. UNCHANGED rivalVars
      BY <1>8 DEF ClientCb, CommitCb, GroupCb
    <2>2. \A p \in Slots : Familiar(p)'
      BY <1>3, <1>4, <1>5, <1>8, <2>1 DEF ClientCb, CommitCb, GroupCb
    <2>3. QED
      BY <1>8, <2>1, <2>2 DEF ClientCb, CommitCb, GroupCb, configVars, rivalVars, CookieInv
  <1>9. ASSUME NEW p \in Slots, MonitorNew(p) PROVE CookieInv'
    <2>1. CookieOf(p) = "own" \/ p \in strangers
      <3>1. CASE rivals[p] # NoRival
        BY <3>1 DEF CookieOf, CookieInv
      <3>2. CASE rivals[p] = NoRival
        <4>1. entries[p[2]] # {} /\ p[2] \in Types
          BY <1>9, <3>2 DEF MonitorNew, Present, Slots
        <4>2. p[2] \in marked
          BY <4>1 DEF GroupInv, CookieInv
        <4>3. QED  BY <3>2, <4>2 DEF CookieOf, CookieInv
      <3>3. QED  BY <3>1, <3>2
    <2>2. monitor' = [monitor EXCEPT !.known[p] = CookieOf(p)] /\ UNCHANGED rivalVars
      BY <1>9 DEF MonitorNew
    <2>3. \A q \in Slots : monitor'.known[q] = IF q = p THEN CookieOf(p) ELSE monitor.known[q]
      BY <1>1, <2>2 DEF Monitors
    <2>4. \A q \in Slots : Familiar(q)'
      BY <2>1, <2>2, <2>3 DEF CookieInv, Familiar, rivalVars
    <2>5. QED  BY <1>9, <2>2, <2>4 DEF MonitorNew, configVars, rivalVars, CookieInv
  <1>10. ASSUME NEW p \in Slots, ServiceFoundCb(p) \/ ServiceRemovedCb(p) PROVE CookieInv'
    <2>1. UNCHANGED rivalVars /\ UNCHANGED configVars /\ UNCHANGED services
      BY <1>10 DEF ServiceFoundCb, ServiceRemovedCb
    <2>2. CASE monitor' = [monitor EXCEPT !.known[p] = "none"]
      <3>1. \A q \in Slots : Familiar(q)'
        BY <1>1, <2>1, <2>2 DEF Monitors, CookieInv, Familiar, rivalVars
      <3>2. QED  BY <2>1, <3>1 DEF configVars, rivalVars, CookieInv
    <2>3. CASE monitor' = NoMonitor \/ \E st : monitor' = [monitor EXCEPT !.state = st]
      <3>1. \A q \in Slots : Familiar(q)'
        BY <1>3, <2>1, <2>3
      <3>2. QED  BY <2>1, <3>1 DEF configVars, rivalVars, CookieInv
    <2>4. QED  BY <1>10, <2>2, <2>3 DEF ServiceFoundCb, ServiceRemovedCb
  <1>11. CASE Call
    <2>1. UNCHANGED rivalVars
      BY <1>11 DEF Call, RunDispatcher, AddServiceCall, AddServiceSubtype,
         SetServiceDetails, ResetDispatcher, SetName, SetCookie, GetCookie,
         SetCollisionHandling, Dispose
    <2>2. \A p \in Slots : Familiar(p)'
      BY <1>3, <1>11, <2>1 DEF Call, RunDispatcher, AddServiceCall, AddServiceSubtype,
         SetServiceDetails, ResetDispatcher, SetName, SetCookie, GetCookie,
         SetCollisionHandling, Dispose
    <2>3. EnsuredCookie = "own"
      BY DEF EnsuredCookie, CookieInv
    <2>4. cookie' = "own" /\ services' \subseteq marked'
      BY <1>11, <2>3 DEF Call, RunDispatcher, AddServiceCall, AddServiceSubtype,
         SetServiceDetails, ResetDispatcher, SetName, SetCookie, GetCookie,
         SetCollisionHandling, Dispose, configVars, CookieInv, OneCookie
    <2>5. QED  BY <2>1, <2>2, <2>4 DEF CookieInv, rivalVars
  <1>12. CASE Environment \/ UNCHANGED vars
    <2>1. monitor' = monitor /\ UNCHANGED configVars /\ UNCHANGED services
      BY <1>12 DEF Environment, GroupSettles, GroupFails, ClientChanges, RivalAppears,
                   RivalLeaves, vars
    <2>2. strangers \subseteq strangers'
      BY <1>12 DEF Environment, GroupSettles, GroupFails, ClientChanges, RivalAppears,
                   RivalLeaves, vars, rivalVars
    <2>3. \A q \in Slots : rivals'[q] = NoRival \/ rivals'[q].cookie = "own"
                           \/ q \in strangers'
      <3>1. CASE UNCHANGED rivalVars
        BY <3>1 DEF rivalVars, CookieInv
      <3>2. ASSUME NEW p \in Slots, RivalLeaves(p) \/ \E r \in Rivals : RivalAppears(p, r)
            PROVE  \A q \in Slots : rivals'[q] = NoRival \/ rivals'[q].cookie = "own"
                                    \/ q \in strangers'
        BY <1>1, <3>2 DEF RivalLeaves, RivalAppears, CookieInv
      <3>3. QED
        BY <1>12, <3>1, <3>2 DEF Environment, GroupSettles, GroupFails, ClientChanges, vars
    <2>4. QED  BY <2>1, <2>2, <2>3 DEF CookieInv, Familiar, configVars
  <1>13. QED  BY <1>6, <1>7, <1>8, <1>9, <1>10, <1>11, <1>12 DEF Next

(* The name changes by a call of the application, or for a stranger. *)
LEMMA NameKept ==
    ASSUME CookieInv, Next, collisions = "unique", TypeOK
    PROVE  name' = name \/ budget' # budget \/ \E s \in Types : <<name, s>> \in strangers
  <1>1. ASSUME NEW frames, HandleCollision(frames) PROVE name' = name
    BY <1>1 DEF HandleCollision
  <1>2. CASE Visit
    <2>1. ASSUME NEW s, NEW g, AddService(s, g) PROVE name' = name
      BY <1>1, <2>1 DEF AddService
    <2>2. QED  BY <1>2, <2>1 DEF Visit, Run, Publish, ResetGroup, TouchFreed
  <1>3. CASE Notified
    BY <1>3 DEF Notified
  <1>4. CASE ClientCb \/ \E s \in Types : CommitCb(s) \/ GroupCb(s)
    BY <1>1, <1>4 DEF ClientCb, CommitCb, GroupCb
  <1>5. ASSUME NEW p \in Slots, MonitorNew(p) \/ ServiceFoundCb(p) \/ ServiceRemovedCb(p)
        PROVE  name' = name \/ \E s \in Types : <<name, s>> \in strangers
    <2>1. CASE ServiceFoundCb(p)
      <3>1. p \in strangers
        BY <2>1 DEF ServiceFoundCb, Foreign, CookieInv, Familiar
      <3>2. p = <<name, p[2]>> /\ p[2] \in Types
        BY <2>1 DEF ServiceFoundCb, Slots
      <3>3. QED  BY <3>1, <3>2
    <2>2. QED  BY <1>5, <2>1 DEF MonitorNew, ServiceRemovedCb
  <1>6. CASE Call
    <2>1. Spend
      BY <1>6 DEF Call, RunDispatcher, AddServiceCall, AddServiceSubtype, SetServiceDetails,
             ResetDispatcher, SetName, SetCookie, GetCookie, SetCollisionHandling, Dispose
    <2>2. QED  BY <2>1, DispatcherAssumption DEF Spend, TypeOK
  <1>7. CASE Environment
    BY <1>7 DEF Environment, GroupSettles, GroupFails, ClientChanges, RivalAppears,
                RivalLeaves
  <1>8. QED  BY <1>2, <1>3, <1>4, <1>5, <1>6, <1>7 DEF Next

(* When the application uses one cookie and never drops it from the details of
   a service, the unique strategy renames the dispatcher only for a stranger
   that has announced its very name, whatever the daemon does
   (epc_dispatcher_service_found_cb). *)
THEOREM OnlyForStrangers == ASSUME OneCookie PROVE Spec => UniqueKeepsName
  <1>1. Init => CookieInv
    BY DEF Init, OneCookie, CookieInv, Familiar, NoMonitor, NoneKnown
  <1>2. TypeOK /\ GroupInv /\ CookieInv /\ [Next]_vars => CookieInv'
    BY CookieStep
  <1>3. TypeOK /\ CookieInv /\ [Next]_vars =>
          [collisions = "unique" =>
             name' = name \/ budget' # budget
             \/ \E s \in Types : <<name, s>> \in strangers]_vars
    BY NameKept
  <1>4. QED
    BY <1>1, <1>2, <1>3, TypeCorrect, GroupsInOrder, PTL DEF Spec, UniqueKeepsName

=============================================================================

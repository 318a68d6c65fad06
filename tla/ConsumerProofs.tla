--------------------------- MODULE ConsumerProofs ---------------------------
(***************************************************************************)
(* Theorems about the consumer.  The part that takes an argument is what   *)
(* may be on the stack: at most one unfinished signal that a publisher was *)
(* found, which still is an upgrade when it ends.                          *)
(***************************************************************************)
EXTENDS Consumer, SequenceTheorems, TLAPS

Protocols == {Unknown, Http, Https}

-----------------------------------------------------------------------------
(* The stack. *)

(* A signal that is emitted is for a service of our name, of a type in tp, and
   better than the protocol p. *)
GoodEmit(f, p, tp) ==
    f.offer \in Offers /\ f.offer.ours /\ f.offer.protocol \in tp /\ f.offer.protocol > p

EmitsGood(frames, p, tp) ==
    \A i \in 1..Len(frames) : frames[i].op = "emit" => GoodEmit(frames[i], p, tp)

OneEmit(frames) ==
    \A i, j \in 1..Len(frames) : frames[i].op = "emit" /\ frames[j].op = "emit" => i = j

NoEmit(frames) == \A i \in 1..Len(frames) : frames[i].op # "emit"

(* The services whose signal is being emitted. *)
Emitted(frames) == {frames[i].offer : i \in {j \in 1..Len(frames) : frames[j].op = "emit"}}

(* The application is asked while a message is being sent. *)
AsksNested(frames) ==
    \A i \in 1..Len(frames) : frames[i].op = "ask" => i > 1 /\ frames[i - 1].op = "send"

WellStacked(frames, p, tp) ==
    /\ frames \in Seq(Frames)
    /\ AsksNested(frames)
    /\ EmitsGood(frames, p, tp)
    /\ OneEmit(frames)

(* What appending a frame does to a sequence of frames. *)
LEMMA PushFacts ==
    ASSUME NEW frames \in Seq(Frames), NEW f \in Frames
    PROVE  /\ Append(frames, f) \in Seq(Frames)
           /\ Len(frames) \in Nat
           /\ Len(Append(frames, f)) = Len(frames) + 1
           /\ \A i \in 1..Len(frames) : Append(frames, f)[i] = frames[i]
           /\ Append(frames, f)[Len(frames) + 1] = f
  OBVIOUS

(* Any frame but a signal may be pushed, an "ask" on a message being sent. *)
LEMMA PushPlain ==
    ASSUME NEW frames, NEW p, NEW tp, WellStacked(frames, p, tp),
           NEW f \in Frames, f.op # "emit",
           f.op = "ask" => frames # <<>> /\ Last(frames).op = "send"
    PROVE  /\ WellStacked(Append(frames, f), p, tp)
           /\ Emitted(Append(frames, f)) = Emitted(frames)
  <1> DEFINE longer == Append(frames, f)
  <1>1. /\ longer \in Seq(Frames)
        /\ Len(frames) \in Nat
        /\ Len(longer) = Len(frames) + 1
        /\ \A i \in 1..Len(frames) : longer[i] = frames[i]
        /\ longer[Len(frames) + 1] = f
    BY PushFacts DEF WellStacked
  <1>2. f.op = "ask" => Len(frames) > 0 /\ frames[Len(frames)].op = "send"
    BY EmptySeq, <1>1 DEF WellStacked, Last
  <1> HIDE DEF longer
  <1>3. AsksNested(longer)
    <2> SUFFICES ASSUME NEW i \in 1..Len(longer), longer[i].op = "ask"
                 PROVE  i > 1 /\ longer[i - 1].op = "send"
      BY DEF AsksNested
    <2>1. CASE i = Len(frames) + 1
      BY <1>1, <1>2, <2>1
    <2>2. CASE i # Len(frames) + 1
      <3>1. i \in 1..Len(frames) /\ frames[i].op = "ask"
        BY <1>1, <2>2
      <3>2. i > 1 /\ frames[i - 1].op = "send" /\ i - 1 \in 1..Len(frames)
        BY <1>1, <3>1 DEF WellStacked, AsksNested
      <3>3. QED  BY <1>1, <3>2
    <2>3. QED  BY <2>1, <2>2
  <1>4. EmitsGood(longer, p, tp)
    BY <1>1 DEF WellStacked, EmitsGood
  <1>5. OneEmit(longer)
    BY <1>1 DEF WellStacked, OneEmit
  <1>6. Emitted(longer) = Emitted(frames)
    BY <1>1 DEF Emitted
  <1>7. QED  BY <1>1, <1>3, <1>4, <1>5, <1>6 DEF WellStacked, longer

(* A signal may be pushed if no other is being emitted. *)
LEMMA PushEmit ==
    ASSUME NEW frames, NEW p, NEW tp, WellStacked(frames, p, tp), NoEmit(frames),
           NEW f \in Frames, f.op = "emit", GoodEmit(f, p, tp)
    PROVE  /\ WellStacked(Append(frames, f), p, tp)
           /\ Emitted(Append(frames, f)) = {f.offer}
  <1> DEFINE longer == Append(frames, f)
  <1>1. /\ longer \in Seq(Frames)
        /\ Len(frames) \in Nat
        /\ Len(longer) = Len(frames) + 1
        /\ \A i \in 1..Len(frames) : longer[i] = frames[i]
        /\ longer[Len(frames) + 1] = f
    BY PushFacts DEF WellStacked
  <1> HIDE DEF longer
  <1>2. AsksNested(longer)
    <2> SUFFICES ASSUME NEW i \in 1..Len(longer), longer[i].op = "ask"
                 PROVE  i > 1 /\ longer[i - 1].op = "send"
      BY DEF AsksNested
    <2>1. i \in 1..Len(frames) /\ frames[i].op = "ask"
      BY <1>1
    <2>2. i > 1 /\ frames[i - 1].op = "send" /\ i - 1 \in 1..Len(frames)
      BY <1>1, <2>1 DEF WellStacked, AsksNested
    <2>3. QED  BY <1>1, <2>2
  <1>3. EmitsGood(longer, p, tp)
    BY <1>1 DEF WellStacked, EmitsGood
  <1>4. OneEmit(longer)
    BY <1>1 DEF NoEmit, OneEmit
  <1>5. Emitted(longer) = {f.offer}
    <2>1. \A i \in 1..Len(longer) : longer[i].op = "emit" <=> i = Len(frames) + 1
      BY <1>1 DEF NoEmit
    <2>2. Len(frames) + 1 \in 1..Len(longer)
      BY <1>1
    <2>3. {j \in 1..Len(longer) : longer[j].op = "emit"} = {Len(frames) + 1}
      BY <2>1, <2>2
    <2>4. QED  BY <1>1, <2>3 DEF Emitted
  <1>6. QED  BY <1>1, <1>2, <1>3, <1>4, <1>5 DEF WellStacked, longer

(* The innermost frame, and the stack without it. *)
LEMMA PopFacts ==
    ASSUME NEW frames \in Seq(Frames), frames # <<>>
    PROVE  /\ Len(frames) \in Nat \ {0}
           /\ Last(frames) = frames[Len(frames)]
           /\ Last(frames) \in Frames
           /\ Front(frames) \in Seq(Frames)
           /\ Len(Front(frames)) = Len(frames) - 1
           /\ \A i \in 1..(Len(frames) - 1) : Front(frames)[i] = frames[i]
  <1>1. Len(frames) \in Nat \ {0}
    BY EmptySeq
  <1>2. \A i \in 1..Len(frames) : frames[i] \in Frames
    BY ElementOfSeq
  <1>3. Last(frames) = frames[Len(frames)] /\ Last(frames) \in Frames
    BY <1>1, <1>2 DEF Last
  <1> DEFINE n == Len(frames) - 1
  <1>4. /\ SubSeq(frames, 1, n) \in Seq(Frames)
        /\ Len(SubSeq(frames, 1, n)) = n
        /\ \A i \in 1..n : SubSeq(frames, 1, n)[i] = frames[i]
    <2>1. n \in Nat /\ \A i \in 1..n : i \in 1..Len(frames) /\ frames[i] \in Frames
      BY <1>1, <1>2
    <2> HIDE DEF n
    <2>2. /\ SubSeq(frames, 1, n) \in Seq(Frames)
          /\ Len(SubSeq(frames, 1, n)) = IF 1 <= n THEN n - 1 + 1 ELSE 0
          /\ \A i \in 1..(n - 1 + 1) : SubSeq(frames, 1, n)[i] = frames[1 + i - 1]
      BY <2>1, SubSeqProperties
    <2>3. \A i \in 1..n : i \in 1..(n - 1 + 1) /\ 1 + i - 1 = i
      BY <2>1
    <2>4. QED  BY <2>1, <2>2, <2>3
  <1>5. QED  BY <1>1, <1>3, <1>4 DEF Front

(* Returning from a frame; once the signal has returned there is no other, so
   that the protocol may change. *)
LEMMA PopStack ==
    ASSUME NEW frames, NEW p, NEW tp, WellStacked(frames, p, tp), frames # <<>>
    PROVE  /\ WellStacked(Front(frames), p, tp)
           /\ Last(frames).op # "emit" => Emitted(Front(frames)) = Emitted(frames)
           /\ Last(frames).op = "emit"
                => /\ GoodEmit(Last(frames), p, tp)
                   /\ \A q : WellStacked(Front(frames), q, tp)
                   /\ Emitted(frames) = {Last(frames).offer}
                   /\ Emitted(Front(frames)) = {}
  <1> DEFINE front == Front(frames)
             n == Len(frames)
  <1>1. frames \in Seq(Frames) /\ AsksNested(frames) /\ EmitsGood(frames, p, tp)
        /\ OneEmit(frames)
    BY DEF WellStacked
  <1>2. /\ n \in Nat \ {0}
        /\ Last(frames) = frames[n]
        /\ front \in Seq(Frames)
        /\ Len(front) = n - 1
        /\ \A i \in 1..(n - 1) : front[i] = frames[i]
    BY <1>1, PopFacts
  <1> HIDE DEF front, n
  <1>3. \A i \in 1..Len(front) : i \in 1..n /\ i # n /\ front[i] = frames[i]
    BY <1>2
  <1>4. AsksNested(front) /\ OneEmit(front)
    <2>1. ASSUME NEW i \in 1..Len(front), front[i].op = "ask"
          PROVE  i > 1 /\ front[i - 1].op = "send"
      <3>1. i > 1 /\ frames[i - 1].op = "send"
        BY <1>1, <1>3, <2>1 DEF AsksNested, n
      <3>2. i - 1 \in 1..Len(front)
        BY <1>2, <3>1
      <3>3. QED  BY <1>3, <3>1, <3>2
    <2>2. QED  BY <1>1, <1>3, <2>1 DEF AsksNested, OneEmit, n
  <1>5. EmitsGood(front, p, tp)
    BY <1>1, <1>3 DEF EmitsGood, n
  <1>6. ASSUME Last(frames).op = "emit"
        PROVE  /\ GoodEmit(Last(frames), p, tp)
               /\ \A q : EmitsGood(front, q, tp)
               /\ Emitted(frames) = {Last(frames).offer}
               /\ Emitted(front) = {}
    <2>1. n \in 1..n /\ frames[n].op = "emit"
      BY <1>2, <1>6
    <2>2. GoodEmit(Last(frames), p, tp)
      BY <2>1, <1>1, <1>2 DEF EmitsGood, n
    <2>3. \A i \in 1..Len(front) : front[i].op # "emit"
      BY <2>1, <1>1, <1>3 DEF OneEmit, n
    <2>4. {j \in 1..n : frames[j].op = "emit"} = {n}
      BY <2>1, <1>1 DEF OneEmit, n
    <2>5. Emitted(frames) = {Last(frames).offer}
      BY <2>4, <1>2 DEF Emitted, n
    <2>6. QED  BY <2>2, <2>3, <2>5 DEF EmitsGood, Emitted
  <1>7. ASSUME Last(frames).op # "emit" PROVE Emitted(front) = Emitted(frames)
    <2>1. \A i \in 1..n : i \in 1..Len(front) \/ frames[i].op # "emit"
      BY <1>2, <1>7
    <2>2. {j \in 1..Len(front) : front[j].op = "emit"} = {j \in 1..n : frames[j].op = "emit"}
      BY <2>1, <1>3
    <2>3. QED  BY <2>2, <1>3 DEF Emitted, n
  <1>8. QED  BY <1>2, <1>4, <1>5, <1>6, <1>7 DEF WellStacked, front

(* Trying credentials changes nothing else of a stack. *)
LEMMA TryStack ==
    ASSUME NEW frames, NEW p, NEW tp, WellStacked(frames, p, tp), frames # <<>>,
           NEW c \in Credentials
    PROVE  /\ WellStacked([frames EXCEPT ![Len(frames)].tried = c], p, tp)
           /\ Emitted([frames EXCEPT ![Len(frames)].tried = c]) = Emitted(frames)
  <1> DEFINE n == Len(frames)
             f == [frames[n] EXCEPT !.tried = c]
             tries == [frames EXCEPT ![n] = f]
  <1>1. frames \in Seq(Frames)
    BY DEF WellStacked
  <1>2. n \in 1..n /\ n \in Nat
    BY <1>1, EmptySeq
  <1>3. frames[n] \in Frames
    BY <1>1, <1>2, ElementOfSeq
  <1>4. f \in Frames /\ f.op = frames[n].op /\ f.offer = frames[n].offer
    BY <1>3 DEF Frames
  <1>5. /\ tries \in Seq(Frames)
        /\ Len(tries) = n
        /\ \A i \in 1..n : tries[i] = IF i = n THEN f ELSE frames[i]
    <2> HIDE DEF f
    <2>1. QED  BY <1>1, <1>2, <1>4
  <1>6. \A i \in 1..n : tries[i].op = frames[i].op /\ tries[i].offer = frames[i].offer
    <2> HIDE DEF f, tries
    <2>1. QED  BY <1>4, <1>5
  <1> HIDE DEF tries, f
  <1>7. AsksNested(tries) /\ OneEmit(tries)
    <2>1. ASSUME NEW i \in 1..n, tries[i].op = "ask"
          PROVE  i > 1 /\ tries[i - 1].op = "send"
      <3>1. i > 1 /\ frames[i - 1].op = "send"
        BY <1>6, <2>1 DEF WellStacked, AsksNested
      <3>2. i - 1 \in 1..n
        BY <1>2, <3>1
      <3>3. QED  BY <1>6, <3>1, <3>2
    <2>2. QED  BY <1>5, <1>6, <2>1 DEF WellStacked, AsksNested, OneEmit
  <1>8. EmitsGood(tries, p, tp)
    BY <1>5, <1>6 DEF WellStacked, EmitsGood, GoodEmit
  <1>9. Emitted(tries) = Emitted(frames)
    BY <1>5, <1>6 DEF Emitted
  <1>10. QED  BY <1>5, <1>7, <1>8, <1>9 DEF WellStacked, tries, f

(* A frame of the kinds that actions push. *)
LEMMA FrameType ==
    /\ Frame("ask") \in Frames /\ Frame("ask").op = "ask"
    /\ \A o \in Offers \cup {NoOffer} :
         /\ [Frame("emit") EXCEPT !.offer = o] \in Frames
         /\ [Frame("emit") EXCEPT !.offer = o].op = "emit"
         /\ [Frame("emit") EXCEPT !.offer = o].offer = o
         /\ [Frame("send") EXCEPT !.offer = o] \in Frames
         /\ [Frame("send") EXCEPT !.offer = o].op = "send"
    /\ \A t, l \in BOOLEAN :
         /\ [Frame("wait") EXCEPT !.timed = t, !.lookup = l] \in Frames
         /\ [Frame("wait") EXCEPT !.timed = t, !.lookup = l].op = "wait"
    BY DEF Frame, Frames

-----------------------------------------------------------------------------
(* The invariant. *)

Resolvers == [offer : Offers, consumer : Consumers]

CoreTyped ==
    /\ created \in 0..MaxConsumers
    /\ consumer \in 0..created
    /\ credentials \in Credentials
    /\ browsed \subseteq Offers
    /\ net \subseteq Offers
    /\ running \in BOOLEAN
    /\ fault \in {"none", "freed"}
    /\ budget \in 0..MaxCalls
    /\ timers \in [Consumers -> Nat]

TargetTyped ==
    /\ protocol \in Protocols
    /\ endpoint \in Offers \cup {NoOffer}
    /\ types \subseteq {Http, Https}
    /\ met \subseteq {Http, Https}

(* The type invariant, split by what different steps disturb. *)
LEMMA TypeParts ==
    TypeOK <=> CoreTyped /\ TargetTyped /\ resolvers \subseteq Resolvers
                /\ stack \in Seq(Frames)
    BY DEF TypeOK, CoreTyped, TargetTyped, Protocols, Resolvers

(* Only a consumer monitors services; its resolvers are for types it monitors,
   and no resolver is for a consumer still to come. *)
ResolversInv ==
    /\ resolvers \subseteq Resolvers
    /\ types # {} => consumer # 0
    /\ \A r \in resolvers :
         r.consumer <= created /\ (r.consumer = consumer => r.offer.protocol \in types)

(* What was found is no better than the protocol in use, or than the service
   whose signal is being emitted; and what is in use was found. *)
MetInv ==
    /\ \A q \in met : q <= protocol \/ \E o \in Emitted(stack) : q <= o.protocol
    /\ \A o \in Emitted(stack) : o.protocol \in met
    /\ endpoint # NoOffer => protocol \in met
    /\ endpoint = NoOffer => protocol = Unknown \/ types \subseteq {protocol}

(* What the consumer promises of its endpoint. *)
TargetInv == EndpointIsOurs /\ MetInv

StackInv == WellStacked(stack, protocol, types)

ConsumerInv == CoreTyped /\ TargetTyped /\ ResolversInv /\ TargetInv /\ StackInv

(* The parts of an offer. *)
LEMMA OfferFacts ==
    ASSUME NEW o \in Offers
    PROVE  o.ours \in BOOLEAN /\ o.protocol \in {Http, Https} /\ o # NoOffer
    BY ConsumerAssumption

(* A call uses up one of those that are left. *)
LEMMA SpendType == ASSUME CoreTyped, Spend PROVE budget' \in 0..MaxCalls
  <1>1. budget \in 0..MaxCalls /\ budget > 0 /\ budget' = budget - 1 /\ MaxCalls \in Nat
    BY ConsumerAssumption DEF CoreTyped, Spend
  <1>2. QED  BY <1>1

(* A consumer is created: nothing is left of its predecessor but resolvers and
   time-outs, which belong to another. *)
LEMMA NewInv == ASSUME ConsumerInv, New PROVE ConsumerInv'
  <1> USE DEF ConsumerInv
  <1>1. /\ stack = <<>> /\ stack' = stack
        /\ created < MaxConsumers /\ created' = created + 1 /\ consumer' = created'
        /\ credentials' = "none" /\ running' = FALSE
        /\ browsed' = browsed /\ resolvers' = resolvers /\ timers' = timers
        /\ net' = net /\ fault' = fault
        /\ Spend
    BY DEF New, Call
  <1>2. CoreTyped'
    <2>1. budget' \in 0..MaxCalls
      BY <1>1, SpendType
    <2>2. created' \in 0..MaxConsumers /\ consumer' \in 0..created'
      <3>1. created \in 0..MaxConsumers /\ MaxConsumers \in Nat
        BY ConsumerAssumption DEF CoreTyped
      <3>2. QED  BY <1>1, <3>1
    <2>3. credentials' \in Credentials
      BY <1>1 DEF Credentials
    <2>4. QED  BY <1>1, <2>1, <2>2, <2>3 DEF CoreTyped
  <1>3. TargetTyped' /\ TargetInv'
    <2> Emitted(stack') = {}
      BY <1>1 DEF Emitted
    <2>1. CASE \E p \in {Unknown, Http, Https} : NewForName(p)
      BY <2>1 DEF NewForName, TypesFor, TargetTyped, Protocols, TargetInv, EndpointIsOurs,
                  MetInv
    <2>2. CASE \E o \in Offers : NewForService(o)
      <3>1. PICK o \in Offers : /\ protocol' = o.protocol /\ endpoint' = o /\ types' = {}
                               /\ met' = {o.protocol}
        BY <2>2 DEF NewForService
      <3>2. o.protocol \in {Http, Https} /\ o # NoOffer
        BY OfferFacts
      <3>3. o.protocol <= o.protocol
        BY <3>2 DEF Http, Https
      <3>4. QED
        BY <3>1, <3>2, <3>3 DEF TargetTyped, Protocols, TargetInv, EndpointIsOurs, MetInv
    <2>3. QED  BY <2>1, <2>2 DEF New
  <1>4. ResolversInv'
    <2>1. consumer' # 0
      BY <1>1 DEF CoreTyped
    <2>2. \A r \in resolvers : r.consumer \in Nat /\ r.consumer <= created
      BY DEF ResolversInv, Resolvers, Consumers
    <2>3. created \in Nat
      BY DEF CoreTyped
    <2>4. QED  BY <1>1, <2>1, <2>2, <2>3 DEF ResolversInv
  <1>5. StackInv'
    BY <1>1 DEF StackInv, WellStacked, AsksNested, EmitsGood, OneEmit
  <1>6. QED  BY <1>2, <1>3, <1>4, <1>5

(* A consumer is disposed of. *)
LEMMA DisposeInv == ASSUME ConsumerInv, Dispose PROVE ConsumerInv'
  <1> USE DEF ConsumerInv
  <1>1. /\ stack = <<>> /\ stack' = stack /\ consumer' = 0 /\ protocol' = Unknown
        /\ endpoint' = NoOffer /\ credentials' = "none" /\ types' = {} /\ browsed' = {}
        /\ met' = {} /\ running' = FALSE /\ created' = created /\ resolvers' = resolvers
        /\ timers' = timers /\ net' = net /\ fault' = fault
        /\ Spend
    BY DEF Dispose, Call
  <1>2. CoreTyped'
    <2>1. budget' \in 0..MaxCalls
      BY <1>1, SpendType
    <2>2. consumer' \in 0..created' /\ created' \in 0..MaxConsumers
      BY <1>1 DEF CoreTyped
    <2>3. credentials' \in Credentials
      BY <1>1 DEF Credentials
    <2>4. QED  BY <1>1, <2>1, <2>2, <2>3 DEF CoreTyped
  <1>3. TargetTyped' /\ TargetInv'
    BY <1>1 DEF TargetTyped, Protocols, TargetInv, EndpointIsOurs, MetInv, Emitted
  <1>4. ResolversInv'
    <2>1. \A r \in resolvers : r.consumer # 0
      BY DEF ResolversInv, Resolvers, Consumers
    <2>2. QED  BY <1>1, <2>1 DEF ResolversInv
  <1>5. StackInv'
    BY <1>1 DEF StackInv, WellStacked, AsksNested, EmitsGood, OneEmit
  <1>6. QED  BY <1>2, <1>3, <1>4, <1>5

(* Steps that change neither the consumer nor its target nor its resolvers. *)
LEMMA SameTarget ==
    ASSUME ConsumerInv, CoreTyped',
           UNCHANGED <<target, types, resolvers, met, consumer, created>>,
           WellStacked(stack', protocol, types), Emitted(stack') = Emitted(stack)
    PROVE  ConsumerInv'
  <1>1. TargetTyped' /\ TargetInv'
    BY DEF ConsumerInv, target, TargetTyped, TargetInv, EndpointIsOurs, MetInv
  <1>2. ResolversInv'
    BY DEF ConsumerInv, ResolversInv
  <1>3. StackInv'
    BY DEF StackInv, target
  <1>4. QED  BY <1>1, <1>2, <1>3 DEF ConsumerInv

(* What the browsers report. *)
LEMMA BrowserInv ==
    ASSUME ConsumerInv, NEW o \in Offers, BrowserNew(o) \/ BrowserRemove(o)
    PROVE  ConsumerInv'
  <1> USE DEF ConsumerInv
  <1>1. CASE BrowserNew(o)
    <2>1. /\ o.protocol \in types
          /\ resolvers' = resolvers \cup {[offer |-> o, consumer |-> consumer]}
          /\ browsed' = browsed \cup {o}
          /\ UNCHANGED <<identity, target, types, met, running, timers, stack, net, fault,
                         budget>>
      BY <1>1 DEF BrowserNew
    <2>2. consumer \in Consumers /\ consumer <= created
      BY <2>1, ConsumerAssumption DEF ResolversInv, CoreTyped, Consumers
    <2>3. ResolversInv'
      <3>1. [offer |-> o, consumer |-> consumer] \in Resolvers
        BY <2>2 DEF Resolvers
      <3>2. UNCHANGED <<consumer, created, types>>
        BY <2>1 DEF identity
      <3>3. QED  BY <2>1, <2>2, <3>1, <3>2 DEF ResolversInv
    <2>4. CoreTyped'
      BY <2>1 DEF CoreTyped, identity
    <2>5. TargetTyped' /\ TargetInv'
      BY <2>1 DEF target, TargetTyped, TargetInv, EndpointIsOurs, MetInv
    <2>6. StackInv'
      BY <2>1 DEF StackInv, target
    <2>7. QED  BY <2>3, <2>4, <2>5, <2>6
  <1>2. CASE BrowserRemove(o)
    <2>1. /\ browsed' = browsed \ {o}
          /\ UNCHANGED <<identity, target, types, resolvers, met, running, timers, stack,
                         net, fault, budget>>
      BY <1>2 DEF BrowserRemove
    <2>2. CoreTyped'
      BY <2>1 DEF CoreTyped, identity
    <2>3. QED  BY <2>1, <2>2, SameTarget DEF StackInv, identity
  <1>3. QED  BY <1>1, <1>2

(* A resolver has reported: a service of our name becomes the endpoint at once
   if it is no better than what we have, and after the signal otherwise. *)
LEMMA FoundInv ==
    ASSUME ConsumerInv, NEW r \in Resolvers, ResolverFound(r)
    PROVE  ConsumerInv'
  <1> USE DEF ConsumerInv
  <1> DEFINE o == r.offer
  <1>1. /\ r \in resolvers /\ resolvers' = resolvers \ {r}
        /\ UNCHANGED <<identity, types, browsed, timers, net, budget>>
        /\ ~Within("emit")
    BY DEF ResolverFound, AvahiDispatching
  <1>2. ResolversInv'
    BY <1>1 DEF ResolversInv, identity
  <1>3. ASSUME running' \in BOOLEAN, fault' \in {"none", "freed"} PROVE CoreTyped'
    BY <1>1, <1>3 DEF CoreTyped, identity
  <1>4. ASSUME UNCHANGED <<target, met, running, stack>>, fault' \in {"none", "freed"}
        PROVE  ConsumerInv'
    <2>1. CoreTyped'
      BY <1>3, <1>4 DEF CoreTyped
    <2>2. TargetTyped' /\ TargetInv' /\ StackInv'
      BY <1>1, <1>4 DEF target, TargetTyped, TargetInv, EndpointIsOurs, MetInv, StackInv
    <2>3. QED  BY <1>2, <2>1, <2>2
  <1>5. CASE r.consumer # consumer
    BY <1>4, <1>5 DEF ResolverFound
  <1>6. CASE r.consumer = consumer
    <2>1. /\ fault' = fault /\ ServiceFoundCb(o)
          /\ met' = IF o.ours THEN met \cup {o.protocol} ELSE met
      BY <1>6 DEF ResolverFound, Meet
    <2>2. o \in Offers /\ o.protocol \in {Http, Https} /\ o.protocol \in types
      BY <1>1, <1>6, OfferFacts DEF ResolversInv, Resolvers
    <2>3. CASE ~o.ours /\ UNCHANGED <<target, running, stack>>
      BY <1>4, <2>1, <2>3 DEF CoreTyped
    <2>4. CASE /\ o.ours /\ o.protocol > protocol
               /\ stack' = Append(stack, [Frame("emit") EXCEPT !.offer = o])
               /\ UNCHANGED <<target, running>>
      <3> DEFINE f == [Frame("emit") EXCEPT !.offer = o]
      <3>1. f \in Frames /\ f.op = "emit" /\ f.offer = o
        BY <2>2, FrameType
      <3> HIDE DEF f, o
      <3>2. GoodEmit(f, protocol, types)
        BY <2>2, <2>4, <3>1 DEF GoodEmit
      <3>3. NoEmit(stack)
        <4>1. stack \in Seq(Frames)
          BY DEF StackInv, WellStacked
        <4>2. DOMAIN stack = 1..Len(stack)
          BY <4>1
        <4>3. QED  BY <1>1, <4>2 DEF Within, NoEmit
      <3>4. /\ WellStacked(Append(stack, f), protocol, types)
            /\ Emitted(Append(stack, f)) = {o}
        BY <3>1, <3>2, <3>3, PushEmit DEF StackInv
      <3>5. StackInv'
        BY <1>1, <2>4, <3>4 DEF StackInv, target, f
      <3>6. CoreTyped'
        BY <1>3, <2>1, <2>4 DEF CoreTyped
      <3>7. Emitted(stack) = {} /\ Emitted(stack') = {o}
        BY <2>4, <3>3, <3>4 DEF NoEmit, Emitted, f
      <3>8. met' = met \cup {o.protocol} /\ o.protocol <= o.protocol
        BY <2>1, <2>2, <2>4 DEF Http, Https
      <3>9. TargetTyped' /\ TargetInv'
        BY <1>1, <2>2, <2>4, <3>7, <3>8
           DEF target, TargetTyped, TargetInv, EndpointIsOurs, MetInv
      <3>10. QED  BY <1>2, <3>5, <3>6, <3>9
    <2>5. CASE /\ o.ours /\ ~(o.protocol > protocol)
               /\ endpoint' = o /\ running' = FALSE
               /\ UNCHANGED <<protocol, stack>>
      <3>1. protocol \in Protocols /\ o.protocol <= protocol
        BY <2>2, <2>5 DEF TargetTyped, Protocols, Unknown, Http, Https
      <3>2. TargetTyped' /\ TargetInv'
        <4>1. met' = met \cup {o.protocol}
          BY <2>1, <2>5
        <4>2. protocol \in met'
          <5>1. protocol # Unknown
            BY <2>2, <3>1 DEF Unknown, Http, Https
          <5>2. endpoint = NoOffer => o.protocol = protocol
            BY <2>2, <5>1 DEF TargetInv, MetInv
          <5>3. QED  BY <4>1, <5>2 DEF TargetInv, MetInv
        <4>3. MetInv'
          <5>1. stack' = stack /\ protocol' = protocol /\ endpoint' # NoOffer
            BY <2>2, <2>5, OfferFacts
          <5>2. \A q \in met' : \/ q <= protocol
                                \/ \E e \in Emitted(stack) : q <= e.protocol
            BY <3>1, <4>1 DEF TargetInv, MetInv
          <5>3. \A e \in Emitted(stack) : e.protocol \in met'
            BY <4>1 DEF TargetInv, MetInv
          <5>4. QED  BY <4>2, <5>1, <5>2, <5>3 DEF MetInv
        <4>4. QED
          BY <1>1, <2>2, <2>5, <3>1, <4>1, <4>3 DEF TargetTyped, TargetInv, EndpointIsOurs
      <3>3. CoreTyped'
        BY <1>3, <2>1, <2>5 DEF CoreTyped
      <3>4. StackInv'
        BY <1>1, <2>5 DEF StackInv
      <3>5. QED  BY <1>2, <3>2, <3>3, <3>4
    <2>6. QED
      BY <2>1, <2>3, <2>4, <2>5 DEF ServiceFoundCb, Ignored, Upgrades, Adopt, target
  <1>7. QED  BY <1>5, <1>6

(* The signal has returned: its service is the endpoint, with its protocol. *)
LEMMA EmitInv == ASSUME ConsumerInv, EmitReturns PROVE ConsumerInv'
  <1> USE DEF ConsumerInv
  <1> DEFINE f == Last(stack)
  <1>1. /\ stack # <<>> /\ f.op = "emit" /\ protocol' = f.offer.protocol
        /\ endpoint' = f.offer /\ running' = FALSE /\ stack' = Front(stack)
        /\ UNCHANGED <<identity, monitorVars, timers, net, fault, budget>>
    BY DEF EmitReturns, Top, Adopt
  <1>2. /\ GoodEmit(f, protocol, types)
        /\ \A q : WellStacked(Front(stack), q, types)
        /\ Emitted(stack) = {f.offer}
        /\ Emitted(Front(stack)) = {}
    BY <1>1, PopStack DEF StackInv
  <1>3. f.offer.protocol \in {Http, Https} /\ f.offer.protocol <= f.offer.protocol
    BY <1>2, OfferFacts DEF GoodEmit, Http, Https
  <1> HIDE DEF f
  <1>4. TargetTyped' /\ EndpointIsOurs'
    BY <1>1, <1>2, <1>3 DEF GoodEmit, TargetTyped, Protocols, EndpointIsOurs, monitorVars
  <1>5. MetInv'
    <2>1. met' = met /\ f.offer.protocol \in met /\ protocol \in Protocols
      BY <1>1, <1>2 DEF monitorVars, TargetInv, MetInv, TargetTyped
    <2>2. \A q \in met : q <= f.offer.protocol
      <3> SUFFICES ASSUME NEW q \in met PROVE q <= f.offer.protocol
        OBVIOUS
      <3>1. q <= protocol \/ q <= f.offer.protocol
        BY <1>2 DEF TargetInv, MetInv
      <3>2. f.offer.protocol > protocol /\ q \in {Http, Https}
        BY <1>2 DEF GoodEmit, TargetTyped
      <3>3. QED  BY <1>3, <2>1, <3>1, <3>2 DEF Protocols, Unknown, Http, Https
    <2>3. f.offer # NoOffer
      BY <1>2, OfferFacts DEF GoodEmit
    <2>4. QED  BY <1>1, <1>2, <2>1, <2>2, <2>3 DEF MetInv
  <1>6. CoreTyped' /\ ResolversInv'
    BY <1>1 DEF CoreTyped, ResolversInv, identity, monitorVars
  <1>7. StackInv'
    BY <1>1, <1>2 DEF StackInv, monitorVars
  <1>8. QED  BY <1>4, <1>5, <1>6, <1>7 DEF TargetInv

(* Steps that leave the stack alone as well. *)
LEMMA Unmoved ==
    ASSUME ConsumerInv, CoreTyped', UNCHANGED <<identity, target, monitorVars, stack>>
    PROVE  ConsumerInv'
    BY SameTarget DEF ConsumerInv, StackInv, identity, monitorVars

(* The application sets its credentials. *)
LEMMA CredentialsInv ==
    ASSUME ConsumerInv, NEW c \in Credentials, SetCredentials(c)
    PROVE  ConsumerInv'
  <1>1. /\ Spend /\ credentials' = c
        /\ UNCHANGED <<consumer, created, target, monitorVars, running, timers, stack, net,
                       fault>>
    BY DEF SetCredentials, Call
  <1>2. CoreTyped'
    BY <1>1, SpendType DEF ConsumerInv, CoreTyped, monitorVars
  <1>3. QED
    BY <1>1, <1>2, SameTarget DEF ConsumerInv, StackInv, monitorVars

(* A resolver gives up. *)
LEMMA FailsInv ==
    ASSUME ConsumerInv, NEW r \in Resolvers, ResolverFails(r)
    PROVE  ConsumerInv'
  <1> USE DEF ConsumerInv
  <1>1. /\ resolvers' = resolvers \ {r}
        /\ UNCHANGED <<identity, target, types, browsed, met, running, timers, stack, net,
                       fault, budget>>
    BY DEF ResolverFails
  <1>2. CoreTyped' /\ ResolversInv'
    BY <1>1 DEF CoreTyped, ResolversInv, identity
  <1>3. TargetTyped' /\ TargetInv' /\ StackInv'
    BY <1>1 DEF target, TargetTyped, TargetInv, EndpointIsOurs, MetInv, StackInv
  <1>4. QED  BY <1>2, <1>3

(* What a request adds to the stack. *)
LEMMA RequestStack ==
    ASSUME TargetTyped, NEW frames, NEW lookup \in BOOLEAN,
           WellStacked(frames, protocol, types)
    PROVE  /\ WellStacked(Requesting(frames, lookup), protocol, types)
           /\ Emitted(Requesting(frames, lookup)) = Emitted(frames)
  <1> DEFINE f == [Frame("send") EXCEPT !.offer = endpoint]
  <1>1. f \in Frames /\ f.op = "send"
    BY FrameType DEF TargetTyped
  <1> HIDE DEF f
  <1>2. /\ WellStacked(Append(frames, f), protocol, types)
        /\ Emitted(Append(frames, f)) = Emitted(frames)
    BY <1>1, PushPlain
  <1>3. QED  BY <1>2 DEF Requesting, f

(* A wait begins, or a request does. *)
LEMMA ResolveInv ==
    ASSUME ConsumerInv, NEW timed \in BOOLEAN, NEW lookup \in BOOLEAN, Resolve(timed, lookup)
    PROVE  ConsumerInv'
  <1> USE DEF ConsumerInv
  <1>1. /\ Spend /\ consumer # 0
        /\ UNCHANGED <<identity, target, monitorVars, net, fault>>
    BY DEF Resolve, Call
  <1>2. budget' \in 0..MaxCalls
    BY <1>1, SpendType
  <1>3. CASE endpoint # NoOffer
    <2>1. stack' = Requesting(stack, lookup) /\ UNCHANGED <<running, timers>>
      BY <1>3 DEF Resolve
    <2>2. CoreTyped'
      BY <1>1, <1>2, <2>1 DEF CoreTyped, identity, monitorVars
    <2>3. WellStacked(stack', protocol, types) /\ Emitted(stack') = Emitted(stack)
      BY <2>1, RequestStack DEF StackInv
    <2>4. QED  BY <1>1, <2>2, <2>3, SameTarget DEF identity, monitorVars
  <1>4. CASE endpoint = NoOffer
    <2> DEFINE f == [Frame("wait") EXCEPT !.timed = timed, !.lookup = lookup]
    <2>1. stack' = Append(stack, f) /\ running' = TRUE /\ timers' = WithTimer(timed)
      BY <1>4 DEF Resolve
    <2>2. timers' \in [Consumers -> Nat]
      <3>1. timers \in [Consumers -> Nat] /\ consumer \in Consumers
        BY <1>1, ConsumerAssumption DEF CoreTyped, Consumers
      <3>2. timers[consumer] + 1 \in Nat
        BY <3>1
      <3>3. QED  BY <2>1, <3>1, <3>2 DEF WithTimer
    <2>3. CoreTyped'
      BY <1>1, <1>2, <2>1, <2>2 DEF CoreTyped, identity, monitorVars
    <2>4. f \in Frames /\ f.op = "wait"
      BY FrameType
    <2> HIDE DEF f
    <2>5. WellStacked(stack', protocol, types) /\ Emitted(stack') = Emitted(stack)
      BY <2>1, <2>4, PushPlain DEF StackInv
    <2>6. QED  BY <1>1, <2>3, <2>5, SameTarget DEF identity, monitorVars
  <1>5. QED  BY <1>3, <1>4

(* A time-out is over. *)
LEMMA WaitCbInv ==
    ASSUME ConsumerInv, NEW c \in Consumers, WaitCb(c)
    PROVE  ConsumerInv'
  <1>1. /\ timers[c] > 0 /\ timers' = [timers EXCEPT ![c] = @ - 1]
        /\ running' \in {running, FALSE} /\ fault' \in {fault, "freed"}
        /\ UNCHANGED <<identity, target, monitorVars, stack, net, budget>>
    BY DEF WaitCb
  <1>2. timers' \in [Consumers -> Nat]
    <2>1. timers \in [Consumers -> Nat]
      BY DEF ConsumerInv, CoreTyped
    <2>2. timers[c] - 1 \in Nat
      BY <1>1, <2>1
    <2>3. QED  BY <1>1, <2>1, <2>2
  <1>3. CoreTyped'
    BY <1>1, <1>2 DEF ConsumerInv, CoreTyped, identity, monitorVars
  <1>4. QED  BY <1>1, <1>3, Unmoved

(* What returns: a wait, perhaps to send its request, a message, the handlers
   that were asked for credentials. *)
LEMMA ReturnsInv ==
    ASSUME ConsumerInv, WaitReturns \/ SendReturns \/ AskReturns
    PROVE  ConsumerInv'
  <1> USE DEF ConsumerInv
  <1>1. /\ stack # <<>> /\ UNCHANGED <<identity, target, monitorVars, running, timers, net, fault>>
        /\ budget' = budget \/ Spend
    BY DEF WaitReturns, SendReturns, AskReturns, Top
  <1>2. CoreTyped'
    BY <1>1, SpendType DEF CoreTyped, identity, monitorVars
  <1>3. /\ WellStacked(Front(stack), protocol, types) /\ stack \in Seq(Frames)
        /\ Emitted(Front(stack)) = Emitted(stack)
    <2>1. Last(stack).op # "emit"
      BY DEF WaitReturns, SendReturns, AskReturns, Top
    <2>2. QED  BY <1>1, <2>1, PopStack DEF StackInv, WellStacked
  <1>4. CASE WaitReturns
    <2>1. Last(stack).lookup \in BOOLEAN
      BY <1>1, <1>3, PopFacts DEF Frames
    <2>2. WellStacked(stack', protocol, types) /\ Emitted(stack') = Emitted(stack)
      BY <1>3, <1>4, <2>1, RequestStack DEF WaitReturns
    <2>3. QED  BY <1>1, <1>2, <2>2, SameTarget DEF identity, monitorVars
  <1>5. CASE SendReturns
    BY <1>1, <1>2, <1>3, <1>5, SameTarget DEF SendReturns, identity, monitorVars
  <1>6. CASE AskReturns
    <2> DEFINE sends == Front(stack)
    <2>1. Last(stack).op = "ask"
      BY <1>6 DEF AskReturns, Top
    <2>2. sends # <<>> /\ Last(sends).op = "send"
      <3>1. /\ Len(stack) \in Nat \ {0} /\ Last(stack) = stack[Len(stack)]
            /\ Len(sends) = Len(stack) - 1 /\ sends \in Seq(Frames)
            /\ \A i \in 1..(Len(stack) - 1) : sends[i] = stack[i]
        BY <1>1, <1>3, PopFacts
      <3>2. Len(stack) > 1 /\ stack[Len(stack) - 1].op = "send"
        BY <2>1, <3>1 DEF StackInv, WellStacked, AsksNested
      <3> HIDE DEF sends
      <3>3. Len(sends) # 0 /\ sends[Len(sends)].op = "send"
        BY <3>1, <3>2
      <3>4. QED  BY <3>3, EmptySeq DEF Last
    <2>3. stack' = [sends EXCEPT ![Len(sends)].tried = credentials] \/ stack' = Front(sends)
      BY <1>6 DEF AskReturns
    <2>4. credentials \in Credentials
      BY DEF CoreTyped
    <2> HIDE DEF sends
    <2>5. WellStacked(sends, protocol, types) /\ Emitted(sends) = Emitted(stack)
      BY <1>3 DEF sends
    <2>6. /\ WellStacked([sends EXCEPT ![Len(sends)].tried = credentials], protocol, types)
          /\ Emitted([sends EXCEPT ![Len(sends)].tried = credentials]) = Emitted(sends)
      BY <2>2, <2>4, <2>5, TryStack
    <2>7. /\ WellStacked(Front(sends), protocol, types)
          /\ Last(sends).op = "send" => Emitted(Front(sends)) = Emitted(sends)
      BY <2>2, <2>5, PopStack
    <2>8. WellStacked(stack', protocol, types) /\ Emitted(stack') = Emitted(stack)
      BY <2>2, <2>3, <2>5, <2>6, <2>7
    <2>9. QED  BY <1>1, <1>2, <2>8, SameTarget DEF identity, monitorVars
  <1>7. QED  BY <1>4, <1>5, <1>6

(* The publisher asks for authentication. *)
LEMMA AuthenticateInv == ASSUME ConsumerInv, AuthenticateCb PROVE ConsumerInv'
  <1> USE DEF ConsumerInv
  <1>1. /\ stack # <<>> /\ Last(stack).op = "send"
        /\ stack' = Tried(credentials) \/ stack' = Append(stack, Frame("ask"))
        /\ UNCHANGED <<identity, target, monitorVars, running, timers, net, fault, budget>>
    BY DEF AuthenticateCb, Top
  <1>2. CoreTyped'
    BY <1>1 DEF CoreTyped, identity, monitorVars
  <1>3. /\ WellStacked(Tried(credentials), protocol, types)
        /\ Emitted(Tried(credentials)) = Emitted(stack)
    BY <1>1, TryStack DEF Tried, StackInv, CoreTyped
  <1>4. /\ WellStacked(Append(stack, Frame("ask")), protocol, types)
        /\ Emitted(Append(stack, Frame("ask"))) = Emitted(stack)
    <2> DEFINE f == Frame("ask")
    <2>1. f \in Frames /\ f.op = "ask"
      BY FrameType
    <2> HIDE DEF f
    <2>2. /\ WellStacked(Append(stack, f), protocol, types)
          /\ Emitted(Append(stack, f)) = Emitted(stack)
      BY <1>1, <2>1, PushPlain DEF StackInv
    <2>3. QED  BY <2>2 DEF f
  <1>5. WellStacked(stack', protocol, types) /\ Emitted(stack') = Emitted(stack)
    BY <1>1, <1>3, <1>4
  <1>6. QED  BY <1>1, <1>2, <1>5, SameTarget DEF identity, monitorVars

(* What is announced on the network changes. *)
LEMMA NetworkInv ==
    ASSUME ConsumerInv, NEW o \in Offers, OfferAppears(o) \/ OfferLeaves(o)
    PROVE  ConsumerInv'
  <1>1. /\ Spend /\ net' \in {net \cup {o}, net \ {o}}
        /\ UNCHANGED <<identity, target, monitorVars, running, timers, stack, fault>>
    BY DEF OfferAppears, OfferLeaves
  <1>2. CoreTyped'
    BY <1>1, SpendType DEF ConsumerInv, CoreTyped, identity, monitorVars
  <1>3. QED  BY <1>1, <1>2, Unmoved

-----------------------------------------------------------------------------
(* The theorems. *)

(* The invariant holds at first. *)
LEMMA InitInv == Init => ConsumerInv
  <1> SUFFICES ASSUME Init PROVE ConsumerInv
    OBVIOUS
  <1>1. CoreTyped
    <2>1. MaxConsumers \in Nat /\ MaxCalls \in Nat
      BY ConsumerAssumption
    <2>2. budget \in 0..MaxCalls /\ created \in 0..MaxConsumers /\ consumer \in 0..created
      BY <2>1 DEF Init
    <2>3. timers \in [Consumers -> Nat]
      BY DEF Init
    <2>4. QED  BY <2>2, <2>3 DEF Init, CoreTyped, Credentials
  <1>2. TargetTyped /\ TargetInv
    BY DEF Init, TargetTyped, Protocols, TargetInv, EndpointIsOurs, MetInv, Emitted
  <1>3. ResolversInv /\ StackInv
    BY DEF Init, ResolversInv, StackInv, WellStacked, AsksNested, EmitsGood, OneEmit
  <1>4. QED  BY <1>1, <1>2, <1>3 DEF ConsumerInv

(* Every step of the consumer preserves the invariant. *)
LEMMA StepInv == ConsumerInv /\ [Next]_vars => ConsumerInv'
  <1> SUFFICES ASSUME ConsumerInv, [Next]_vars PROVE ConsumerInv'
    OBVIOUS
  <1>1. CASE New
    BY <1>1, NewInv
  <1>2. CASE Dispose
    BY <1>2, DisposeInv
  <1>3. CASE \E c \in Credentials : SetCredentials(c)
    BY <1>3, CredentialsInv
  <1>4. CASE \E o \in Offers : BrowserNew(o) \/ BrowserRemove(o) \/ OfferAppears(o)
                                \/ OfferLeaves(o)
    BY <1>4, BrowserInv, NetworkInv
  <1>5. CASE \E r \in Resolvers : ResolverFound(r) \/ ResolverFails(r)
    BY <1>5, FoundInv, FailsInv
  <1>6. CASE EmitReturns
    BY <1>6, EmitInv
  <1>7. CASE \E timed, lookup \in BOOLEAN : Resolve(timed, lookup)
    BY <1>7, ResolveInv
  <1>8. CASE \E c \in Consumers : WaitCb(c)
    BY <1>8, WaitCbInv
  <1>9. CASE WaitReturns \/ SendReturns \/ AskReturns
    BY <1>9, ReturnsInv
  <1>10. CASE AuthenticateCb
    BY <1>10, AuthenticateInv
  <1>11. CASE UNCHANGED vars
    <2>1. CoreTyped' /\ UNCHANGED <<identity, target, monitorVars, stack>>
      BY <1>11 DEF vars, ConsumerInv, CoreTyped, identity, monitorVars
    <2>2. QED  BY <2>1, Unmoved
  <1>12. QED
    BY <1>1, <1>2, <1>3, <1>4, <1>5, <1>6, <1>7, <1>8, <1>9, <1>10, <1>11
       DEF Next, Resolvers

(* The invariant holds in every reachable state. *)
THEOREM InvariantHolds == Spec => []ConsumerInv
  BY InitInv, StepInv, PTL DEF Spec

(* Whatever is announced, called and waited for, every variable keeps its
   type. *)
THEOREM TypeCorrect == Spec => []TypeOK
  <1>1. ConsumerInv => TypeOK
    BY TypeParts DEF ConsumerInv, ResolversInv, StackInv, WellStacked
  <1>2. QED  BY <1>1, InvariantHolds, PTL

(* A consumer that looks for a publisher by name contacts none but that, over
   a protocol it monitors, whatever else is announced and however its waits
   are nested (epc_consumer_service_found_cb). *)
THEOREM EndpointSafe == Spec => []EndpointIsOurs
  <1>1. ConsumerInv => EndpointIsOurs
    BY DEF ConsumerInv, TargetInv
  <1>2. QED  BY <1>1, InvariantHolds, PTL

(* Whatever the order in which the resolvers report and handlers nest, the
   protocol in use is the best of all those over which this publisher was
   found, so that once it was found over HTTPS no request goes over HTTP
   (epc_consumer_service_found_cb). *)
THEOREM DowngradeSafe == Spec => []NeverDowngraded
  <1>1. ConsumerInv => NeverDowngraded
    <2> SUFFICES ASSUME ConsumerInv, endpoint # NoOffer, ~Within("emit")
                 PROVE  protocol \in met /\ \A p \in met : p <= protocol
      BY DEF NeverDowngraded
    <2>1. stack \in Seq(Frames) /\ DOMAIN stack = 1..Len(stack)
      BY DEF ConsumerInv, StackInv, WellStacked
    <2>2. Emitted(stack) = {}
      BY <2>1 DEF Within, Emitted
    <2>3. QED  BY <2>2 DEF ConsumerInv, TargetInv, MetInv
  <1>2. QED  BY <1>1, InvariantHolds, PTL

(* The protocol of a consumer only gets better, also when the handlers of the
   signal that announces an upgrade wait for the publisher themselves: there
   is one such signal at a time, and it still is an upgrade when it ends. *)
THEOREM OnlyUpgrades == Spec => ProtocolRises
  <1>1. ASSUME ConsumerInv, [Next]_vars
        PROVE  [consumer' = consumer => protocol' >= protocol]_vars
    <2> DEFINE rises == consumer' = consumer => protocol' >= protocol
    <2>1. CASE UNCHANGED protocol
      BY <1>1, <2>1 DEF ConsumerInv, TargetTyped, Protocols, Unknown, Http, Https
    <2>2. CASE New \/ Dispose
      <3>1. consumer' # consumer
        BY <1>1, <2>2 DEF New, Dispose, ConsumerInv, CoreTyped
      <3>2. QED  BY <3>1
    <2>3. CASE EmitReturns
      <3>1. stack # <<>> /\ Last(stack).op = "emit" /\ protocol' = Last(stack).offer.protocol
        BY <2>3 DEF EmitReturns, Top
      <3>2. GoodEmit(Last(stack), protocol, types)
        BY <1>1, <3>1, PopStack DEF ConsumerInv, StackInv
      <3>3. protocol' > protocol /\ protocol' \in {Http, Https} /\ protocol \in Protocols
        BY <1>1, <3>1, <3>2, OfferFacts DEF GoodEmit, ConsumerInv, TargetTyped
      <3>4. protocol' >= protocol
        BY <3>3 DEF Protocols, Unknown, Http, Https
      <3>5. QED  BY <3>4
    <2>4. UNCHANGED protocol \/ New \/ Dispose \/ EmitReturns
      BY <1>1 DEF vars, target, Next, SetCredentials, BrowserNew, BrowserRemove, OfferAppears,
                  OfferLeaves, ResolverFound, ServiceFoundCb, ResolverFails, Resolve, WaitCb,
                  WaitReturns, SendReturns, AuthenticateCb, AskReturns
    <2>5. QED  BY <2>1, <2>2, <2>3, <2>4
  <1>2. QED  BY <1>1, InvariantHolds, PTL DEF Spec, ProtocolRises

-----------------------------------------------------------------------------
(* Rendezvous. *)

LEMMA RendezvousInit == Init => R!Init
  BY DEF Init, R!Init, Unknown

(* Steps that leave the endpoint alone are none of the rendezvous. *)
LEMMA RendezvousStutter ==
    ASSUME UNCHANGED <<consumer, types, protocol, endpoint>>
    PROVE  UNCHANGED <<consumer # 0, types, protocol, endpoint>>
  OBVIOUS

(* Whoever is found without a signal is met at once. *)
LEMMA FoundMeets ==
    ASSUME ConsumerInv, NEW r \in Resolvers, ResolverFound(r)
    PROVE  [R!Next]_<<consumer # 0, types, protocol, endpoint>>
  <1> DEFINE o == r.offer
  <1>1. r \in resolvers /\ UNCHANGED <<identity, types>>
    BY DEF ResolverFound
  <1>2. CASE UNCHANGED target
    BY <1>1, <1>2, RendezvousStutter DEF target, identity
  <1>3. CASE /\ r.consumer = consumer /\ o.ours /\ ~(o.protocol > protocol)
             /\ endpoint' = o /\ UNCHANGED protocol
    <2>1. o \in Offers /\ o.protocol \in {Http, Https} /\ o.protocol \in types /\ consumer # 0
      BY <1>1, <1>3, OfferFacts DEF ConsumerInv, ResolversInv, Resolvers
    <2>2. R!Better(o.protocol, protocol) = protocol
      BY <1>3 DEF R!Better
    <2>3. R!Meet(o)
      BY <1>1, <1>3, <2>1, <2>2 DEF R!Meet, identity
    <2>4. QED  BY <2>1, <2>3 DEF R!Next
  <1>4. QED
    BY <1>1, <1>2, <1>3
       DEF ResolverFound, ServiceFoundCb, Ignored, Upgrades, Adopt, target

(* After the signal an upgrade is met. *)
LEMMA EmitMeets == ASSUME ConsumerInv, EmitReturns PROVE R!Next
  <1> DEFINE f == Last(stack)
             o == f.offer
  <1>1. /\ stack # <<>> /\ f.op = "emit" /\ protocol' = o.protocol /\ endpoint' = o
        /\ UNCHANGED <<consumer, types>>
    BY DEF EmitReturns, Top, Adopt, identity, monitorVars
  <1>2. GoodEmit(f, protocol, types)
    BY <1>1, PopStack DEF StackInv, ConsumerInv
  <1> HIDE DEF f
  <1>3. /\ o \in Offers /\ o.ours /\ o.protocol \in types /\ o.protocol > protocol
        /\ consumer # 0
    BY <1>2 DEF GoodEmit, ConsumerInv, ResolversInv
  <1>4. R!Better(o.protocol, protocol) = o.protocol
    BY <1>3 DEF R!Better
  <1>5. R!Meet(o)
    BY <1>1, <1>3, <1>4 DEF R!Meet
  <1>6. QED  BY <1>3, <1>5 DEF R!Next

(* A new consumer looks, or knows, and none is left when it is disposed of. *)
LEMMA LifeMeets == ASSUME ConsumerInv, New \/ Dispose PROVE R!Next
  <1>1. CASE New /\ \E p \in {Unknown, Http, Https} : NewForName(p)
    <2>1. PICK p \in {Unknown, Http, Https} : NewForName(p)
      BY <1>1
    <2>2. ~(consumer # 0) /\ consumer' # 0
      BY <1>1 DEF New, ConsumerInv, CoreTyped
    <2>3. R!Look
      BY <2>1, <2>2 DEF NewForName, TypesFor, R!Look, Unknown, Http, Https
    <2>4. QED  BY <2>3 DEF R!Next
  <1>2. CASE New /\ \E o \in Offers : NewForService(o)
    <2>1. PICK o \in Offers : NewForService(o)
      BY <1>2
    <2>2. ~(consumer # 0) /\ consumer' # 0
      BY <1>2 DEF New, ConsumerInv, CoreTyped
    <2>3. R!Know(o)
      BY <2>1, <2>2 DEF NewForService, R!Know
    <2>4. QED  BY <2>3 DEF R!Next
  <1>3. CASE Dispose
    <2>1. R!Leave
      BY <1>3 DEF Dispose, R!Leave, Unknown
    <2>2. QED  BY <2>1 DEF R!Next
  <1>4. QED  BY <1>1, <1>2, <1>3 DEF New

LEMMA RendezvousStep ==
    ASSUME ConsumerInv, [Next]_vars
    PROVE  [R!Next]_<<consumer # 0, types, protocol, endpoint>>
  <1>1. CASE New \/ Dispose
    BY <1>1, LifeMeets
  <1>2. CASE EmitReturns
    BY <1>2, EmitMeets
  <1>3. CASE \E r \in Resolvers : ResolverFound(r)
    BY <1>3, FoundMeets
  <1>4. CASE UNCHANGED <<consumer, types, protocol, endpoint>>
    BY <1>4, RendezvousStutter
  <1>5. \/ New \/ Dispose \/ EmitReturns
        \/ \E r \in Resolvers : ResolverFound(r)
        \/ UNCHANGED <<consumer, types, protocol, endpoint>>
    BY DEF vars, target, identity, monitorVars, Next, Resolvers, SetCredentials, BrowserNew,
           BrowserRemove, OfferAppears, OfferLeaves, ResolverFails, Resolve, WaitCb,
           WaitReturns, SendReturns, AuthenticateCb, AskReturns
  <1>6. QED  BY <1>1, <1>2, <1>3, <1>4, <1>5

(* With nested waits, signals that call back and resolvers left behind, for any
   number of services and consumers, a consumer implements the rendezvous: what it
   contacts is a publisher of its name met last, over a protocol it looks for, and
   what it remembers the best protocol met (epc_consumer_service_found_cb). *)
THEOREM ImplementsRendezvous == Spec => AsRendezvous
  BY RendezvousInit, RendezvousStep, InvariantHolds, PTL
     DEF Spec, AsRendezvous, R!Spec

=============================================================================

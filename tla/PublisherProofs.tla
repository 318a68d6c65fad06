-------------------------- MODULE PublisherProofs --------------------------
(***************************************************************************)
(* Theorems about the publisher: references to user data, the tags of its  *)
(* clients, what handlers may rely on, and what is announced.              *)
(***************************************************************************)
EXTENDS Publisher, FiniteSetTheorems, SequenceTheorems, TLAPS

AllKeys == Keys \cup {Root}

Requests == [state : {"idle", "auth", "ready", "handling", "sending"}, key : Keys \cup {NoKey},
             data : {0} \cup Data, server : 0..MaxServers, open : BOOLEAN]

-----------------------------------------------------------------------------
(* The inductive invariant. *)

(* Settings and server; every unfinished start still may create its server. *)
ServerOK ==
    /\ created \in Nat
    /\ server \in 0..created
    /\ created + Cardinality(Creating) <= MaxServers
    /\ started \in BOOLEAN
    /\ loop \in {"none", "running", "quit"}
    /\ auth \in {"none", "basic", "digest"}
    /\ dispatcher \in [state : {"none", "failed", "running"}, at : Places,
                       bookmark : Keys \cup {NoKey}]
    /\ named \in BOOLEAN
    /\ basic \in BOOLEAN
    /\ path \in Paths
    /\ protocol \in {"http", "https"}
    /\ files \subseteq {"certificate", "key"}
    /\ fault \in {"none", "silent", "assert", "freed_file"}
    /\ budget \in 0..MaxCalls

(* A request is in one frame of the stack as long as a handler runs for it. *)
Awaits(op) == IF op = "auth" THEN "auth" ELSE "handling"

Holds(f) == f.op \in {"auth", "handle"}

FramesOK(frames, cn, cl) ==
    /\ frames \in Seq(Frames)
    /\ \A i \in 1..Len(frames) :
         Holds(frames[i]) => /\ frames[i].socket \in Sockets
                             /\ cn[frames[i].socket].state = Awaits(frames[i].op)
    /\ \A i, j \in 1..Len(frames) :
         Holds(frames[i]) /\ Holds(frames[j]) /\ frames[i].socket = frames[j].socket => i = j
    /\ \A s \in Sockets :
         cn[s].state = "handling" =>
           /\ cn[s].open => s \in DOMAIN cl
           /\ \E i \in 1..Len(frames) : frames[i].op = "handle" /\ frames[i].socket = s

RequestOK(s) ==
    /\ conn[s].state = "idle" => conn[s] = NoRequest
    /\ conn[s].state # "idle" => conn[s].key \in Keys /\ conn[s].server \in 1..created
    /\ conn[s].data # 0 => conn[s].state = "sending"
    /\ ~conn[s].open => conn[s].server # server

TagOK(s) ==
    /\ clients[s] \in Nat
    /\ conn[s].open => clients[s] = IF conn[s].state = "handling" THEN 1 ELSE 0

RequestsOK ==
    /\ conn \in [Sockets -> Requests]
    /\ DOMAIN clients \subseteq Sockets
    /\ FramesOK(stack, conn, clients)
    /\ \A s \in Sockets : RequestOK(s)
    /\ \A s \in DOMAIN clients : TagOK(s)

(* User data belong to one resource, as its own or for its authentication;
   answers that are being sent hold further references. *)
Uses(r, d) == d \in {r.data, r.auth}

Owned(res, d) == \E k \in AllKeys : Uses(res[k], d)

Sending(cn, d) == {s \in Sockets : cn[s].data = d}

OneOwner(res) ==
    /\ \A k \in AllKeys : res[k].data # 0 => res[k].data # res[k].auth
    /\ \A k, l \in AllKeys : \A d \in Data : Uses(res[k], d) /\ Uses(res[l], d) => k = l

ResourcesOK ==
    /\ resources \in [AllKeys -> Resources]
    /\ bookmark \in Keys \cup {NoKey}
    /\ \A k \in AllKeys : resources[k].kind \in Kinds => resources[k].data # 0
    /\ \A k \in AllKeys : resources[k].kind = "none" => resources[k].data = 0 /\ resources[k].auth = 0
    /\ OneOwner(resources)

RefsOK ==
    /\ refs \in [Data -> Int]
    /\ \A d \in Data :
         refs[d] = (IF Owned(resources, d) THEN 1 ELSE 0) + Cardinality(Sending(conn, d))

(* Calls that release what a handler around them was given. *)
Nested == "nested_release" \in Hazards

(* Only handlers are given data, which have an owner while the handler runs,
   unless nested calls release them. *)
HeldOK ==
    \A i \in 1..Len(stack) :
      stack[i].data # 0 => Holds(stack[i]) /\ (Nested \/ Owned(resources, stack[i].data))

BaseInv == ServerOK /\ RequestsOK /\ ResourcesOK /\ RefsOK /\ HeldOK

(* Without quitting during a start, renaming to nothing and moving the contents. *)
StartInv ==
    /\ named = TRUE
    /\ Creating # {} => server = 0 /\ dispatcher.state = "running"
    /\ \A i, j \in Creating : i = j
    /\ server # 0 => /\ dispatcher.state = "running"
                     /\ dispatcher.at = Place(server)
                     /\ auth # "none"

BookmarkInv ==
    /\ ~resources[Root].label
    /\ bookmark # NoKey => resources[bookmark].kind # "none"
    /\ server = 0 => dispatcher.bookmark = NoKey
    /\ dispatcher.bookmark \in {NoKey, bookmark}
    /\ server # 0 =>
         /\ \A k \in AllKeys : resources[k].label => resources[k].at = Place(server)
         /\ bookmark # NoKey => resources[bookmark].label \/ dispatcher.bookmark = bookmark

-----------------------------------------------------------------------------
(* The stack. *)

(* Appending a frame. *)
LEMMA PushFacts ==
    ASSUME NEW f \in Seq(Frames), NEW g \in Frames
    PROVE  /\ Append(f, g) \in Seq(Frames)
           /\ Len(f) \in Nat
           /\ Len(Append(f, g)) = Len(f) + 1
           /\ \A i \in 1..Len(f) : Append(f, g)[i] = f[i]
           /\ Append(f, g)[Len(f) + 1] = g
           /\ \A i \in 1..Len(f) : f[i] \in Frames
  <1>1. \A i \in 1..Len(f) : f[i] \in Frames
    BY ElementOfSeq
  <1>2. QED  BY <1>1

(* The innermost frame, and the stack without it. *)
LEMMA PopFacts ==
    ASSUME NEW f \in Seq(Frames), f # <<>>
    PROVE  /\ Len(f) \in Nat \ {0}
           /\ Last(f) = f[Len(f)]
           /\ Last(f) \in Frames
           /\ Front(f) \in Seq(Frames)
           /\ Len(Front(f)) = Len(f) - 1
           /\ \A i \in 1..(Len(f) - 1) : Front(f)[i] = f[i]
           /\ \A i \in 1..Len(f) : f[i] \in Frames
  <1>1. Len(f) \in Nat \ {0}
    BY EmptySeq
  <1>2. \A i \in 1..Len(f) : f[i] \in Frames
    BY ElementOfSeq
  <1>3. Last(f) = f[Len(f)] /\ Last(f) \in Frames
    BY <1>1, <1>2 DEF Last
  <1> DEFINE n == Len(f) - 1
  <1>4. /\ SubSeq(f, 1, n) \in Seq(Frames)
        /\ Len(SubSeq(f, 1, n)) = n
        /\ \A i \in 1..n : SubSeq(f, 1, n)[i] = f[i]
    <2>1. n \in Nat /\ \A i \in 1..n : i \in 1..Len(f) /\ f[i] \in Frames
      BY <1>1, <1>2
    <2> HIDE DEF n
    <2>2. /\ SubSeq(f, 1, n) \in Seq(Frames)
          /\ Len(SubSeq(f, 1, n)) = IF 1 <= n THEN n - 1 + 1 ELSE 0
          /\ \A i \in 1..(n - 1 + 1) : SubSeq(f, 1, n)[i] = f[1 + i - 1]
      BY <2>1, SubSeqProperties
    <2>3. \A i \in 1..n : i \in 1..(n - 1 + 1) /\ 1 + i - 1 = i
      BY <2>1
    <2>4. QED  BY <2>1, <2>2, <2>3
  <1>5. QED  BY <1>1, <1>2, <1>3, <1>4 DEF Front

(* Unfinished starts are counted up and down as their frames come and go. *)
Starts(f) == {i \in 1..Len(f) : f[i].op = "create"}

LEMMA StartsFinite ==
    ASSUME NEW f \in Seq(Frames)
    PROVE  IsFiniteSet(Starts(f)) /\ Cardinality(Starts(f)) \in Nat
  <1>1. Len(f) \in Nat
    OBVIOUS
  <1>2. IsFiniteSet(1..Len(f))
    BY <1>1, FS_Interval
  <1>3. IsFiniteSet(Starts(f))
    BY <1>2, FS_Subset DEF Starts
  <1>4. QED  BY <1>3, FS_CardinalityType

LEMMA PushStarts ==
    ASSUME NEW f \in Seq(Frames), NEW g \in Frames
    PROVE  /\ g.op = "create" => /\ Starts(Append(f, g)) = Starts(f) \cup {Len(f) + 1}
                                 /\ Cardinality(Starts(Append(f, g))) = Cardinality(Starts(f)) + 1
           /\ g.op # "create" => Starts(Append(f, g)) = Starts(f)
  <1> DEFINE t == Append(f, g)
  <1>1. /\ Len(f) \in Nat
        /\ Len(t) = Len(f) + 1
        /\ \A i \in 1..Len(f) : t[i] = f[i]
        /\ t[Len(f) + 1] = g
    BY PushFacts
  <1> HIDE DEF t
  <1>2. g.op = "create" => Starts(t) = Starts(f) \cup {Len(f) + 1}
    BY <1>1 DEF Starts
  <1>3. g.op # "create" => Starts(t) = Starts(f)
    BY <1>1 DEF Starts
  <1>4. Len(f) + 1 \notin Starts(f)
    BY <1>1 DEF Starts
  <1>5. Cardinality(Starts(f) \cup {Len(f) + 1}) = Cardinality(Starts(f)) + 1
    BY <1>4, StartsFinite, FS_AddElement
  <1>6. QED  BY <1>2, <1>3, <1>5 DEF t

LEMMA PopStarts ==
    ASSUME NEW f \in Seq(Frames), f # <<>>
    PROVE  /\ Last(f).op = "create"
                => /\ Len(f) \in Starts(f)
                   /\ Starts(Front(f)) = Starts(f) \ {Len(f)}
                   /\ Cardinality(Starts(Front(f))) = Cardinality(Starts(f)) - 1
           /\ Last(f).op # "create" => Starts(Front(f)) = Starts(f)
  <1> DEFINE t == Front(f)
  <1>1. /\ Len(f) \in Nat \ {0}
        /\ Last(f) = f[Len(f)]
        /\ Len(t) = Len(f) - 1
        /\ \A i \in 1..(Len(f) - 1) : t[i] = f[i]
    BY PopFacts
  <1> HIDE DEF t
  <1>2. Last(f).op = "create" => Starts(t) = Starts(f) \ {Len(f)} /\ Len(f) \in Starts(f)
    BY <1>1 DEF Starts
  <1>3. Last(f).op # "create" => Starts(t) = Starts(f)
    BY <1>1 DEF Starts
  <1>4. Len(f) \in Starts(f) =>
          Cardinality(Starts(f) \ {Len(f)}) = Cardinality(Starts(f)) - 1
    BY StartsFinite, FS_RemoveElement
  <1>5. QED  BY <1>2, <1>3, <1>4 DEF t

-----------------------------------------------------------------------------
(* Frames and requests. *)

(* Starting and running wait for no request. *)
LEMMA PushWait ==
    ASSUME NEW f, NEW cn, NEW cl, FramesOK(f, cn, cl), NEW g \in Frames, ~Holds(g)
    PROVE  FramesOK(Append(f, g), cn, cl)
  <1> DEFINE t == Append(f, g)
  <1>1. /\ t \in Seq(Frames)
        /\ Len(f) \in Nat
        /\ Len(t) = Len(f) + 1
        /\ \A i \in 1..Len(f) : t[i] = f[i]
        /\ t[Len(f) + 1] = g
        /\ g.op # "handle"
    BY PushFacts DEF FramesOK, Holds
  <1> HIDE DEF t
  <1>2. QED  BY <1>1 DEF FramesOK, t

LEMMA PopWait ==
    ASSUME NEW f, NEW cn, NEW cl, FramesOK(f, cn, cl), f # <<>>, ~Holds(Last(f))
    PROVE  FramesOK(Front(f), cn, cl)
  <1> DEFINE t == Front(f)
  <1>1. /\ Len(f) \in Nat \ {0}
        /\ Last(f) = f[Len(f)]
        /\ t \in Seq(Frames)
        /\ Len(t) = Len(f) - 1
        /\ \A i \in 1..(Len(f) - 1) : t[i] = f[i]
        /\ Last(f).op # "handle"
    BY PopFacts DEF FramesOK, Holds
  <1> HIDE DEF t
  <1>2. \A i \in 1..Len(f) : i = Len(f) \/ i \in 1..Len(t)
    BY <1>1
  <1>3. QED  BY <1>1, <1>2, SMTT(30) DEF FramesOK, t

(* A handler is asked about a request nobody works for. *)
LEMMA PushHolder ==
    ASSUME NEW f, NEW cn, NEW cl, FramesOK(f, cn, cl),
           NEW g \in Frames, Holds(g), g.socket \in Sockets,
           cn[g.socket].state \notin {"auth", "handling"},
           NEW cn2, NEW cl2,
           cn2[g.socket].state = Awaits(g.op),
           \A s \in Sockets \ {g.socket} : cn2[s] = cn[s],
           DOMAIN cl \subseteq DOMAIN cl2,
           g.op = "handle" => g.socket \in DOMAIN cl2
    PROVE  FramesOK(Append(f, g), cn2, cl2)
  <1> DEFINE t == Append(f, g)
  <1>1. /\ t \in Seq(Frames)
        /\ Len(f) \in Nat
        /\ Len(t) = Len(f) + 1
        /\ \A i \in 1..Len(f) : t[i] = f[i]
        /\ t[Len(f) + 1] = g
    BY PushFacts DEF FramesOK
  <1> HIDE DEF t
  <1>2. \A i \in 1..Len(f) : Holds(f[i]) => f[i].socket \in Sockets \ {g.socket}
    BY DEF FramesOK, Awaits, Holds
  <1>3. \A i \in 1..Len(t) : i = Len(t) \/ i \in 1..Len(f)
    BY <1>1
  <1>4. \A i \in 1..Len(t) :
          Holds(t[i]) => t[i].socket \in Sockets /\ cn2[t[i].socket].state = Awaits(t[i].op)
    BY <1>1, <1>2, <1>3 DEF FramesOK
  <1>5. \A i, j \in 1..Len(t) :
          Holds(t[i]) /\ Holds(t[j]) /\ t[i].socket = t[j].socket => i = j
    BY <1>1, <1>2, <1>3 DEF FramesOK
  <1>6. ASSUME NEW s \in Sockets, cn2[s].state = "handling"
        PROVE  /\ cn2[s].open => s \in DOMAIN cl2
               /\ \E i \in 1..Len(t) : t[i].op = "handle" /\ t[i].socket = s
    <2>1. CASE s = g.socket
      <3>1. g.op = "handle" /\ Len(t) \in 1..Len(t)
        BY <2>1, <1>1, <1>6 DEF Awaits, Holds
      <3>2. QED  BY <3>1, <2>1, <1>1
    <2>2. CASE s # g.socket
      BY <2>2, <1>1, <1>6 DEF FramesOK
    <2>3. QED  BY <2>1, <2>2
  <1>7. QED  BY <1>1, <1>4, <1>5, <1>6 DEF FramesOK, t

(* A handler returns. *)
LEMMA PopHolder ==
    ASSUME NEW f, NEW cn, NEW cl, FramesOK(f, cn, cl), f # <<>>, Holds(Last(f)),
           NEW cn2, NEW cl2,
           cn2[Last(f).socket].state \notin {"auth", "handling"},
           \A s \in Sockets \ {Last(f).socket} : cn2[s] = cn[s],
           DOMAIN cl \subseteq DOMAIN cl2 \cup {Last(f).socket}
    PROVE  FramesOK(Front(f), cn2, cl2)
  <1> DEFINE t == Front(f)
             g == Last(f)
  <1>1. /\ Len(f) \in Nat \ {0}
        /\ g = f[Len(f)]
        /\ t \in Seq(Frames)
        /\ Len(t) = Len(f) - 1
        /\ \A i \in 1..(Len(f) - 1) : t[i] = f[i]
    BY PopFacts DEF FramesOK
  <1> HIDE DEF t, g
  <1>2. /\ Holds(g) /\ cn2[g.socket].state \notin {"auth", "handling"}
        /\ \A s \in Sockets \ {g.socket} : cn2[s] = cn[s]
        /\ DOMAIN cl \subseteq DOMAIN cl2 \cup {g.socket}
    BY DEF g
  <1>3. \A i \in 1..Len(t) : i \in 1..Len(f) /\ i # Len(f) /\ t[i] = f[i]
    BY <1>1
  <1>4. \A i \in 1..Len(t) : Holds(t[i]) => t[i].socket \in Sockets \ {g.socket}
    BY <1>1, <1>2, <1>3 DEF FramesOK
  <1>5. \A i \in 1..Len(t) : Holds(t[i]) => cn2[t[i].socket].state = Awaits(t[i].op)
    BY <1>2, <1>3, <1>4 DEF FramesOK
  <1>6. \A i, j \in 1..Len(t) :
          Holds(t[i]) /\ Holds(t[j]) /\ t[i].socket = t[j].socket => i = j
    BY <1>3 DEF FramesOK
  <1>7. ASSUME NEW s \in Sockets, cn2[s].state = "handling"
        PROVE  /\ cn2[s].open => s \in DOMAIN cl2
               /\ \E i \in 1..Len(t) : t[i].op = "handle" /\ t[i].socket = s
    <2>1. s # g.socket /\ cn2[s] = cn[s]
      BY <1>7, <1>2
    <2>2. cn2[s].open => s \in DOMAIN cl2
      BY <2>1, <1>2, <1>7 DEF FramesOK
    <2>3. PICK i \in 1..Len(f) : f[i].op = "handle" /\ f[i].socket = s
      BY <2>1, <1>7 DEF FramesOK
    <2>4. i # Len(f)
      BY <2>1, <2>3, <1>1
    <2>5. i \in 1..Len(t) /\ t[i] = f[i]
      BY <2>4, <1>1
    <2>6. QED  BY <2>2, <2>3, <2>5
  <1>8. QED  BY <1>1, <1>4, <1>5, <1>6, <1>7 DEF FramesOK, t

(* Nobody is asked and no handler returns. *)
LEMMA SameFrames ==
    ASSUME NEW f, NEW cn, NEW cl, FramesOK(f, cn, cl),
           NEW t \in Seq(Frames), Len(t) = Len(f),
           \A i \in 1..Len(f) : t[i].op = f[i].op /\ t[i].socket = f[i].socket,
           NEW cn2, NEW cl2,
           \A s \in Sockets :
             cn[s].state \in {"auth", "handling"} \/ cn2[s].state \in {"auth", "handling"} =>
               /\ cn2[s].state = cn[s].state
               /\ cn2[s].open => cn[s].open
               /\ s \in DOMAIN cl => s \in DOMAIN cl2
    PROVE  FramesOK(t, cn2, cl2)
  <1>1. \A i \in 1..Len(t) :
          Holds(t[i]) => t[i].socket \in Sockets /\ cn2[t[i].socket].state = Awaits(t[i].op)
    BY DEF FramesOK, Holds, Awaits
  <1>2. \A i, j \in 1..Len(t) :
          Holds(t[i]) /\ Holds(t[j]) /\ t[i].socket = t[j].socket => i = j
    BY DEF FramesOK, Holds
  <1>3. \A s \in Sockets :
          cn2[s].state = "handling" =>
            /\ cn2[s].open => s \in DOMAIN cl2
            /\ \E i \in 1..Len(t) : t[i].op = "handle" /\ t[i].socket = s
    BY DEF FramesOK
  <1>4. QED  BY <1>1, <1>2, <1>3 DEF FramesOK

(* Every index but the last one is below it. *)
LEMMA Below == \A k \in Nat : \A i \in 1..k : i # k => i \in 1..(k - 1)
    OBVIOUS

(* A call that drops user data clears them in the innermost frame; unless nested
   calls may, none drops those of the frames around it. *)
LEMMA DropFacts ==
    ASSUME stack \in Seq(Frames), NEW own, NEW gone, DropsData(own, gone)
    PROVE  /\ stack' \in Seq(Frames)
           /\ Len(stack') = Len(stack)
           /\ \A i \in 1..Len(stack) :
                /\ stack'[i].op = stack[i].op
                /\ stack'[i].socket = stack[i].socket
                /\ stack'[i].data \in {0, stack[i].data}
                /\ own /\ ~Nested /\ stack[i].data \in gone \ {0} => stack'[i].data = 0
                /\ stack'[i].data = 0 => stack[i].data = 0 \/ stack[i].data \in gone
           /\ Starts(stack') = Starts(stack)
  <1> DEFINE n == Len(stack)
             cleared == [stack[n] EXCEPT !.data = 0]
  <1>1. n \in Nat /\ DOMAIN stack = 1..n /\ (stack # <<>> => n \in 1..n)
    BY EmptySeq
  <1>2. \A i \in 1..n : stack[i] \in Frames
    BY ElementOfSeq
  <1>3. own /\ ~Nested => \A i \in 1..(n - 1) : stack[i].data \notin gone \ {0}
    BY DEF DropsData, Nested
  <1>4. CASE stack' = stack /\ ~(own /\ stack # <<>> /\ Last(stack).data \in gone \ {0})
    <2>1. ASSUME NEW i \in 1..n, own, ~Nested PROVE stack[i].data \notin gone \ {0}
      <3>1. stack # <<>> /\ Last(stack) = stack[n]
        BY <1>1, EmptySeq DEF Last
      <3>2. CASE i = n
        BY <1>4, <2>1, <3>1, <3>2
      <3>3. CASE i # n
        <4>1. i \in 1..(n - 1)
          BY <1>1, <3>3, Below
        <4>2. QED  BY <1>3, <2>1, <4>1
      <3>4. QED  BY <3>2, <3>3
    <2>2. QED  BY <1>4, <2>1
  <1>5. CASE /\ own /\ stack # <<>> /\ stack[n].data \in gone \ {0}
             /\ stack' = [stack EXCEPT ![n].data = 0]
    <2>1. n \in 1..n
      BY <1>1, <1>5
    <2>2. /\ cleared \in Frames /\ cleared.op = stack[n].op /\ cleared.data = 0
          /\ cleared.socket = stack[n].socket
      BY <1>2, <2>1 DEF Frames
    <2>3. /\ Len(stack') = n
          /\ \A i \in 1..n : stack'[i] = IF i = n THEN cleared ELSE stack[i]
          /\ DOMAIN stack' = 1..n
      BY <1>1, <1>5, <2>1
    <2> HIDE DEF cleared
    <2>4. \A i \in 1..n : stack'[i] \in Frames
      BY <1>2, <2>2, <2>3
    <2>5. stack' \in Seq(Frames)
      <3>1. stack' = [i \in 1..n |-> stack'[i]]
        BY <1>5, <1>1, <2>3
      <3>2. QED  BY <1>1, <2>4, <3>1
    <2>6. \A i \in 1..n :
            /\ stack'[i].op = stack[i].op
            /\ stack'[i].socket = stack[i].socket
            /\ stack'[i].data \in {0, stack[i].data}
            /\ own /\ ~Nested /\ stack[i].data \in gone \ {0} => stack'[i].data = 0
            /\ stack'[i].data = 0 => stack[i].data = 0 \/ stack[i].data \in gone
      <3>1. TAKE i \in 1..n
      <3>2. CASE i = n
        BY <1>5, <2>2, <2>3, <3>2
      <3>3. CASE i # n
        <4>1. i \in 1..(n - 1)
          BY <1>1, <3>3, Below
        <4>2. stack'[i] = stack[i]
          BY <2>3, <3>3, Zenon
        <4>3. QED  BY <1>3, <4>1, <4>2
      <3>4. QED  BY <3>2, <3>3
    <2>7. Starts(stack') = Starts(stack)
      BY <2>3, <2>6 DEF Starts
    <2>8. QED  BY <2>3, <2>5, <2>6, <2>7
  <1>6. QED  BY <1>4, <1>5 DEF DropsData, Last

-----------------------------------------------------------------------------
(* The calls under the lock, one by one. *)

LEMMA LockedCases ==
    ASSUME LockedCall
    PROVE  \E own \in BOOLEAN :
             /\ own \/ LockFree
             /\ \/ \E k \in Keys : RemoveKey(k, own)
                \/ \E k \in Keys, kind \in Kinds : AddHandler(k, kind, own)
                \/ \E k \in AllKeys : SetAuthHandler(k, own)
                \/ \E k \in AllKeys, labelled \in BOOLEAN : AddBookmark(k, labelled)
  BY DEF LockedCall, AllKeys

(* No such call starts or ends anything, whatever it does to the frames' data. *)
LEMMA LockedStack ==
    ASSUME stack \in Seq(Frames), LockedCall
    PROVE  /\ stack' \in Seq(Frames)
           /\ Len(stack') = Len(stack)
           /\ \A i \in 1..Len(stack) : stack'[i].op = stack[i].op /\ stack'[i].socket = stack[i].socket
           /\ Starts(stack') = Starts(stack)
  <1>1. PICK own \in BOOLEAN :
          \/ \E k \in Keys : RemoveKey(k, own)
          \/ \E k \in Keys, kind \in Kinds : AddHandler(k, kind, own)
          \/ \E k \in AllKeys : SetAuthHandler(k, own)
          \/ \E k \in AllKeys, labelled \in BOOLEAN : AddBookmark(k, labelled)
    BY LockedCases
  <1>2. \/ \E gone : DropsData(own, gone)
        \/ stack' = stack
    BY <1>1 DEF RemoveKey, AddHandler, SetAuthHandler, AddBookmark
  <1>3. CASE \E gone : DropsData(own, gone)
    BY <1>3, DropFacts
  <1>4. CASE stack' = stack
    BY <1>4
  <1>5. QED  BY <1>2, <1>3, <1>4

-----------------------------------------------------------------------------
(* The server and the settings. *)

Dispatchers == [state : {"none", "failed", "running"}, at : Places, bookmark : Keys \cup {NoKey}]

LEMMA AnnouncingType ==
    ASSUME NEW disp \in Dispatchers, NEW sv \in 0..MaxServers, NEW res,
           NEW b \in Keys \cup {NoKey}, path \in Paths
    PROVE  Announcing(disp, sv, res, b) \in Dispatchers
  <1>1. Place(sv) \in Places
    BY DEF Place, Places, Paths
  <1>2. QED  BY <1>1 DEF Announcing, Dispatchers

LEMMA NewDispatcherType ==
    \A st \in {"none", "failed", "running"} :
      /\ NewDispatcher(st) \in Dispatchers
      /\ NewDispatcher(st).state = st
      /\ NewDispatcher(st).bookmark = NoKey
  <1>1. Nowhere \in Places
    BY PublisherAssumption DEF Nowhere, Places
  <1>2. QED  BY <1>1 DEF NewDispatcher, NoDispatcher, Dispatchers

LEMMA FrameType ==
    /\ \A wait \in BOOLEAN : Frame("create", wait, NoSocket, 0) \in Frames
    /\ Frame("run", FALSE, NoSocket, 0) \in Frames
    /\ \A op \in {"auth", "handle"}, s \in Sockets, d \in {0} \cup Data :
         Frame(op, FALSE, s, d) \in Frames
  BY DEF Frame, Frames

(* Entering the loop adds at most a frame for it. *)
LEMMA EnterFacts ==
    ASSUME NEW frames \in Seq(Frames), NEW wait, Enter(frames, wait),
           loop \in {"none", "running", "quit"}
    PROVE  /\ stack' \in Seq(Frames)
           /\ stack' = frames \/ stack' = Append(frames, Frame("run", FALSE, NoSocket, 0))
           /\ Starts(stack') = Starts(frames)
           /\ started' = TRUE
           /\ loop' \in {"none", "running", "quit"}
  <1> DEFINE g == Frame("run", FALSE, NoSocket, 0)
  <1>1. g \in Frames /\ g.op # "create"
    BY FrameType DEF Frame
  <1>2. stack' = frames \/ stack' = Append(frames, g)
    BY DEF Enter
  <1> HIDE DEF g
  <1>3. Append(frames, g) \in Seq(Frames) /\ Starts(Append(frames, g)) = Starts(frames)
    BY <1>1, PushFacts, PushStarts
  <1>4. stack' \in Seq(Frames) /\ Starts(stack') = Starts(frames)
    BY <1>2, <1>3
  <1>5. started' = TRUE /\ loop' \in {"none", "running", "quit"}
    BY DEF Enter
  <1>6. QED  BY <1>2, <1>4, <1>5 DEF g

(* A step that leaves server and settings alone. *)
LEMMA ServerKept ==
    ASSUME ServerOK, Starts(stack') = Starts(stack), budget' \in 0..MaxCalls,
           fault' \in {"none", "silent", "assert", "freed_file"},
           dispatcher' \in Dispatchers,
           UNCHANGED <<server, created, started, loop, auth, named, basic, path, protocol, files>>
    PROVE  ServerOK'
  <1>1. Creating = Starts(stack) /\ Creating' = Starts(stack')
    BY DEF Creating, Starts
  <1>2. QED  BY <1>1 DEF ServerOK, Dispatchers

LEMMA Spending ==
    ASSUME budget \in 0..MaxCalls, Spend
    PROVE  budget' \in 0..MaxCalls /\ fault = "none"
  BY PublisherAssumption DEF Spend

(* What stopping does to the server. *)
LEMMA StopFacts ==
    ASSUME Stop, loop \in {"none", "running", "quit"}
    PROVE  /\ server' = 0
           /\ started' = FALSE
           /\ auth' = "none"
           /\ dispatcher' = NoDispatcher
           /\ dispatcher' \in Dispatchers
           /\ loop' \in {"none", "running", "quit"}
  <1>1. NewDispatcher("none") = NoDispatcher
    BY DEF NewDispatcher, NoDispatcher
  <1>2. NoDispatcher \in Dispatchers
    BY <1>1, NewDispatcherType
  <1>3. QED  BY <1>2 DEF Stop

(* The frames that requests push. *)
LEMMA Asking ==
    ASSUME ResourcesOK, RequestsOK, NEW s \in Sockets
    PROVE  /\ \A k \in Keys :
                Request(s, k) => /\ AuthOf(k) \in {0} \cup Data
                                 /\ \/ stack' = stack
                                    \/ stack' = Append(stack, Frame("auth", FALSE, s, AuthOf(k)))
           /\ Handle(s) => /\ conn[s].key \in Keys
                           /\ resources[conn[s].key] \in Resources
                           /\ \/ stack' = stack
                              \/ /\ resources[conn[s].key].data \in {0} \cup Data
                                 /\ stack' = Append(stack, Frame("handle", FALSE, s,
                                                                resources[conn[s].key].data))
  <1>1. ASSUME NEW k \in Keys, Request(s, k)
        PROVE  /\ AuthOf(k) \in {0} \cup Data
               /\ \/ stack' = stack
                  \/ stack' = Append(stack, Frame("auth", FALSE, s, AuthOf(k)))
    <2>1. resources[k] \in Resources /\ resources[Root] \in Resources
      BY DEF ResourcesOK, AllKeys
    <2>2. AuthOf(k) \in {0} \cup Data
      BY <2>1 DEF AuthOf, Resources
    <2>3. QED  BY <1>1, <2>2 DEF Request
  <1>2. ASSUME Handle(s)
        PROVE  /\ conn[s].key \in Keys
               /\ resources[conn[s].key] \in Resources
               /\ \/ stack' = stack
                  \/ /\ resources[conn[s].key].data \in {0} \cup Data
                     /\ stack' = Append(stack, Frame("handle", FALSE, s,
                                                    resources[conn[s].key].data))
    <2>1. conn[s].state = "ready"
      BY <1>2 DEF Handle
    <2>2. conn[s].key \in Keys
      BY <2>1 DEF RequestsOK, RequestOK
    <2>3. resources[conn[s].key] \in Resources
      BY <2>2 DEF ResourcesOK, AllKeys
    <2>4. resources[conn[s].key].data \in {0} \cup Data
      BY <2>3 DEF Resources
    <2>5. QED  BY <1>2, <2>2, <2>3, <2>4 DEF Handle
  <1>3. QED  BY <1>1, <1>2

LEMMA ServerStep ==
    ASSUME ServerOK, RequestsOK, ResourcesOK, [Next]_vars
    PROVE  ServerOK'
  <1> DEFINE n == Cardinality(Starts(stack))
  <1>0. /\ stack \in Seq(Frames)
        /\ bookmark \in Keys \cup {NoKey}
        /\ Creating = Starts(stack) /\ Creating' = Starts(stack')
        /\ n \in Nat /\ created \in Nat /\ server \in 0..created /\ created + n <= MaxServers
        /\ MaxServers \in Nat /\ MaxCalls \in Nat
        /\ budget \in 0..MaxCalls
        /\ dispatcher \in Dispatchers
        /\ path \in Paths
        /\ server \in 0..MaxServers
    <2>1. stack \in Seq(Frames) /\ bookmark \in Keys \cup {NoKey}
      BY DEF RequestsOK, FramesOK, ResourcesOK
    <2>2. n \in Nat
      BY <2>1, StartsFinite
    <2>3. Creating = Starts(stack) /\ Creating' = Starts(stack')
      BY DEF Creating, Starts
    <2>4. QED  BY <2>1, <2>2, <2>3, PublisherAssumption DEF ServerOK, Dispatchers
  <1> HIDE DEF n
  <1>1. CASE LockedCall
    <2>1. budget' \in 0..MaxCalls
      BY <1>1, <1>0, Spending DEF LockedCall
    <2>2. Starts(stack') = Starts(stack)
      BY <1>0, <1>1, LockedStack
    <2>3. dispatcher' \in Dispatchers
      <3>1. PICK own \in BOOLEAN :
              \/ \E k \in Keys : RemoveKey(k, own)
              \/ \E k \in Keys, kind \in Kinds : AddHandler(k, kind, own)
              \/ \E k \in AllKeys : SetAuthHandler(k, own)
              \/ \E k \in AllKeys, labelled \in BOOLEAN : AddBookmark(k, labelled)
        BY <1>1, LockedCases
      <3>2. CASE \E k \in Keys : RemoveKey(k, own)
        <4>1. \/ dispatcher' = dispatcher
              \/ dispatcher' = Announcing(dispatcher, server, resources, NoKey)
          BY <3>2 DEF RemoveKey
        <4>2. QED  BY <4>1, <1>0, AnnouncingType
      <3>3. CASE \E k \in Keys, kind \in Kinds : AddHandler(k, kind, own)
        BY <3>3, <1>0 DEF AddHandler
      <3>4. CASE \E k \in AllKeys : SetAuthHandler(k, own)
        BY <3>4, <1>0 DEF SetAuthHandler
      <3>5. CASE \E k \in AllKeys, labelled \in BOOLEAN : AddBookmark(k, labelled)
        <4>1. bookmark' \in Keys \cup {NoKey}
          BY <1>0, <3>5 DEF AddBookmark, AllKeys
        <4>2. dispatcher' = dispatcher
              \/ \E res : dispatcher' = Announcing(dispatcher, server, res, bookmark')
          BY <3>5 DEF AddBookmark, Announce
        <4>3. QED  BY <4>1, <4>2, <1>0, AnnouncingType
      <3>6. QED  BY <3>1, <3>2, <3>3, <3>4, <3>5
    <2>4. QED
      BY <1>1, <2>1, <2>2, <2>3, ServerKept DEF LockedCall, serverVars, settings, ServerOK
  <1>2. ASSUME NEW wait \in BOOLEAN, RunAgain(wait), Spend PROVE ServerOK'
    <2>1. budget' \in 0..MaxCalls
      BY <1>2, <1>0, Spending
    <2>2. /\ Starts(stack') = Starts(stack) /\ started' = TRUE
          /\ loop' \in {"none", "running", "quit"}
      BY <1>0, <1>2, EnterFacts DEF RunAgain, ServerOK
    <2>3. QED  BY <1>0, <1>2, <2>1, <2>2 DEF RunAgain, ServerOK, settings
  <1>3. ASSUME NEW wait \in BOOLEAN, CreateServer(wait), Spend PROVE ServerOK'
    <2>1. budget' \in 0..MaxCalls /\ created + n < MaxServers
      BY <1>3, <1>0, Spending DEF CreateServer, n
    <2>2. CASE stack' = Append(stack, Frame("create", wait, NoSocket, 0))
               /\ dispatcher' = NewDispatcher("running")
               /\ UNCHANGED <<serverVars, loop, resources, protocol, fault>>
      <3>1. Cardinality(Starts(stack')) = n + 1
        BY <1>0, <2>2, PushStarts, FrameType DEF Frame, n
      <3>2. dispatcher' \in Dispatchers
        BY <2>2, NewDispatcherType
      <3>3. named' \in BOOLEAN /\ UNCHANGED <<basic, path, files>>
        BY <1>3 DEF CreateServer
      <3>4. QED
        BY <2>1, <2>2, <3>1, <3>2, <3>3, <1>0 DEF ServerOK, serverVars, Dispatchers
    <2>3. CASE /\ Serve(stack, wait)
               /\ dispatcher' = Announcing(NewDispatcher("running"), server', resources, bookmark)
               /\ IF protocol = "https" /\ files # {"certificate", "key"}
                  THEN protocol' = "http" /\ fault' = "freed_file"
                  ELSE UNCHANGED <<protocol, fault>>
      <3>1. created' = created + 1 /\ server' = created + 1 /\ auth' \in {"none", "basic", "digest"}
        BY <2>3 DEF Serve, AuthDomain
      <3>2. /\ Starts(stack') = Starts(stack) /\ started' = TRUE
            /\ loop' \in {"none", "running", "quit"}
        BY <1>0, <2>3, EnterFacts DEF Serve, ServerOK
      <3>3. server' \in 0..MaxServers
        BY <3>1, <2>1, <1>0
      <3>4. dispatcher' \in Dispatchers
        BY <2>3, <3>3, <1>0, NewDispatcherType, AnnouncingType
      <3>5. /\ protocol' \in {"http", "https"}
            /\ fault' \in {"none", "silent", "assert", "freed_file"}
        BY <2>3 DEF ServerOK
      <3>6. named' \in BOOLEAN /\ UNCHANGED <<basic, path, files>>
        BY <1>3 DEF CreateServer
      <3>7. /\ created' \in Nat /\ server' \in 0..created'
            /\ created' + Cardinality(Starts(stack')) <= MaxServers
        BY <3>1, <3>2, <2>1, <1>0 DEF n
      <3>8. QED
        BY <2>1, <3>1, <3>2, <3>4, <3>5, <3>6, <3>7, <1>0 DEF ServerOK, Dispatchers
    <2>4. QED  BY <1>3, <2>2, <2>3 DEF CreateServer
  <1>4. CASE RunInVain
    <2>1. budget' \in 0..MaxCalls
      BY <1>4, <1>0, Spending DEF RunInVain
    <2>2. /\ stack' = stack
          /\ dispatcher' \in Dispatchers
          /\ fault' \in {"none", "silent", "assert", "freed_file"}
          /\ named' \in BOOLEAN
          /\ UNCHANGED <<server, created, started, loop, auth, basic, path, protocol, files>>
      BY <1>4, <1>0, NewDispatcherType
         DEF RunInVain, RunRefused, RunFails, ServerOK, serverVars, settings
    <2>3. QED  BY <2>1, <2>2, <1>0 DEF ServerOK, Dispatchers
  <1>5. CASE Quit
    <2>1. budget' \in 0..MaxCalls
      BY <1>5, <1>0, Spending DEF Quit
    <2>2. /\ server' = 0 /\ started' = FALSE /\ auth' = "none" /\ dispatcher' \in Dispatchers
          /\ loop' \in {"none", "running", "quit"}
      BY <1>5, StopFacts DEF Quit, ServerOK
    <2>3. UNCHANGED <<created, named, basic, path, protocol, files, stack, fault>>
      BY <1>5 DEF Quit, settings
    <2>4. server' \in 0..created' /\ created' + Cardinality(Creating') <= MaxServers
      BY <2>2, <2>3, <1>0 DEF ServerOK
    <2>5. QED  BY <2>1, <2>2, <2>3, <2>4 DEF ServerOK, Dispatchers
 <1>6. CASE Dispose
    <2>1. budget' \in 0..MaxCalls
      BY <1>6, <1>0, Spending DEF Dispose
    <2>2. /\ server' = 0 /\ started' = FALSE /\ auth' = "none" /\ dispatcher' \in Dispatchers
          /\ loop' \in {"none", "running", "quit"}
      BY <1>6, StopFacts DEF Dispose, ServerOK
    <2>3. /\ UNCHANGED <<created, stack, fault>>
          /\ named' \in BOOLEAN /\ basic' \in BOOLEAN /\ path' \in Paths
          /\ protocol' \in {"http", "https"} /\ files' \subseteq {"certificate", "key"}
      <3>1. Fresh /\ UNCHANGED <<created, stack, fault>>
        BY <1>6 DEF Dispose
      <3>2. named' = TRUE /\ basic' = FALSE /\ path' = 1 /\ protocol' = "https" /\ files' = {}
        BY <3>1 DEF Fresh
      <3>3. path' \in Paths
        BY <3>2 DEF Paths
      <3>4. QED  BY <3>1, <3>2, <3>3
    <2>4. server' \in 0..created' /\ created' + Cardinality(Creating') <= MaxServers
      BY <2>2, <2>3, <1>0 DEF ServerOK
    <2>5. QED  BY <2>1, <2>2, <2>3, <2>4 DEF ServerOK, Dispatchers
 <1>7. CASE SetProperty
    <2>1. budget' \in 0..MaxCalls
      BY <1>7, <1>0, Spending DEF SetProperty
    <2>2. /\ named' \in BOOLEAN /\ basic' \in BOOLEAN /\ path' \in Paths
          /\ protocol' \in {"http", "https"} /\ files' \subseteq {"certificate", "key"}
          /\ auth' \in {"none", "basic", "digest"}
      <3>1. ASSUME NEW null \in BOOLEAN, SetServiceName(null) PROVE <2>2
        BY <3>1 DEF SetServiceName, Reinstall, AuthDomain, ServerOK
      <3>2. ASSUME NEW text \in BOOLEAN, SetAuthFlags(text) PROVE <2>2
        BY <3>2 DEF SetAuthFlags, Reinstall, AuthDomain, ServerOK
      <3>3. ASSUME NEW q \in Paths, SetContentsPath(q) PROVE <2>2
        BY <3>3 DEF SetContentsPath, Reinstall, AuthDomain, ServerOK
      <3>4. ASSUME NEW q \in {"http", "https"}, SetProtocol(q) PROVE <2>2
        BY <3>4 DEF SetProtocol, ServerOK
      <3>5. ASSUME NEW g \in {"certificate", "key"}, SetFile(g) PROVE <2>2
        BY <3>5 DEF SetFile, ServerOK
      <3>6. QED  BY <1>7, <3>1, <3>2, <3>3, <3>4, <3>5 DEF SetProperty
    <2>3. QED  BY <1>7, <2>1, <2>2, <1>0 DEF SetProperty, ServerOK, Dispatchers
  <1>8. CASE CreateEnds
    <2>1. stack # <<>> /\ Last(stack).op = "create"
      BY <1>8 DEF CreateEnds
    <2>2. Front(stack) \in Seq(Frames) /\ Cardinality(Starts(Front(stack))) = n - 1
      BY <1>0, <2>1, PopFacts, PopStarts DEF n
    <2>3. created' = created + 1 /\ server' = created + 1 /\ auth' \in {"none", "basic", "digest"}
      BY <1>8 DEF CreateEnds, Serve, AuthDomain
    <2>4. /\ Starts(stack') = Starts(Front(stack)) /\ started' = TRUE
          /\ loop' \in {"none", "running", "quit"}
      BY <1>8, <2>2, EnterFacts DEF CreateEnds, Serve, ServerOK
    <2>5. /\ created' \in Nat /\ server' \in 0..created' /\ server' \in 0..MaxServers
          /\ created' + Cardinality(Starts(stack')) <= MaxServers
      <3>1. n >= 1
        BY <2>1, <2>2, <1>0, PopFacts, StartsFinite
      <3>2. QED  BY <2>2, <2>3, <2>4, <1>0, <3>1
    <2>6. dispatcher' \in Dispatchers
      BY <1>8, <2>5, <1>0, AnnouncingType DEF CreateEnds
    <2>7. /\ protocol' \in {"http", "https"} /\ files' \subseteq {"certificate", "key"}
          /\ fault' \in {"none", "silent", "assert", "freed_file"}
          /\ UNCHANGED <<named, basic, path, budget>>
      BY <1>8 DEF CreateEnds, ServerOK
    <2>8. QED  BY <2>3, <2>4, <2>5, <2>6, <2>7, <1>0 DEF ServerOK, Dispatchers
  <1>9. CASE LoopEnds
    <2>1. Starts(stack') = Starts(stack)
      BY <1>0, <1>9, PopStarts DEF LoopEnds
    <2>2. QED  BY <1>9, <2>1, <1>0 DEF LoopEnds, ServerOK, serverVars, settings, Dispatchers
  <1>10. CASE AuthReturns \/ HandlerReturns
    <2>1. Starts(stack') = Starts(stack)
      BY <1>0, <1>10, PopStarts DEF AuthReturns, HandlerReturns
    <2>2. QED
      BY <1>10, <2>1, <1>0, ServerKept
         DEF AuthReturns, HandlerReturns, serverVars, settings, ServerOK
  <1>11. ASSUME NEW s \in Sockets,
                Unhandled(s) \/ Handle(s) \/ Finish(s) \/ \E k \in Keys : Request(s, k)
         PROVE  ServerOK'
    <2>1. UNCHANGED <<serverVars, loop, dispatcher, settings, fault, budget>>
      BY <1>11 DEF Request, Unhandled, Handle, Finish
    <2>2. \/ stack' = stack
          \/ \E op \in {"auth", "handle"}, d \in {0} \cup Data :
                stack' = Append(stack, Frame(op, FALSE, s, d))
      BY <1>11, Asking DEF Unhandled, Finish
    <2>3. Starts(stack') = Starts(stack)
      <3>1. ASSUME NEW op \in {"auth", "handle"}, NEW d \in {0} \cup Data,
                   stack' = Append(stack, Frame(op, FALSE, s, d))
            PROVE  Starts(stack') = Starts(stack)
        <4>1. Frame(op, FALSE, s, d) \in Frames /\ Frame(op, FALSE, s, d).op # "create"
          BY FrameType DEF Frame
        <4>2. QED  BY <3>1, <4>1, <1>0, PushStarts
      <3>2. QED  BY <2>2, <3>1
    <2>4. QED  BY <2>1, <2>3, <1>0, ServerKept DEF serverVars, settings, ServerOK
  <1>12. CASE UNCHANGED vars
    BY <1>12, <1>0
       DEF vars, serverVars, settings, contentVars, requestVars, ServerOK, Dispatchers
  <1>13. CASE Run
    BY <1>13, <1>2, <1>3 DEF Run
  <1>14. QED
    BY <1>1, <1>4, <1>5, <1>6, <1>7, <1>8, <1>9, <1>10, <1>11, <1>12, <1>13 DEF Next

-----------------------------------------------------------------------------
(* Connections, requests and the frames that wait for them. *)

LEMMA IdleRequest ==
    /\ NoRequest \in Requests
    /\ NoRequest.state = "idle" /\ NoRequest.data = 0 /\ NoRequest.open
  BY PublisherAssumption DEF NoRequest, Requests

(* Calls that leave the connections alone; a server that starts is a new one. *)
LEMMA RequestsKept ==
    ASSUME RequestsOK, ServerOK, FramesOK(stack', conn, clients),
           conn' = conn, clients' = clients,
           \/ server' = server /\ created' = created
           \/ server' = created + 1 /\ created' = created + 1
    PROVE  RequestsOK'
  <1>1. FramesOK(stack, conn, clients)'
    OBVIOUS
  <1>2. created \in Nat
    BY DEF ServerOK
  <1>3. ASSUME NEW s \in Sockets PROVE RequestOK(s)'
    <2>1. RequestOK(s)
      BY DEF RequestsOK
    <2>2. conn[s].state = "idle" => conn[s].open
      BY <2>1, IdleRequest DEF RequestOK
    <2>3. QED  BY <1>2, <2>1, <2>2 DEF RequestOK
  <1>4. \A s \in DOMAIN clients : TagOK(s)'
    BY DEF RequestsOK, TagOK
  <1>5. QED  BY <1>1, <1>3, <1>4 DEF RequestsOK

(* One request changes, its connection is tagged accordingly or forgotten. *)
LEMMA RequestChanges ==
    ASSUME RequestsOK, NEW s \in Sockets, NEW r \in Requests,
           conn' = [conn EXCEPT ![s] = r],
           server' = server, created' = created,
           r.state = "idle" => r = NoRequest,
           r.state # "idle" => r.key \in Keys /\ r.server \in 1..created,
           r.data # 0 => r.state = "sending",
           ~r.open => r.server # server,
           FramesOK(stack', conn', clients'),
           DOMAIN clients' \subseteq DOMAIN clients \cup {s},
           \A t \in DOMAIN clients' \ {s} : clients'[t] = clients[t],
           s \in DOMAIN clients' =>
             /\ clients'[s] \in Nat
             /\ r.open => clients'[s] = IF r.state = "handling" THEN 1 ELSE 0
    PROVE  RequestsOK'
  <1>1. conn' \in [Sockets -> Requests]
    BY DEF RequestsOK
  <1>2. conn'[s] = r /\ \A t \in Sockets \ {s} : conn'[t] = conn[t]
    BY DEF RequestsOK
  <1>3. \A t \in Sockets : RequestOK(t)'
    BY <1>2 DEF RequestsOK, RequestOK
  <1>4. ASSUME NEW t \in DOMAIN clients' PROVE TagOK(t)'
    <2>1. CASE t = s
      BY <2>1, <1>2 DEF TagOK
    <2>2. CASE t # s
      <3>1. t \in DOMAIN clients /\ TagOK(t) /\ t \in Sockets
        BY <2>2 DEF RequestsOK
      <3>2. clients'[t] = clients[t] /\ conn'[t] = conn[t]
        BY <2>2, <3>1, <1>2
      <3>3. QED  BY <3>1, <3>2 DEF TagOK
    <2>3. QED  BY <2>1, <2>2
  <1>5. FramesOK(stack, conn, clients)'
    OBVIOUS
  <1>6. DOMAIN clients' \subseteq Sockets
    BY DEF RequestsOK
  <1>7. QED  BY <1>1, <1>3, <1>4, <1>5, <1>6 DEF RequestsOK

(* The connection of an answer that has ended. *)
LEMMA EndedFacts ==
    ASSUME RequestsOK, NEW s \in Sockets, Ended(s), conn[s].state # "handling"
    PROVE  /\ conn' = [conn EXCEPT ![s] = NoRequest]
           /\ DOMAIN clients' \subseteq DOMAIN clients
           /\ DOMAIN clients \subseteq DOMAIN clients' \cup {s}
           /\ \A t \in DOMAIN clients' : clients'[t] = clients[t]
           /\ s \in DOMAIN clients' => clients'[s] = 0
  <1>1. conn' = [conn EXCEPT ![s] = NoRequest]
    BY DEF Ended
  <1>2. CASE conn[s].open
    <2>1. clients' = clients
      BY <1>2 DEF Ended
    <2>2. s \in DOMAIN clients => clients[s] = 0
      BY <1>2 DEF RequestsOK, TagOK
    <2>3. QED  BY <1>1, <2>1, <2>2
  <1>3. CASE ~conn[s].open
    <2>1. clients' = [t \in DOMAIN clients \ {s} |-> clients[t]]
      BY <1>3 DEF Ended
    <2>2. QED  BY <1>1, <2>1
  <1>4. QED  BY <1>2, <1>3

(* The tag of a connection. *)
LEMMA TagFacts ==
    ASSUME RequestsOK, NEW s \in Sockets, conn[s].open
    PROVE  /\ conn[s].state = "handling" => s \in DOMAIN clients /\ Tag(s) = 1
           /\ conn[s].state # "handling" => Tag(s) = 0
           /\ \A n : /\ DOMAIN Tagged(s, n) = DOMAIN clients \cup {s}
                     /\ Tagged(s, n)[s] = n
                     /\ \A t \in DOMAIN clients \ {s} : Tagged(s, n)[t] = clients[t]
  <1>1. s \in DOMAIN clients => TagOK(s)
    BY DEF RequestsOK
  <1>2. conn[s].state = "handling" => s \in DOMAIN clients
    BY DEF RequestsOK, FramesOK
  <1>3. QED  BY <1>1, <1>2 DEF Tag, TagOK, Tagged

(* Requests are asked about, handled and finished. *)
LEMMA RequestMoves ==
    ASSUME ServerOK, RequestsOK, ResourcesOK, NEW s \in Sockets,
           (\E k \in Keys : Request(s, k)) \/ Unhandled(s) \/ Handle(s) \/ Finish(s)
    PROVE  RequestsOK'
  <1>0. /\ conn \in [Sockets -> Requests]
        /\ RequestOK(s)
        /\ FramesOK(stack, conn, clients)
        /\ stack \in Seq(Frames)
        /\ server' = server /\ created' = created
        /\ server \in 0..created /\ created \in Nat /\ created <= MaxServers /\ MaxServers \in Nat
    <2>1. server' = server /\ created' = created
      BY DEF Request, Unhandled, Handle, Finish, serverVars
    <2>2. stack \in Seq(Frames)
      BY DEF RequestsOK, FramesOK
    <2>3. Cardinality(Creating) \in Nat
      BY <2>2, StartsFinite DEF Creating, Starts
    <2>4. QED  BY <2>1, <2>2, <2>3, PublisherAssumption DEF RequestsOK, ServerOK
  <1>1. ASSUME NEW k \in Keys, Request(s, k) PROVE RequestsOK'
    <2> DEFINE asked == auth # "none" /\ AuthOf(k) # 0
               r == [state |-> IF asked THEN "auth" ELSE "ready", key |-> k, data |-> 0,
                     server |-> server, open |-> TRUE]
    <2>1. /\ conn[s] = NoRequest
          /\ server # 0
          /\ conn' = [conn EXCEPT ![s] = r]
          /\ clients' = clients
          /\ stack' = IF asked THEN Append(stack, Frame("auth", FALSE, s, AuthOf(k))) ELSE stack
      BY <1>1 DEF Request
    <2>2. AuthOf(k) \in {0} \cup Data
      BY <1>1, Asking
    <2>3. server \in 1..created /\ server \in 0..MaxServers
      BY <1>0, <2>1
    <2>4. /\ r \in Requests /\ r.state # "idle" /\ r.key = k /\ r.data = 0 /\ r.server = server
          /\ r.open /\ r.state # "handling"
          /\ r.state = IF asked THEN "auth" ELSE "ready"
      BY <2>3 DEF Requests
    <2>5. s \in DOMAIN clients => clients[s] = 0
      BY <2>1, IdleRequest DEF RequestsOK, TagOK
    <2> HIDE DEF r, asked
    <2>6. conn'[s] = r /\ \A t \in Sockets \ {s} : conn'[t] = conn[t]
      BY <2>1, <1>0
    <2>7. FramesOK(stack', conn', clients')
      <3>1. CASE asked
        <4> DEFINE g == Frame("auth", FALSE, s, AuthOf(k))
        <4>1. g \in Frames /\ g.op = "auth" /\ g.socket = s
          BY <2>2, FrameType DEF Frame
        <4> HIDE DEF g
        <4>2. stack' = Append(stack, g)
          BY <3>1, <2>1 DEF g
        <4>3. Holds(g) /\ Awaits(g.op) = "auth" /\ conn[s].state \notin {"auth", "handling"}
          BY <4>1, <2>1, IdleRequest DEF Holds, Awaits
        <4>4. conn'[s].state = "auth"
          BY <2>4, <2>6, <3>1
        <4>5. FramesOK(Append(stack, g), conn', clients')
          BY <4>1, <4>3, <4>4, <2>1, <2>6, <1>0, PushHolder
        <4>6. QED  BY <4>2, <4>5
      <3>2. CASE ~asked
        <4>1. /\ conn[s].state \notin {"auth", "handling"}
              /\ conn'[s].state \notin {"auth", "handling"}
              /\ stack' = stack
          BY <3>2, <2>1, <2>4, <2>6, IdleRequest
        <4>2. QED  BY <4>1, <2>1, <2>6, <1>0, SameFrames, ZenonT(60)
      <3>3. QED  BY <3>1, <3>2
    <2>8. /\ DOMAIN clients' \subseteq DOMAIN clients \cup {s}
          /\ \A t \in DOMAIN clients' \ {s} : clients'[t] = clients[t]
          /\ s \in DOMAIN clients' =>
               clients'[s] \in Nat /\ (r.open => clients'[s] = IF r.state = "handling" THEN 1 ELSE 0)
      BY <2>1, <2>4, <2>5
    <2>9. /\ r.state = "idle" => r = NoRequest
          /\ r.state # "idle" => r.key \in Keys /\ r.server \in 1..created
          /\ r.data # 0 => r.state = "sending"
          /\ ~r.open => r.server # server
      BY <2>3, <2>4
    <2>10. QED  BY <2>1, <2>4, <2>7, <2>8, <2>9, <1>0, RequestChanges
  <1>2. ASSUME Unhandled(s) \/ Finish(s) PROVE RequestsOK'
    <2>1. Ended(s) /\ conn[s].state \in {"ready", "sending"} /\ stack' = stack
      BY <1>2 DEF Unhandled, Finish
    <2>2. /\ conn' = [conn EXCEPT ![s] = NoRequest]
          /\ DOMAIN clients' \subseteq DOMAIN clients
          /\ DOMAIN clients \subseteq DOMAIN clients' \cup {s}
          /\ \A t \in DOMAIN clients' : clients'[t] = clients[t]
          /\ s \in DOMAIN clients' => clients'[s] = 0
      BY <2>1, EndedFacts
    <2>3. conn'[s] = NoRequest /\ \A t \in Sockets \ {s} : conn'[t] = conn[t]
      BY <2>2, <1>0
    <2>4. FramesOK(stack', conn', clients')
      <3>1. conn[s].state \notin {"auth", "handling"} /\ conn'[s].state \notin {"auth", "handling"}
        BY <2>1, <2>3, IdleRequest
      <3>2. \A t \in Sockets :
              conn[t].state \in {"auth", "handling"} \/ conn'[t].state \in {"auth", "handling"} =>
                /\ conn'[t].state = conn[t].state
                /\ conn'[t].open => conn[t].open
                /\ t \in DOMAIN clients => t \in DOMAIN clients'
        BY <3>1, <2>2, <2>3
      <3>3. /\ stack' \in Seq(Frames) /\ Len(stack') = Len(stack)
            /\ \A i \in 1..Len(stack) : stack'[i].op = stack[i].op /\ stack'[i].socket = stack[i].socket
        BY <2>1, <1>0
      <3>4. QED  BY <3>2, <3>3, <1>0, SameFrames
    <2>5. /\ DOMAIN clients' \subseteq DOMAIN clients \cup {s}
          /\ \A t \in DOMAIN clients' \ {s} : clients'[t] = clients[t]
          /\ s \in DOMAIN clients' =>
               /\ clients'[s] \in Nat
               /\ NoRequest.open => clients'[s] = IF NoRequest.state = "handling" THEN 1 ELSE 0
      BY <2>2, IdleRequest
    <2>6. /\ NoRequest \in Requests
          /\ NoRequest.state # "idle" => NoRequest.key \in Keys /\ NoRequest.server \in 1..created
          /\ NoRequest.data # 0 => NoRequest.state = "sending"
          /\ ~NoRequest.open => NoRequest.server # server
      BY IdleRequest
    <2>7. QED  BY <2>2, <2>4, <2>5, <2>6, <1>0, RequestChanges
  <1>3. ASSUME Handle(s) PROVE RequestsOK'
    <2> DEFINE d == resources[conn[s].key].data
    <2>1. /\ conn[s].state = "ready" /\ conn[s].open /\ conn[s].server = server
          /\ conn[s].key \in Keys /\ conn[s].server \in 1..created /\ d \in {0} \cup Data
          /\ conn[s] \in Requests
      <3>1. conn[s].state = "ready" /\ conn[s].open /\ conn[s].server = server
        BY <1>3 DEF Handle
      <3>2. d \in {0} \cup Data
        BY <1>3, Asking DEF Resources
      <3>3. QED  BY <3>1, <3>2, <1>0 DEF RequestOK
    <2>2. /\ Tag(s) = 0
          /\ \A n : /\ DOMAIN Tagged(s, n) = DOMAIN clients \cup {s}
                    /\ Tagged(s, n)[s] = n
                    /\ \A t \in DOMAIN clients \ {s} : Tagged(s, n)[t] = clients[t]
      BY <2>1, TagFacts
    <2> HIDE DEF d
    <2>A. ASSUME NEW r \in Requests, NEW n \in {0, 1},
                 conn' = [conn EXCEPT ![s] = r], clients' = Tagged(s, n),
                 r.state = "idle" => r = NoRequest,
                 r.state # "idle" => r.key \in Keys /\ r.server \in 1..created,
                 r.data # 0 => r.state = "sending", r.open,
                 n = IF r.state = "handling" THEN 1 ELSE 0,
                 FramesOK(stack', conn', clients')
          PROVE  RequestsOK'
      <3>1. DOMAIN clients' = DOMAIN clients \cup {s} /\ clients'[s] = n
        BY <2>A, <2>2
      <3>2. \A t \in DOMAIN clients' \ {s} : clients'[t] = clients[t]
        BY <2>A, <2>2, <3>1
      <3>3. DOMAIN clients' \subseteq DOMAIN clients \cup {s}
        BY <3>1
      <3>4. s \in DOMAIN clients' =>
              clients'[s] \in Nat /\ (r.open => clients'[s] = IF r.state = "handling" THEN 1 ELSE 0)
        BY <3>1, <2>A
      <3>5. ~r.open => r.server # server
        BY <2>A
      <3>6. QED  BY <3>2, <3>3, <3>4, <3>5, <2>A, <1>0, RequestChanges
    <2>B. ASSUME NEW r \in Requests, conn' = [conn EXCEPT ![s] = r], stack' = stack,
                 r.state \in {"idle", "sending"}, clients' = Tagged(s, 0)
          PROVE  FramesOK(stack', conn', clients')
      <3>1. /\ conn'[s].state \notin {"auth", "handling"}
            /\ conn[s].state \notin {"auth", "handling"}
            /\ \A t \in Sockets \ {s} : conn'[t] = conn[t]
            /\ DOMAIN clients \subseteq DOMAIN clients'
        BY <2>B, <2>1, <2>2, <1>0
      <3>2. QED  BY <3>1, <2>B, <1>0, SameFrames
    <2>3. CASE /\ clients' = Tagged(s, Tag(s))
               /\ conn' = [conn EXCEPT ![s] = NoRequest]
               /\ UNCHANGED <<refs, stack>>
      <3>1. FramesOK(stack', conn', clients')
        BY <2>3, <2>2, <2>B, IdleRequest
      <3>2. QED  BY <2>3, <2>2, <2>A, <3>1, IdleRequest
    <2>4. CASE /\ clients' = Tagged(s, Tag(s))
               /\ conn' = [conn EXCEPT ![s].state = "sending", ![s].data = d]
               /\ UNCHANGED stack
      <3> DEFINE r == [conn[s] EXCEPT !.state = "sending", !.data = d]
      <3>1. /\ r \in Requests /\ r.state = "sending" /\ r.key = conn[s].key
            /\ r.server = conn[s].server /\ r.open
        BY <2>1 DEF Requests
      <3>2. conn' = [conn EXCEPT ![s] = r]
        BY <2>4, <1>0
      <3> HIDE DEF r
      <3>3. FramesOK(stack', conn', clients')
        BY <2>4, <2>2, <2>B, <3>1, <3>2
      <3>4. QED  BY <2>4, <2>1, <2>2, <2>A, <3>1, <3>2, <3>3
    <2>5. CASE /\ clients' = Tagged(s, Tag(s) + 1)
               /\ conn' = [conn EXCEPT ![s].state = "handling"]
               /\ stack' = Append(stack, Frame("handle", FALSE, s, d))
      <3> DEFINE r == [conn[s] EXCEPT !.state = "handling"]
                 g == Frame("handle", FALSE, s, d)
      <3>1. /\ r \in Requests /\ r.state = "handling" /\ r.key = conn[s].key /\ r.data = conn[s].data
            /\ r.server = conn[s].server /\ r.open
        BY <2>1 DEF Requests
      <3>2. conn' = [conn EXCEPT ![s] = r]
        BY <2>5, <1>0
      <3>3. g \in Frames /\ g.op = "handle" /\ g.socket = s /\ stack' = Append(stack, g)
        BY <2>1, <2>5, FrameType DEF Frame
      <3> HIDE DEF r, g
      <3>4. conn'[s] = r /\ \A t \in Sockets \ {s} : conn'[t] = conn[t]
        BY <3>2, <1>0
      <3>5. Tag(s) + 1 = 1 /\ r.data = 0
        BY <2>1, <2>2, <3>1, <1>0 DEF RequestOK
      <3>6. DOMAIN clients' = DOMAIN clients \cup {s}
        BY <2>2, <2>5
      <3>7. FramesOK(Append(stack, g), conn', clients')
        <4>1. Holds(g) /\ Awaits(g.op) = "handling" /\ conn[s].state \notin {"auth", "handling"}
          BY <3>3, <2>1 DEF Holds, Awaits
        <4>2. conn'[s].state = "handling"
          BY <3>1, <3>4
        <4>3. QED  BY <4>1, <4>2, <3>3, <3>4, <3>6, <1>0, PushHolder
      <3>8. clients' = Tagged(s, 1)
        BY <2>5, <3>5
      <3>9. QED  BY <2>1, <2>A, <3>1, <3>2, <3>3, <3>5, <3>7, <3>8
    <2>6. QED  BY <1>3, <2>3, <2>4, <2>5 DEF Handle, d
  <1>4. QED  BY <1>1, <1>2, <1>3

(* Stopping closes connections, and forgets those that connect anew. *)
LEMMA RequestsStop ==
    ASSUME ServerOK, RequestsOK, Stop, created' = created, stack' = stack,
           \/ clients' = [s \in DOMAIN clients \ Reconnecting |-> clients[s]]
           \/ stack = <<>> /\ clients' = <<>>
    PROVE  RequestsOK'
  <1>0. /\ conn \in [Sockets -> Requests]
        /\ stack \in Seq(Frames)
        /\ FramesOK(stack, conn, clients)
        /\ DOMAIN clients \subseteq Sockets
        /\ server' = 0 /\ created \in Nat
    BY DEF RequestsOK, FramesOK, ServerOK, Stop
  <1>1. \A s \in Sockets :
          /\ conn'[s] \in Requests
          /\ conn'[s].state = conn[s].state /\ conn'[s].key = conn[s].key
          /\ conn'[s].data = conn[s].data /\ conn'[s].server = conn[s].server
          /\ conn'[s] = conn[s] \/ (conn[s] # NoRequest /\ ~conn'[s].open)
          /\ conn'[s].open => conn[s].open
    BY <1>0 DEF Stop, Requests
  <1>2. conn' \in [Sockets -> Requests]
    BY <1>0, <1>1 DEF Stop
  <1>3. DOMAIN clients' \subseteq DOMAIN clients /\ \A s \in DOMAIN clients' : clients'[s] = clients[s]
    OBVIOUS
  <1>4. \A s \in Sockets : RequestOK(s)'
    <2>1. ASSUME NEW s \in Sockets PROVE RequestOK(s)'
      <3>1. RequestOK(s)
        BY DEF RequestsOK
      <3>2. conn'[s].state = "idle" => conn'[s] = NoRequest
        BY <3>1, <1>1 DEF RequestOK
      <3>3. conn'[s].state # "idle" => conn'[s].server # 0
        BY <3>1, <1>0, <1>1 DEF RequestOK
      <3>4. ~conn'[s].open => conn'[s].server # server'
        BY <3>2, <3>3, <1>0, IdleRequest
      <3>5. QED  BY <3>1, <3>2, <3>4, <1>1 DEF RequestOK
    <2>2. QED  BY <2>1
  <1>5. \A s \in DOMAIN clients' : TagOK(s)'
    <2>1. ASSUME NEW s \in DOMAIN clients' PROVE TagOK(s)'
      <3>1. TagOK(s) /\ s \in Sockets
        BY <1>0, <1>3 DEF RequestsOK
      <3>2. conn'[s].open => conn'[s] = conn[s]
        BY <1>1, <3>1
      <3>3. QED  BY <3>1, <3>2, <1>3 DEF TagOK
    <2>2. QED  BY <2>1
  <1>6. FramesOK(stack', conn', clients')
    <2>1. CASE clients' = [s \in DOMAIN clients \ Reconnecting |-> clients[s]]
      <3>1. \A s \in Sockets :
              conn[s].state \in {"auth", "handling"} \/ conn'[s].state \in {"auth", "handling"} =>
                /\ conn'[s].state = conn[s].state
                /\ conn'[s].open => conn[s].open
                /\ s \in DOMAIN clients => s \in DOMAIN clients'
        BY <2>1, <1>1, IdleRequest DEF Reconnecting
      <3>2. /\ stack' \in Seq(Frames) /\ Len(stack') = Len(stack)
            /\ \A i \in 1..Len(stack) : stack'[i].op = stack[i].op /\ stack'[i].socket = stack[i].socket
        BY <1>0
      <3>3. QED  BY <3>1, <3>2, <1>0, SameFrames
    <2>2. CASE stack = <<>>
      <3>1. Len(stack) = 0
        BY <2>2
      <3>2. \A s \in Sockets : conn[s].state # "handling"
        BY <3>1, <1>0 DEF FramesOK
      <3>3. QED  BY <3>1, <3>2, <1>0, <1>1 DEF FramesOK
    <2>3. QED  BY <2>1, <2>2
  <1>7. QED
    <2>1. DOMAIN clients' \subseteq Sockets
      BY <1>0, <1>3
    <2>2. QED  BY <2>1, <1>2, <1>4, <1>5, <1>6 DEF RequestsOK

(* The handlers for authentication and for contents return. *)
LEMMA RequestsReturn ==
    ASSUME ServerOK, RequestsOK, AuthReturns \/ HandlerReturns
    PROVE  RequestsOK'
  <1> DEFINE s == Last(stack).socket
  <1>0. /\ conn \in [Sockets -> Requests]
        /\ FramesOK(stack, conn, clients)
        /\ stack \in Seq(Frames) /\ stack # <<>>
        /\ stack' = Front(stack)
        /\ server' = server /\ created' = created
        /\ Holds(Last(stack))
    BY DEF RequestsOK, FramesOK, AuthReturns, HandlerReturns, serverVars, Holds
  <1>1. s \in Sockets /\ conn[s].state = Awaits(Last(stack).op)
    <2>1. Len(stack) \in 1..Len(stack) /\ Last(stack) = stack[Len(stack)]
      BY <1>0, PopFacts
    <2>2. QED  BY <2>1, <1>0 DEF FramesOK
  <1> HIDE DEF s
  <1>2. RequestOK(s) /\ (s \in DOMAIN clients => TagOK(s)) /\ DOMAIN clients \subseteq Sockets
        /\ conn[s] \in Requests
    BY <1>0, <1>1 DEF RequestsOK
  <1>3. ASSUME NEW r \in Requests, conn' = [conn EXCEPT ![s] = r],
               r.state \notin {"auth", "handling"},
               DOMAIN clients \subseteq DOMAIN clients' \cup {s}
        PROVE  FramesOK(stack', conn', clients')
    <2>1. conn'[s] = r /\ \A t \in Sockets \ {s} : conn'[t] = conn[t]
      BY <1>0, <1>1, <1>3
    <2>2. conn'[Last(stack).socket].state \notin {"auth", "handling"}
      BY <2>1, <1>3 DEF s
    <2>3. /\ \A t \in Sockets \ {Last(stack).socket} : conn'[t] = conn[t]
          /\ DOMAIN clients \subseteq DOMAIN clients' \cup {Last(stack).socket}
      BY <2>1, <1>3 DEF s
    <2>4. FramesOK(Front(stack), conn', clients')
      BY <2>2, <2>3, <1>0, PopHolder
    <2>5. QED  BY <2>4, <1>0
  <1>4. CASE AuthReturns
    <2>1. conn[s].state = "auth"
      BY <1>1, <1>4 DEF AuthReturns, Awaits
    <2>2. CASE conn' = [conn EXCEPT ![s].state = "ready"] /\ UNCHANGED clients
      <3> DEFINE r == [conn[s] EXCEPT !.state = "ready"]
      <3>1. /\ r \in Requests /\ r.state = "ready" /\ r.key = conn[s].key /\ r.data = conn[s].data
            /\ r.server = conn[s].server /\ r.open = conn[s].open
        BY <1>2 DEF Requests
      <3>2. conn' = [conn EXCEPT ![s] = r]
        BY <2>2, <1>0
      <3> HIDE DEF r
      <3>3. FramesOK(stack', conn', clients')
        BY <2>2, <3>1, <3>2, <1>3
      <3>4. /\ r.key \in Keys /\ r.server \in 1..created /\ r.data = 0
            /\ ~r.open => r.server # server
        BY <2>1, <3>1, <1>2 DEF RequestOK
      <3>5. s \in DOMAIN clients' =>
              clients'[s] \in Nat /\ (r.open => clients'[s] = IF r.state = "handling" THEN 1 ELSE 0)
        BY <2>1, <2>2, <3>1, <1>2 DEF TagOK
      <3>6. /\ DOMAIN clients' \subseteq DOMAIN clients \cup {s}
            /\ \A t \in DOMAIN clients' \ {s} : clients'[t] = clients[t]
        BY <2>2
      <3>7. QED  BY <3>1, <3>2, <3>3, <3>4, <3>5, <3>6, <1>0, <1>1, RequestChanges
    <2>3. CASE Ended(s)
      <3>1. /\ conn' = [conn EXCEPT ![s] = NoRequest]
            /\ DOMAIN clients' \subseteq DOMAIN clients
            /\ DOMAIN clients \subseteq DOMAIN clients' \cup {s}
            /\ \A t \in DOMAIN clients' : clients'[t] = clients[t]
            /\ s \in DOMAIN clients' => clients'[s] = 0
        BY <2>1, <2>3, <1>1, EndedFacts
      <3>2. FramesOK(stack', conn', clients')
        BY <3>1, <1>3, IdleRequest
      <3>3. /\ DOMAIN clients' \subseteq DOMAIN clients \cup {s}
            /\ \A t \in DOMAIN clients' \ {s} : clients'[t] = clients[t]
            /\ s \in DOMAIN clients' =>
                 /\ clients'[s] \in Nat
                 /\ NoRequest.open => clients'[s] = IF NoRequest.state = "handling" THEN 1 ELSE 0
        BY <3>1, IdleRequest
      <3>4. /\ NoRequest \in Requests
            /\ NoRequest.state # "idle" => NoRequest.key \in Keys /\ NoRequest.server \in 1..created
            /\ NoRequest.data # 0 => NoRequest.state = "sending"
            /\ ~NoRequest.open => NoRequest.server # server
        BY IdleRequest
      <3>5. QED  BY <3>1, <3>2, <3>3, <3>4, <1>0, <1>1, RequestChanges
    <2>4. QED  BY <1>4, <2>2, <2>3 DEF AuthReturns, s
  <1>5. CASE HandlerReturns
    <2> DEFINE r == [conn[s] EXCEPT !.state = "sending", !.open = @ /\ conn[s].server = server]
    <2>1. conn[s].state = "handling"
      BY <1>1, <1>5 DEF HandlerReturns, Awaits
    <2>2. /\ clients' = IF conn[s].server = server THEN Tagged(s, Tag(s) - 1) ELSE clients
          /\ conn' = [conn EXCEPT ![s] = r]
      BY <1>0, <1>5 DEF HandlerReturns, s
    <2>3. /\ r \in Requests /\ r.state = "sending" /\ r.key = conn[s].key /\ r.data = conn[s].data
          /\ r.server = conn[s].server
          /\ r.open <=> conn[s].open /\ conn[s].server = server
      BY <1>2 DEF Requests
    <2>4. conn[s].open <=> conn[s].server = server \/ conn[s].open
      BY <1>2 DEF RequestOK
    <2> HIDE DEF r
    <2>5. /\ r.key \in Keys /\ r.server \in 1..created
          /\ ~r.open => r.server # server
      BY <2>1, <2>3, <2>4, <1>2 DEF RequestOK
    <2>6. /\ DOMAIN clients' \subseteq DOMAIN clients \cup {s}
          /\ DOMAIN clients \subseteq DOMAIN clients'
          /\ \A t \in DOMAIN clients' \ {s} : clients'[t] = clients[t]
          /\ s \in DOMAIN clients' => clients'[s] \in Nat /\ (r.open => clients'[s] = 0)
      <3>1. CASE conn[s].server = server
        <4>1. conn[s].open
          BY <3>1, <2>4
        <4>2. /\ s \in DOMAIN clients /\ Tag(s) = 1
              /\ \A n : /\ DOMAIN Tagged(s, n) = DOMAIN clients \cup {s}
                        /\ Tagged(s, n)[s] = n
                        /\ \A t \in DOMAIN clients \ {s} : Tagged(s, n)[t] = clients[t]
          BY <4>1, <2>1, <1>1, TagFacts
        <4>3. Tag(s) - 1 = 0 /\ clients' = Tagged(s, Tag(s) - 1)
          BY <4>2, <2>2, <3>1
        <4>4. clients' = Tagged(s, 0)
          BY <4>3
        <4>5. QED  BY <4>2, <4>4
      <3>2. CASE conn[s].server # server
        BY <3>2, <2>2, <2>3, <1>2 DEF TagOK
      <3>3. QED  BY <3>1, <3>2
    <2>7. FramesOK(stack', conn', clients')
      BY <2>2, <2>3, <2>6, <1>3
    <2>8. /\ r.state = "idle" => r = NoRequest
          /\ r.state # "idle" => r.key \in Keys /\ r.server \in 1..created
          /\ r.data # 0 => r.state = "sending"
          /\ s \in DOMAIN clients' =>
               clients'[s] \in Nat /\ (r.open => clients'[s] = IF r.state = "handling" THEN 1 ELSE 0)
      BY <2>3, <2>5, <2>6
    <2>9. QED  BY <2>2, <2>3, <2>5, <2>6, <2>7, <2>8, <1>0, <1>1, RequestChanges
  <1>6. QED  BY <1>4, <1>5

LEMMA RequestsStep ==
    ASSUME ServerOK, RequestsOK, ResourcesOK, [Next]_vars
    PROVE  RequestsOK'
  <1> DEFINE Same == server' = server /\ created' = created
             Newer == server' = created + 1 /\ created' = created + 1
  <1>0. /\ FramesOK(stack, conn, clients)
        /\ stack \in Seq(Frames)
        /\ loop \in {"none", "running", "quit"}
    BY DEF RequestsOK, FramesOK, ServerOK
  <1>1. ASSUME stack' \in Seq(Frames), Len(stack') = Len(stack),
               \A i \in 1..Len(stack) :
                 stack'[i].op = stack[i].op /\ stack'[i].socket = stack[i].socket,
               conn' = conn, clients' = clients, Same
        PROVE  RequestsOK'
    <2>1. FramesOK(stack', conn, clients)
      BY <1>0, <1>1, SameFrames
    <2>2. QED  BY <2>1, <1>1, RequestsKept
  <1>2. ASSUME NEW frames, NEW wait, FramesOK(frames, conn, clients), Enter(frames, wait)
        PROVE  FramesOK(stack', conn, clients)
    <2> DEFINE g == Frame("run", FALSE, NoSocket, 0)
    <2>1. g \in Frames /\ ~Holds(g)
      BY FrameType DEF Frame, Holds
    <2>2. frames \in Seq(Frames)
      BY <1>2 DEF FramesOK
    <2>3. stack' = frames \/ stack' = Append(frames, g)
      BY <1>2 DEF Enter
    <2> HIDE DEF g
    <2>4. FramesOK(Append(frames, g), conn, clients)
      BY <2>1, <1>2, PushWait
    <2>5. QED  BY <2>3, <2>4, <1>2
  <1>3. ASSUME FramesOK(stack', conn, clients), conn' = conn, clients' = clients, Same \/ Newer
        PROVE  RequestsOK'
    BY <1>3, RequestsKept
  <1>4. CASE LockedCall
    <2>1. conn' = conn /\ clients' = clients /\ Same
      BY <1>4 DEF LockedCall, requestVars, serverVars
    <2>2. QED  BY <2>1, <1>0, <1>1, <1>4, LockedStack
  <1>5. ASSUME NEW wait \in BOOLEAN, RunAgain(wait), UNCHANGED requestVars PROVE RequestsOK'
    <2>1. conn' = conn /\ clients' = clients /\ Same
      BY <1>5 DEF RunAgain, requestVars
    <2>2. FramesOK(stack', conn, clients)
      BY <1>0, <1>2, <1>5 DEF RunAgain
    <2>3. QED  BY <2>1, <2>2, <1>3
  <1>6. ASSUME NEW wait \in BOOLEAN, CreateServer(wait), UNCHANGED requestVars PROVE RequestsOK'
    <2> DEFINE g == Frame("create", wait, NoSocket, 0)
    <2>1. conn' = conn /\ clients' = clients
      BY <1>6 DEF requestVars
    <2>2. CASE stack' = Append(stack, g) /\ UNCHANGED serverVars
      <3>1. g \in Frames /\ ~Holds(g)
        BY FrameType DEF Frame, Holds
      <3> HIDE DEF g
      <3>2. FramesOK(stack', conn, clients)
        BY <2>2, <3>1, <1>0, PushWait
      <3>3. Same
        BY <2>2 DEF serverVars
      <3>4. QED  BY <2>1, <3>2, <3>3, <1>3
    <2>3. CASE Serve(stack, wait)
      <3>1. FramesOK(stack', conn, clients) /\ Newer
        BY <2>3, <1>0, <1>2 DEF Serve
      <3>2. QED  BY <2>1, <3>1, <1>3
    <2>4. QED  BY <1>6, <2>2, <2>3 DEF CreateServer
  <1>7. CASE Run
    BY <1>5, <1>6, <1>7 DEF Run
  <1>8. CASE RunInVain
    BY <1>0, <1>3, <1>8 DEF RunInVain, RunRefused, RunFails, serverVars, requestVars
  <1>9. CASE Quit
    BY <1>9, RequestsStop DEF Quit
  <1>10. CASE Dispose
    BY <1>10, RequestsStop DEF Dispose
  <1>11. CASE SetProperty
    BY <1>0, <1>3, <1>11 DEF SetProperty, requestVars
  <1>12. CASE CreateEnds
    <2>1. /\ stack # <<>> /\ Last(stack).op = "create" /\ conn' = conn /\ clients' = clients
          /\ Serve(Front(stack), Last(stack).wait)
      BY <1>12 DEF CreateEnds, requestVars
    <2>2. FramesOK(Front(stack), conn, clients)
      BY <2>1, <1>0, PopWait DEF Holds
    <2>3. FramesOK(stack', conn, clients) /\ Newer
      BY <2>1, <2>2, <1>2 DEF Serve
    <2>4. QED  BY <2>1, <2>3, <1>3
  <1>13. CASE LoopEnds
    <2>1. /\ stack # <<>> /\ Last(stack).op = "run" /\ conn' = conn /\ clients' = clients /\ Same
          /\ stack' = Front(stack)
      BY <1>13 DEF LoopEnds, requestVars, serverVars
    <2>2. FramesOK(stack', conn, clients)
      BY <2>1, <1>0, PopWait DEF Holds
    <2>3. QED  BY <2>1, <2>2, <1>3
  <1>14. CASE UNCHANGED vars
    BY <1>0, <1>3, <1>14 DEF vars, serverVars, requestVars
  <1>15. CASE AuthReturns \/ HandlerReturns
    BY <1>15, RequestsReturn
  <1>16. CASE \E s \in Sockets : Unhandled(s) \/ Handle(s) \/ Finish(s)
                                  \/ \E k \in Keys : Request(s, k)
    BY <1>16, RequestMoves
  <1>17. QED
    BY <1>4, <1>7, <1>8, <1>9, <1>10, <1>11, <1>12, <1>13, <1>14, <1>15, <1>16 DEF Next

-----------------------------------------------------------------------------
(* Resources and the owners of user data. *)

(* Where a resource is announced says nothing about its data. *)
LEMMA AnnouncedFacts ==
    ASSUME NEW res \in [AllKeys -> Resources], NEW sv \in 0..MaxServers, path \in Paths
    PROVE  /\ Announced(sv, res) \in [AllKeys -> Resources]
           /\ \A k \in AllKeys : /\ Announced(sv, res)[k].kind = res[k].kind
                                 /\ Announced(sv, res)[k].data = res[k].data
                                 /\ Announced(sv, res)[k].auth = res[k].auth
  <1> DEFINE g(k) == IF k # Root /\ res[k].label THEN [res[k] EXCEPT !.at = Place(sv)] ELSE res[k]
  <1>1. Place(sv) \in Places
    BY DEF Place, Places, Paths
  <1>2. \A k \in AllKeys : /\ g(k) \in Resources
                           /\ g(k).kind = res[k].kind
                           /\ g(k).data = res[k].data
                           /\ g(k).auth = res[k].auth
    BY <1>1 DEF Resources
  <1> HIDE DEF g
  <1>3. Announced(sv, res) = [k \in AllKeys |-> g(k)]
    BY DEF Announced, AllKeys, g
  <1>4. QED  BY <1>2, <1>3

LEMMA NoResourceFacts ==
    /\ NoResource \in Resources
    /\ NoResource.kind = "none" /\ NoResource.data = 0 /\ NoResource.auth = 0
    /\ ~NoResource.label
    /\ \A kind \in Kinds, d \in Data :
         LET r == [NoResource EXCEPT !.kind = kind, !.data = d] IN
         r \in Resources /\ r.kind = kind /\ r.data = d /\ r.auth = 0 /\ ~r.label
  <1>1. Nowhere \in Places
    BY PublisherAssumption DEF Nowhere, Places
  <1>2. QED  BY <1>1 DEF NoResource, Resources

(* Resources that differ in labels and announcements only. *)
SameData(res, new) ==
    /\ new \in [AllKeys -> Resources]
    /\ \A k \in AllKeys : new[k].data = res[k].data /\ new[k].auth = res[k].auth
    /\ \A k \in AllKeys : new[k].kind \in {res[k].kind, "default"}

LEMMA SameOwners ==
    ASSUME ResourcesOK, NEW b \in Keys \cup {NoKey}, SameData(resources, resources'),
           bookmark' = b
    PROVE  /\ ResourcesOK'
           /\ \A d \in Data : Owned(resources', d) <=> Owned(resources, d)
  <1>1. \A k \in AllKeys : \A d \in Data : Uses(resources'[k], d) <=> Uses(resources[k], d)
    BY DEF SameData, Uses
  <1>2. \A d \in Data : Owned(resources', d) <=> Owned(resources, d)
    BY <1>1 DEF Owned
  <1>3. OneOwner(resources')
    BY <1>1 DEF ResourcesOK, OneOwner, SameData
  <1>4. "default" \notin Kinds
    BY PublisherAssumption
  <1>5. QED  BY <1>2, <1>3, <1>4 DEF ResourcesOK, SameData

(* One resource is replaced; the data it gains belong to nobody yet. *)
LEMMA Replacing ==
    ASSUME ResourcesOK, NEW k \in AllKeys, NEW d \in {0} \cup Data,
           d # 0 => ~Owned(resources, d),
           NEW new \in [AllKeys -> Resources],
           \A l \in AllKeys \ {k} : /\ new[l].data = resources[l].data
                                    /\ new[l].auth = resources[l].auth
                                    /\ new[l].kind = resources[l].kind,
           new[k].data \in {0, d, resources[k].data},
           new[k].auth \in {0, d, resources[k].auth},
           new[k].data # 0 => new[k].data # new[k].auth,
           new[k].kind \in Kinds => new[k].data # 0,
           new[k].kind = "none" => new[k].data = 0 /\ new[k].auth = 0,
           resources' = new, bookmark' \in Keys \cup {NoKey}
    PROVE  /\ ResourcesOK'
           /\ \A e \in Data :
                Owned(resources', e) <=> \/ Owned(resources, e) /\ ~Uses(resources[k], e)
                                         \/ Uses(new[k], e)
  <1>1. \A l \in AllKeys \ {k} : \A e \in Data : Uses(new[l], e) <=> Uses(resources[l], e)
    BY DEF Uses
  <1>2. \A e \in Data : Uses(new[k], e) => e = d \/ Uses(resources[k], e)
    BY DEF Uses, Data
  <1>3. d \in Data => \A l \in AllKeys : ~Uses(resources[l], d)
    BY DEF Owned, Data
  <1>4. \A l, m \in AllKeys : \A e \in Data : Uses(resources[l], e) /\ Uses(resources[m], e) => l = m
    BY DEF ResourcesOK, OneOwner
  <1>5. \A l, m \in AllKeys : \A e \in Data : Uses(new[l], e) /\ Uses(new[m], e) => l = m
    BY <1>1, <1>2, <1>3, <1>4
  <1>6. \A l \in AllKeys : new[l].data # 0 => new[l].data # new[l].auth
    BY DEF ResourcesOK, OneOwner
  <1>7. OneOwner(new)
    BY <1>5, <1>6 DEF OneOwner
  <1>8. /\ \A l \in AllKeys : new[l].kind \in Kinds => new[l].data # 0
        /\ \A l \in AllKeys : new[l].kind = "none" => new[l].data = 0 /\ new[l].auth = 0
    BY DEF ResourcesOK
  <1>9. ResourcesOK'
    BY <1>7, <1>8 DEF ResourcesOK
  <1>10. ASSUME NEW e \in Data
         PROVE  Owned(new, e) <=> \/ Owned(resources, e) /\ ~Uses(resources[k], e)
                                  \/ Uses(new[k], e)
    BY <1>1, <1>4 DEF Owned
  <1>11. QED  BY <1>9, <1>10

(* Frames keep data that still have an owner. *)
LEMMA Dropping ==
    ASSUME stack \in Seq(Frames), HeldOK, NEW own \in BOOLEAN, NEW gone, DropsData(own, gone),
           own \/ LockFree,
           \A e \in Data : Owned(resources, e) /\ e \notin gone => Owned(resources', e)
    PROVE  HeldOK'
  <1>1. \A i \in 1..Len(stack) : stack[i] \in Frames /\ stack[i].data \in {0} \cup Data
    <2>1. \A i \in 1..Len(stack) : stack[i] \in Frames
      BY ElementOfSeq
    <2>2. \A f \in Frames : f.data \in {0} \cup Data
      BY DEF Frames
    <2>3. QED  BY <2>1, <2>2
  <1>2. CASE own
    <2>0. /\ Len(stack') = Len(stack)
          /\ \A i \in 1..Len(stack) :
               /\ stack'[i].op = stack[i].op
               /\ stack'[i].data \in {0, stack[i].data}
               /\ own /\ ~Nested /\ stack[i].data \in gone \ {0} => stack'[i].data = 0
      BY DropFacts
    <2>1. /\ Len(stack') = Len(stack)
          /\ \A i \in 1..Len(stack) :
               /\ stack'[i].op = stack[i].op
               /\ stack'[i].data \in {0, stack[i].data}
               /\ ~Nested /\ stack[i].data \in gone \ {0} => stack'[i].data = 0
      BY <1>2, <2>0
    <2>2. ASSUME NEW i \in 1..Len(stack'), stack'[i].data # 0
          PROVE  Holds(stack'[i]) /\ (Nested \/ Owned(resources', stack'[i].data))
      <3>1. /\ i \in 1..Len(stack) /\ stack'[i].data = stack[i].data /\ stack'[i].op = stack[i].op
            /\ stack[i].data \in Data /\ (Nested \/ stack[i].data \notin gone)
        BY <2>1, <2>2, <1>1
      <3>2. Holds(stack[i]) /\ (Nested \/ Owned(resources, stack[i].data))
        BY <2>2, <3>1 DEF HeldOK
      <3>3. QED  BY <3>1, <3>2 DEF Holds
    <2>3. QED  BY <2>2 DEF HeldOK
  <1>3. CASE ~own
    <2>1. stack' = stack /\ Holders = {}
      BY <1>3 DEF DropsData, LockFree
    <2>2. \A i \in 1..Len(stack) : ~Holds(stack[i])
      BY <2>1 DEF Holders, Holds
    <2>3. \A i \in 1..Len(stack) : stack[i].data = 0
      BY <2>2 DEF HeldOK
    <2>4. QED  BY <2>1, <2>3 DEF HeldOK
  <1>4. QED  BY <1>2, <1>3

(* Data that are not in use belong to nobody. *)
LEMMA NewDataFacts ==
    ASSUME RefsOK, RequestsOK, NEW d \in NewData
    PROVE  d \in Data /\ ~Owned(resources, d) /\ Cardinality(Sending(conn, d)) = 0
  <1>1. d \in Data /\ refs[d] = 0
    BY DEF NewData
  <1>2. IsFiniteSet(Sending(conn, d))
    BY PublisherAssumption, FS_Subset DEF Sending
  <1>3. Cardinality(Sending(conn, d)) \in Nat
    BY <1>2, FS_CardinalityType
  <1>4. QED  BY <1>1, <1>3 DEF RefsOK

(* The references follow the owners. *)
LEMMA Releasing ==
    ASSUME RefsOK, NEW gone, NEW d \in {0} \cup Data,
           d # 0 => Cardinality(Sending(conn, d)) = 0,
           conn' = conn,
           refs' \in [Data -> Int],
           \A e \in Data : refs'[e] = IF e = d THEN 1
                                      ELSE IF e \in gone THEN refs[e] - 1 ELSE refs[e],
           \A e \in Data : e \in gone => Owned(resources, e),
           \A e \in Data : Owned(resources', e) <=> e = d \/ (Owned(resources, e) /\ e \notin gone)
    PROVE  RefsOK'
  <1>1. ASSUME NEW e \in Data
        PROVE  refs'[e] = (IF Owned(resources', e) THEN 1 ELSE 0) + Cardinality(Sending(conn', e))
    <2>1. IsFiniteSet(Sending(conn, e))
      BY PublisherAssumption, FS_Subset DEF Sending
    <2>2. Cardinality(Sending(conn, e)) \in Nat
      BY <2>1, FS_CardinalityType
    <2>3. refs[e] = (IF Owned(resources, e) THEN 1 ELSE 0) + Cardinality(Sending(conn, e))
      BY DEF RefsOK
    <2>4. e = d => d # 0
      BY DEF Data
    <2>5. QED  BY <2>2, <2>3, <2>4
  <1>2. QED  BY <1>1 DEF RefsOK

(* Owners, references and answers as before. *)
LEMMA RefsKept ==
    ASSUME RefsOK, refs' = refs,
           \A d \in Data : Owned(resources', d) <=> Owned(resources, d),
           \A s \in Sockets : conn'[s].data = conn[s].data
    PROVE  RefsOK'
  <1>1. \A d : Sending(conn', d) = Sending(conn, d)
    BY DEF Sending
  <1>2. QED  BY <1>1 DEF RefsOK

(* Frames that come without data, or with data that have an owner. *)
LEMMA HeldKept ==
    ASSUME stack \in Seq(Frames), HeldOK,
           \A d \in Data : Owned(resources, d) => Owned(resources', d),
           \/ stack' = stack
           \/ stack # <<>> /\ stack' = Front(stack)
           \/ \E g \in Frames :
                /\ g.data # 0 => Holds(g) /\ Owned(resources', g.data)
                /\ stack' = Append(stack, g) \/ (stack # <<>> /\ stack' = Append(Front(stack), g))
    PROVE  HeldOK'
  <1> DEFINE Fine(f) == f.data # 0 => Holds(f) /\ (Nested \/ Owned(resources', f.data))
  <1>1. \A i \in 1..Len(stack) : Fine(stack[i])
    <2>1. ASSUME NEW i \in 1..Len(stack), stack[i].data # 0
          PROVE  Holds(stack[i]) /\ (Nested \/ Owned(resources', stack[i].data))
      <3>1. stack[i] \in Frames
        BY ElementOfSeq
      <3>2. stack[i].data \in Data
        BY <2>1, <3>1 DEF Frames
      <3>3. QED  BY <2>1, <3>2 DEF HeldOK
    <2>2. QED  BY <2>1
  <1>2. ASSUME NEW f \in Seq(Frames), NEW g \in Frames, Fine(g), \A i \in 1..Len(f) : Fine(f[i]),
               stack' = Append(f, g)
        PROVE  \A i \in 1..Len(stack') : Fine(stack'[i])
    <2>1. /\ Len(f) \in Nat /\ Len(stack') = Len(f) + 1
          /\ \A i \in 1..Len(f) : stack'[i] = f[i]
          /\ stack'[Len(f) + 1] = g
      BY <1>2, PushFacts
    <2> HIDE DEF Fine
    <2>2. \A i \in 1..Len(stack') : i \in 1..Len(f) \/ i = Len(f) + 1
      BY <2>1
    <2>3. QED  BY <2>1, <2>2, <1>2
  <1>3. stack # <<>> => /\ Front(stack) \in Seq(Frames)
                        /\ \A i \in 1..Len(Front(stack)) : Fine(Front(stack)[i])
    <2>1. ASSUME stack # <<>>
          PROVE  /\ Front(stack) \in Seq(Frames)
                 /\ \A i \in 1..Len(Front(stack)) : Fine(Front(stack)[i])
      <3>1. /\ Len(stack) \in Nat \ {0}
            /\ Front(stack) \in Seq(Frames)
            /\ Len(Front(stack)) = Len(stack) - 1
            /\ \A i \in 1..(Len(stack) - 1) : Front(stack)[i] = stack[i]
        BY <2>1, PopFacts
      <3> HIDE DEF Fine
      <3>2. QED  BY <3>1, <1>1
    <2>2. QED  BY <2>1
  <1> HIDE DEF Fine
  <1>4. \A i \in 1..Len(stack') : Fine(stack'[i])
    <2>1. CASE stack' = stack
      BY <2>1, <1>1
    <2>2. CASE stack # <<>> /\ stack' = Front(stack)
      BY <2>2, <1>3
    <2>3. ASSUME NEW g \in Frames, g.data # 0 => Holds(g) /\ Owned(resources', g.data),
                 stack' = Append(stack, g) \/ (stack # <<>> /\ stack' = Append(Front(stack), g))
          PROVE  \A i \in 1..Len(stack') : Fine(stack'[i])
      <3>1. Fine(g)
        BY <2>3 DEF Fine
      <3>2. QED  BY <3>1, <2>3, <1>1, <1>2, <1>3
    <2>4. QED  BY <2>1, <2>2, <2>3
  <1>5. QED  BY <1>4 DEF HeldOK, Fine

(* Calls under the lock keep owners, references and running handlers together. *)
LEMMA LockedOwners ==
    ASSUME ServerOK, RequestsOK, ResourcesOK, RefsOK, HeldOK, LockedCall
    PROVE  ResourcesOK' /\ RefsOK' /\ HeldOK'
  <1>0. /\ stack \in Seq(Frames) /\ path \in Paths /\ server \in 0..MaxServers
        /\ resources \in [AllKeys -> Resources] /\ bookmark \in Keys \cup {NoKey}
        /\ refs \in [Data -> Int] /\ conn' = conn
        /\ Keys \subseteq AllKeys
    <2>1. Cardinality(Creating) \in Nat /\ stack \in Seq(Frames)
      BY StartsFinite DEF Creating, Starts, RequestsOK, FramesOK
    <2>2. QED
      BY <2>1, PublisherAssumption
         DEF ServerOK, ResourcesOK, RefsOK, LockedCall, requestVars, AllKeys
  <1>1. ASSUME NEW own \in BOOLEAN, own \/ LockFree, NEW k \in Keys, RemoveKey(k, own)
        PROVE  ResourcesOK' /\ RefsOK' /\ HeldOK'
    <2> DEFINE gone == {resources[k].data, resources[k].auth}
    <2>0. k \in AllKeys
      BY DEF AllKeys
    <2>1. PICK res : /\ res = resources \/ res = Announced(server, resources)
                     /\ resources' = [res EXCEPT ![k] = NoResource]
      BY <1>1 DEF RemoveKey
    <2>2. /\ res \in [AllKeys -> Resources]
          /\ \A l \in AllKeys : /\ res[l].kind = resources[l].kind
                                /\ res[l].data = resources[l].data
                                /\ res[l].auth = resources[l].auth
      BY <2>1, <1>0, AnnouncedFacts
    <2>3. /\ resources' \in [AllKeys -> Resources]
          /\ resources'[k] = NoResource
          /\ \A l \in AllKeys \ {k} : resources'[l] = res[l]
      BY <2>0, <2>1, <2>2, NoResourceFacts
    <2>4. bookmark' \in Keys \cup {NoKey}
      BY <1>1, <1>0 DEF RemoveKey
    <2>5. "none" \notin Kinds
      BY PublisherAssumption
    <2>6. /\ ResourcesOK'
          /\ \A e \in Data :
               Owned(resources', e) <=> \/ Owned(resources, e) /\ ~Uses(resources[k], e)
                                        \/ Uses(resources'[k], e)
      <3> DEFINE new == resources'
      <3>1. /\ new \in [AllKeys -> Resources]
            /\ \A l \in AllKeys \ {k} : /\ new[l].data = resources[l].data
                                        /\ new[l].auth = resources[l].auth
                                        /\ new[l].kind = resources[l].kind
            /\ new[k].data = 0 /\ new[k].auth = 0 /\ new[k].kind \notin Kinds
        BY <2>2, <2>3, <2>5, NoResourceFacts, ZenonT(60)
      <3>2. resources' = new
        OBVIOUS
      <3> HIDE DEF new
      <3>3. QED  BY <2>0, <2>4, <3>1, <3>2, Replacing
    <2>7. \A e \in Data : Owned(resources', e) <=> Owned(resources, e) /\ e \notin gone
      <3>1. \A e \in Data : ~Uses(resources'[k], e)
        <4>1. resources'[k].data = 0 /\ resources'[k].auth = 0
          BY <2>3, NoResourceFacts
        <4>2. QED  BY <4>1 DEF Uses, Data
      <3>2. \A e \in Data : Uses(resources[k], e) <=> e \in gone
        BY DEF Uses
      <3> HIDE DEF gone
      <3>3. QED  BY <3>1, <3>2, <2>6
    <2>8. RefsOK'
      <3>1. \A e \in Data : refs'[e] = IF e \in gone THEN refs[e] - 1 ELSE refs[e]
        BY <1>1 DEF RemoveKey, Released
      <3>2. refs' \in [Data -> Int]
        BY <1>0, <1>1 DEF RemoveKey, Released
      <3>3. \A e \in Data : e \in gone => Owned(resources, e)
        BY <2>0 DEF Owned, Uses
      <3>4. \A e \in Data : e # 0
        BY DEF Data
      <3> HIDE DEF gone
      <3>5. \A e \in Data : refs'[e] = IF e = 0 THEN 1
                                       ELSE IF e \in gone THEN refs[e] - 1 ELSE refs[e]
        BY <3>1, <3>4
      <3>6. \A e \in Data : Owned(resources', e) <=> e = 0 \/ (Owned(resources, e) /\ e \notin gone)
        BY <2>7, <3>4
      <3>7. QED  BY <3>2, <3>3, <3>5, <3>6, <1>0, Releasing
    <2>9. HeldOK'
      <3>1. DropsData(own, gone)
        BY <1>1 DEF RemoveKey
      <3> HIDE DEF gone
      <3>2. QED  BY <3>1, <2>7, <1>0, <1>1, Dropping
    <2>10. QED  BY <2>6, <2>8, <2>9
  <1>2. ASSUME NEW own \in BOOLEAN, own \/ LockFree, NEW k \in AllKeys, NEW gone,
               NEW d \in NewData, NEW r \in Resources,
               resources' = [resources EXCEPT ![k] = r],
               gone \subseteq {resources[k].data, resources[k].auth},
               resources[k].auth \in gone,
               \/ r.data = d /\ r.auth = 0 /\ resources[k].data \in gone
               \/ r.data = resources[k].data /\ r.auth = d /\ gone = {resources[k].auth},
               r.kind \in Kinds => r.data # 0,
               r.kind # "none",
               refs' = [e \in Data |-> IF e = d THEN 1
                                       ELSE IF e \in gone THEN refs[e] - 1 ELSE refs[e]],
               DropsData(own, gone),
               bookmark' = bookmark
        PROVE  ResourcesOK' /\ RefsOK' /\ HeldOK'
    <2>1. d \in Data /\ ~Owned(resources, d) /\ Cardinality(Sending(conn, d)) = 0 /\ d # 0
      BY NewDataFacts DEF Data
    <2>2. /\ resources' \in [AllKeys -> Resources]
          /\ resources'[k] = r
          /\ \A l \in AllKeys \ {k} : resources'[l] = resources[l]
      BY <1>0, <1>2
    <2>3. d \notin {resources[k].data, resources[k].auth}
      BY <2>1 DEF Owned, Uses
    <2>4. resources[k].data # 0 => resources[k].data # resources[k].auth
      BY DEF ResourcesOK, OneOwner
    <2>5. /\ ResourcesOK'
          /\ \A e \in Data :
               Owned(resources', e) <=> \/ Owned(resources, e) /\ ~Uses(resources[k], e)
                                        \/ Uses(resources'[k], e)
      <3> DEFINE new == resources'
      <3>1. /\ new \in [AllKeys -> Resources]
            /\ \A l \in AllKeys \ {k} : /\ new[l].data = resources[l].data
                                        /\ new[l].auth = resources[l].auth
                                        /\ new[l].kind = resources[l].kind
            /\ new[k] = r
        BY <2>2
      <3>2. resources' = new
        OBVIOUS
      <3> HIDE DEF new
      <3>3. /\ r.data \in {0, d, resources[k].data}
            /\ r.auth \in {0, d, resources[k].auth}
            /\ r.data # 0 => r.data # r.auth
        BY <1>2, <2>1, <2>3
      <3>4. QED  BY <1>0, <1>2, <2>1, <3>1, <3>2, <3>3, Replacing
    <2>6. \A e \in Data : Owned(resources, e) => \/ e \notin {resources[k].data, resources[k].auth}
                                                 \/ Uses(resources[k], e)
      BY DEF Uses
    <2>7. \A e \in Data : Uses(resources[k], e) => Owned(resources, e)
      BY DEF Owned
    <2>8. \A e \in Data : Owned(resources', e) <=> e = d \/ (Owned(resources, e) /\ e \notin gone)
      <3>1. \A e \in Data : e # 0
        BY DEF Data
      <3>2. QED  BY <1>2, <2>2, <2>3, <2>4, <2>5, <2>7, <3>1 DEF Uses
    <2>9. \A e \in Data : e \in gone => Owned(resources, e)
      BY <1>2, <2>7 DEF Uses, Data
    <2>10. refs' \in [Data -> Int]
      BY <1>0, <1>2
    <2>11. RefsOK'
      BY <1>0, <1>2, <2>1, <2>8, <2>9, <2>10, Releasing
    <2>12. HeldOK'
      BY <1>0, <1>2, <2>8, Dropping
    <2>13. QED  BY <2>5, <2>11, <2>12
  <1>3. ASSUME NEW own \in BOOLEAN, own \/ LockFree, NEW k \in Keys, NEW kind \in Kinds,
               AddHandler(k, kind, own)
        PROVE  ResourcesOK' /\ RefsOK' /\ HeldOK'
    <2> DEFINE gone == {resources[k].data, resources[k].auth}
    <2>1. PICK d \in NewData :
            /\ resources' = [resources EXCEPT ![k] = [NoResource EXCEPT !.kind = kind, !.data = d]]
            /\ refs' = [Released(resources[k]) EXCEPT ![d] = 1]
      BY <1>3 DEF AddHandler
    <2> DEFINE r == [NoResource EXCEPT !.kind = kind, !.data = d]
    <2>2. d \in Data /\ d # 0 /\ kind # "none" /\ k \in AllKeys
      BY NewDataFacts, PublisherAssumption DEF Data, AllKeys
    <2>3. r \in Resources /\ r.kind = kind /\ r.data = d /\ r.auth = 0
      BY <2>2, NoResourceFacts
    <2>4. refs' = [e \in Data |-> IF e = d THEN 1 ELSE IF e \in gone THEN refs[e] - 1 ELSE refs[e]]
      BY <2>1 DEF Released
    <2>5. DropsData(own, gone) /\ bookmark' = bookmark
      BY <1>3 DEF AddHandler
    <2>6. resources' = [resources EXCEPT ![k] = r]
      BY <2>1
    <2>7. /\ gone \subseteq {resources[k].data, resources[k].auth}
          /\ resources[k].data \in gone /\ resources[k].auth \in gone
      OBVIOUS
    <2> HIDE DEF r, gone
    <2>8. QED  BY <1>3, <2>2, <2>3, <2>4, <2>5, <2>6, <2>7, <1>2
  <1>4. ASSUME NEW k \in AllKeys
        PROVE  /\ Found(k) \in Resources
               /\ Found(k).data = resources[k].data /\ Found(k).auth = resources[k].auth
               /\ Found(k).kind \in {resources[k].kind, "default"} /\ Found(k).kind # "none"
    <2>1. CASE resources[k].kind = "none"
      <3>1. resources[k].data = 0 /\ resources[k].auth = 0
        BY <2>1 DEF ResourcesOK
      <3>2. Found(k) = [NoResource EXCEPT !.kind = "default"]
        BY <2>1 DEF Found
      <3>3. Nowhere \in Places
        BY PublisherAssumption DEF Nowhere, Places
      <3>4. /\ [NoResource EXCEPT !.kind = "default"] \in Resources
            /\ [NoResource EXCEPT !.kind = "default"].kind = "default"
            /\ [NoResource EXCEPT !.kind = "default"].data = 0
            /\ [NoResource EXCEPT !.kind = "default"].auth = 0
        BY <3>3 DEF NoResource, Resources
      <3>5. QED  BY <3>1, <3>2, <3>4
    <2>2. CASE resources[k].kind # "none"
      BY <2>2, <1>0 DEF Found
    <2>3. QED  BY <2>1, <2>2
  <1>5. ASSUME NEW own \in BOOLEAN, own \/ LockFree, NEW k \in AllKeys, SetAuthHandler(k, own)
        PROVE  ResourcesOK' /\ RefsOK' /\ HeldOK'
    <2> DEFINE gone == {resources[k].auth}
    <2>1. PICK d \in NewData :
            /\ resources' = [resources EXCEPT ![k] = [Found(k) EXCEPT !.auth = d]]
            /\ refs' = [Released([data |-> 0, auth |-> resources[k].auth]) EXCEPT ![d] = 1]
      BY <1>5 DEF SetAuthHandler
    <2> DEFINE r == [Found(k) EXCEPT !.auth = d]
    <2>2. d \in Data /\ \A e \in Data : e # 0
      BY NewDataFacts DEF Data
    <2>3. /\ r \in Resources /\ r.kind = Found(k).kind /\ r.data = resources[k].data /\ r.auth = d
      <3>1. Found(k) \in Resources /\ Found(k).data = resources[k].data
        BY <1>4
      <3> HIDE DEF Found
      <3>2. QED  BY <2>2, <3>1 DEF Resources
    <2>4. refs' = [e \in Data |-> IF e = d THEN 1 ELSE IF e \in gone THEN refs[e] - 1 ELSE refs[e]]
      <3>1. Released([data |-> 0, auth |-> resources[k].auth])
              = [e \in Data |-> IF e \in gone THEN refs[e] - 1 ELSE refs[e]]
        BY <2>2 DEF Released
      <3> HIDE DEF gone
      <3>2. QED  BY <2>1, <3>1
    <2>5. DropsData(own, gone) /\ bookmark' = bookmark
      BY <1>5 DEF SetAuthHandler
    <2>6. resources' = [resources EXCEPT ![k] = r]
      BY <2>1
    <2>7. r.kind # "none" /\ (r.kind \in Kinds => r.data # 0)
      <3>1. r.kind \in {resources[k].kind, "default"} /\ r.kind # "none"
        BY <2>3, <1>4
      <3>2. "default" \notin Kinds
        BY PublisherAssumption
      <3>3. resources[k].kind \in Kinds => resources[k].data # 0
        BY DEF ResourcesOK
      <3> HIDE DEF r
      <3>4. QED  BY <2>3, <3>1, <3>2, <3>3
    <2>8. /\ gone \subseteq {resources[k].data, resources[k].auth}
          /\ resources[k].auth \in gone /\ gone = {resources[k].auth}
      OBVIOUS
    <2> HIDE DEF r, gone
    <2>9. QED  BY <1>5, <2>3, <2>4, <2>5, <2>6, <2>7, <2>8, <1>2
  <1>6. ASSUME NEW k \in AllKeys, NEW labelled \in BOOLEAN, AddBookmark(k, labelled)
        PROVE  ResourcesOK' /\ RefsOK' /\ HeldOK'
    <2> DEFINE r == [Found(k) EXCEPT !.label = @ \/ labelled]
               res == [resources EXCEPT ![k] = r]
    <2>1. /\ r \in Resources /\ r.data = resources[k].data /\ r.auth = resources[k].auth
          /\ r.kind \in {resources[k].kind, "default"}
      BY <1>4 DEF Resources
    <2>2. resources' = res \/ resources' = Announced(server, res)
      BY <1>6 DEF AddBookmark, Announce
    <2> HIDE DEF r
    <2>3. SameData(resources, res)
      BY <2>1, <1>0 DEF SameData
    <2> HIDE DEF res
    <2>4. /\ Announced(server, res) \in [AllKeys -> Resources]
          /\ \A l \in AllKeys : /\ Announced(server, res)[l].kind = res[l].kind
                                /\ Announced(server, res)[l].data = res[l].data
                                /\ Announced(server, res)[l].auth = res[l].auth
      BY <2>3, <1>0, AnnouncedFacts DEF SameData
    <2>5. SameData(resources, resources')
      BY <2>2, <2>3, <2>4 DEF SameData
    <2>6. bookmark' \in Keys \cup {NoKey}
      BY <1>0, <1>6 DEF AddBookmark, AllKeys
    <2>7. /\ ResourcesOK'
          /\ \A d \in Data : Owned(resources', d) <=> Owned(resources, d)
      BY <2>5, <2>6, SameOwners
    <2>8. stack' = stack /\ refs' = refs
      BY <1>6 DEF AddBookmark
    <2>9. QED  BY <2>7, <2>8, <1>0, RefsKept, HeldKept
  <1>7. PICK own \in BOOLEAN :
          /\ own \/ LockFree
          /\ \/ \E k \in Keys : RemoveKey(k, own)
             \/ \E k \in Keys, kind \in Kinds : AddHandler(k, kind, own)
             \/ \E k \in AllKeys : SetAuthHandler(k, own)
             \/ \E k \in AllKeys, labelled \in BOOLEAN : AddBookmark(k, labelled)
    BY LockedCases
  <1>8. QED  BY <1>1, <1>3, <1>5, <1>6, <1>7

(* An answer takes one reference to the contents, or drops it. *)
LEMMA OneAnswer ==
    ASSUME RefsOK, RequestsOK, NEW s \in Sockets, NEW d \in Data, NEW n,
           resources' = resources,
           \A t \in Sockets \ {s} : conn'[t].data = conn[t].data,
           \/ conn[s].data = 0 /\ conn'[s].data = d /\ n = 1
           \/ conn[s].data = d /\ conn'[s].data = 0 /\ n = -1,
           refs' \in [Data -> Int],
           \A e \in Data : refs'[e] = IF e = d THEN refs[e] + n ELSE refs[e]
    PROVE  RefsOK'
  <1>1. \A e \in Data : IsFiniteSet(Sending(conn, e)) /\ Cardinality(Sending(conn, e)) \in Nat
    <2>1. \A e \in Data : IsFiniteSet(Sending(conn, e))
      BY PublisherAssumption, FS_Subset DEF Sending
    <2>2. QED  BY <2>1, FS_CardinalityType
  <1>2. \A e \in Data : e # 0
    BY DEF Data
  <1>3. \A e \in Data \ {d} : Sending(conn', e) = Sending(conn, e)
    BY <1>2 DEF Sending
  <1>4. CASE conn[s].data = 0 /\ conn'[s].data = d /\ n = 1
    <2>1. Sending(conn', d) = Sending(conn, d) \cup {s} /\ s \notin Sending(conn, d)
      BY <1>2, <1>4 DEF Sending
    <2>2. IsFiniteSet(Sending(conn, d))
      BY <1>1
    <2>3. Cardinality(Sending(conn, d) \cup {s}) = Cardinality(Sending(conn, d)) + 1
      BY <2>1, <2>2, FS_AddElement, Zenon
    <2>4. Cardinality(Sending(conn', d)) = Cardinality(Sending(conn, d)) + 1
      BY <2>1, <2>3
    <2>5. QED  BY <2>4, <1>1, <1>3, <1>4 DEF RefsOK
  <1>5. CASE conn[s].data = d /\ conn'[s].data = 0 /\ n = -1
    <2>1. Sending(conn', d) = Sending(conn, d) \ {s} /\ s \in Sending(conn, d)
      BY <1>2, <1>5 DEF Sending
    <2>2. IsFiniteSet(Sending(conn, d))
      BY <1>1
    <2>3. Cardinality(Sending(conn, d) \ {s}) = Cardinality(Sending(conn, d)) - 1
      BY <2>1, <2>2, FS_RemoveElement, Zenon
    <2>4. Cardinality(Sending(conn', d)) = Cardinality(Sending(conn, d)) - 1
      BY <2>1, <2>3
    <2>5. QED  BY <2>4, <1>1, <1>3, <1>5 DEF RefsOK
  <1>6. QED  BY <1>4, <1>5

(* A server that starts moves what is announced. *)
LEMMA ServeOwners ==
    ASSUME ResourcesOK, RefsOK, HeldOK, stack \in Seq(Frames), path \in Paths,
           loop \in {"none", "running", "quit"},
           server' \in 0..MaxServers, conn' = conn, refs' = refs, bookmark' = bookmark,
           NEW frames, NEW wait, Serve(frames, wait),
           frames = stack \/ (stack # <<>> /\ frames = Front(stack))
    PROVE  ResourcesOK' /\ RefsOK' /\ HeldOK'
  <1>1. resources' = Announced(server', resources)
    BY DEF Serve
  <1>2. SameData(resources, resources')
    BY <1>1, AnnouncedFacts DEF ResourcesOK, SameData
  <1>3. bookmark \in Keys \cup {NoKey}
    BY DEF ResourcesOK
  <1>4. ResourcesOK' /\ \A d \in Data : Owned(resources', d) <=> Owned(resources, d)
    BY <1>2, <1>3, SameOwners
  <1> DEFINE g == Frame("run", FALSE, NoSocket, 0)
  <1>5. frames \in Seq(Frames)
    BY PopFacts
  <1>6. stack' = frames \/ stack' = Append(frames, g)
    BY <1>5, EnterFacts DEF Serve
  <1>7. g \in Frames /\ g.data = 0
    BY FrameType DEF Frame
  <1> HIDE DEF g
  <1>8. \/ stack' = stack
        \/ stack # <<>> /\ stack' = Front(stack)
        \/ stack' = Append(stack, g) \/ (stack # <<>> /\ stack' = Append(Front(stack), g))
    BY <1>6
  <1>9. HeldOK'
    BY <1>4, <1>7, <1>8, HeldKept
  <1>10. QED  BY <1>4, <1>9, RefsKept

LEMMA OwnersStep ==
    ASSUME ServerOK, RequestsOK, ResourcesOK, RefsOK, HeldOK, ServerOK', [Next]_vars
    PROVE  ResourcesOK' /\ RefsOK' /\ HeldOK'
  <1> DEFINE Goal == ResourcesOK' /\ RefsOK' /\ HeldOK'
             Pushed(g) == stack' = Append(stack, g)
  <1>0. /\ stack \in Seq(Frames) /\ path \in Paths
        /\ loop \in {"none", "running", "quit"}
        /\ conn \in [Sockets -> Requests]
        /\ resources \in [AllKeys -> Resources]
        /\ refs \in [Data -> Int]
        /\ server' \in 0..MaxServers
        /\ Keys \subseteq AllKeys /\ Root \in AllKeys
        /\ \A e \in Data : e # 0
    <2>1. Cardinality(Creating') \in Nat \/ stack' \notin Seq(Frames)
      BY StartsFinite DEF Creating, Starts
    <2>2. stack' \in Seq(Frames)
      BY RequestsStep DEF RequestsOK, FramesOK
    <2>3. server' \in 0..MaxServers
      BY <2>1, <2>2, PublisherAssumption DEF ServerOK
    <2>4. QED
      BY <2>3 DEF ServerOK, ResourcesOK, RequestsOK, FramesOK, RefsOK, AllKeys, Data
  <1>1. ASSUME resources' = resources, bookmark' = bookmark, refs' = refs,
               \A s \in Sockets : conn'[s].data = conn[s].data,
               \/ stack' = stack
               \/ stack # <<>> /\ stack' = Front(stack)
               \/ \E g \in Frames :
                    /\ g.data # 0 => Holds(g) /\ Owned(resources, g.data)
                    /\ Pushed(g)
        PROVE  Goal
    <2>1. ResourcesOK'
      BY <1>1 DEF ResourcesOK
    <2>2. \A d \in Data : Owned(resources', d) <=> Owned(resources, d)
      BY <1>1
    <2>3. RefsOK'
      BY <1>1, <2>2, RefsKept
    <2>4. HeldOK'
      <3>1. CASE stack' = stack \/ (stack # <<>> /\ stack' = Front(stack))
        BY <1>0, <2>2, <3>1, HeldKept
      <3>2. ASSUME NEW g \in Frames, g.data # 0 => Holds(g) /\ Owned(resources, g.data), Pushed(g)
            PROVE  HeldOK'
        <4>1. g.data # 0 => Holds(g) /\ Owned(resources', g.data)
          BY <3>2, <1>1
        <4>2. QED  BY <1>0, <2>2, <3>2, <4>1, HeldKept
      <3>3. QED  BY <1>1, <3>1, <3>2
    <2>5. QED  BY <2>1, <2>3, <2>4
  <1>2. CASE LockedCall
    BY <1>2, LockedOwners
  <1>3. ASSUME NEW wait \in BOOLEAN, RunAgain(wait), UNCHANGED requestVars PROVE Goal
    <2> DEFINE g == Frame("run", FALSE, NoSocket, 0)
    <2>1. /\ resources' = resources /\ bookmark' = bookmark /\ refs' = refs /\ conn' = conn
          /\ Enter(stack, wait)
      BY <1>3 DEF RunAgain, contentVars, requestVars
    <2>2. g \in Frames /\ g.data = 0
      BY FrameType DEF Frame
    <2>3. stack' = stack \/ stack' = Append(stack, g)
      BY <2>1, <1>0, EnterFacts
    <2> HIDE DEF g
    <2>4. QED  BY <1>1, <2>1, <2>2, <2>3
  <1>4. ASSUME NEW wait \in BOOLEAN, CreateServer(wait), UNCHANGED requestVars PROVE Goal
    <2> DEFINE g == Frame("create", wait, NoSocket, 0)
    <2>1. bookmark' = bookmark /\ refs' = refs /\ conn' = conn
      BY <1>4 DEF CreateServer, requestVars
    <2>2. CASE stack' = Append(stack, g) /\ resources' = resources
      <3>1. g \in Frames /\ g.data = 0
        BY FrameType DEF Frame
      <3> HIDE DEF g
      <3>2. QED  BY <2>1, <2>2, <3>1, <1>1
    <2>3. CASE Serve(stack, wait)
      BY <2>1, <2>3, <1>0, ServeOwners
    <2>4. QED  BY <1>4, <2>2, <2>3 DEF CreateServer
  <1>5. CASE Run
    BY <1>3, <1>4, <1>5 DEF Run
  <1>6. CASE RunInVain
    BY <1>1, <1>6 DEF RunInVain, RunRefused, RunFails, contentVars, requestVars
  <1>7. ASSUME Stop PROVE \A s \in Sockets : conn'[s].data = conn[s].data
    BY <1>0, <1>7 DEF Stop, Requests
  <1>8. CASE Quit
    BY <1>1, <1>7, <1>8 DEF Quit, contentVars
  <1>9. CASE Dispose
    <2>1. /\ \A k \in AllKeys : resources'[k] = NoResource
          /\ resources' \in [AllKeys -> Resources]
          /\ bookmark' = NoKey
          /\ stack' = stack /\ stack = <<>>
      BY <1>9, NoResourceFacts DEF Dispose, Fresh, AllKeys
    <2>2. \A k \in AllKeys : resources'[k].data = 0 /\ resources'[k].auth = 0
                             /\ resources'[k].kind = "none"
      BY <2>1, NoResourceFacts
    <2>3. "none" \notin Kinds
      BY PublisherAssumption
    <2>4. \A e \in Data : ~Owned(resources', e)
      BY <2>2, <1>0 DEF Owned, Uses
    <2>5. OneOwner(resources')
      BY <2>2, <1>0 DEF OneOwner, Uses
    <2>6. ResourcesOK'
      BY <2>1, <2>2, <2>3, <2>5 DEF ResourcesOK
    <2>7. /\ refs' \in [Data -> Int]
          /\ \A e \in Data : refs'[e] = IF Owned(resources, e) THEN refs[e] - 1 ELSE refs[e]
      BY <1>9, <1>0 DEF Dispose, Owned, Uses, AllKeys
    <2>8. \A e : Sending(conn', e) = Sending(conn, e)
      BY <1>7, <1>9 DEF Dispose, Sending
    <2>9. \A e \in Data : Cardinality(Sending(conn, e)) \in Nat
      <3>1. \A e \in Data : IsFiniteSet(Sending(conn, e))
        BY PublisherAssumption, FS_Subset DEF Sending
      <3>2. QED  BY <3>1, FS_CardinalityType
    <2>10. RefsOK'
      BY <2>4, <2>7, <2>8, <2>9 DEF RefsOK
    <2>11. HeldOK'
      BY <2>1 DEF HeldOK
    <2>12. QED  BY <2>6, <2>10, <2>11
  <1>10. CASE SetProperty
    BY <1>1, <1>10 DEF SetProperty, contentVars, requestVars
  <1>11. CASE CreateEnds
    <2>1. /\ bookmark' = bookmark /\ refs' = refs /\ conn' = conn
          /\ stack # <<>> /\ Serve(Front(stack), Last(stack).wait)
      BY <1>11 DEF CreateEnds, requestVars
    <2> DEFINE frames == Front(stack)
               wait == Last(stack).wait
    <2>2. Serve(frames, wait) /\ stack # <<>> /\ frames = Front(stack)
      BY <2>1
    <2> HIDE DEF frames, wait
    <2>3. QED  BY <2>1, <2>2, <1>0, ServeOwners
  <1>12. CASE LoopEnds
    BY <1>1, <1>12 DEF LoopEnds, contentVars, requestVars
  <1>13. \A s \in Sockets : RequestOK(s)
    BY DEF RequestsOK
  <1>14. ASSUME NEW s \in Sockets, Ended(s), conn[s].state # "sending"
         PROVE  \A t \in Sockets : conn'[t].data = conn[t].data
    BY <1>0, <1>13, <1>14, IdleRequest DEF Ended, RequestOK
  <1>15. CASE AuthReturns \/ HandlerReturns
    <2> DEFINE s == Last(stack).socket
    <2>1. /\ resources' = resources /\ bookmark' = bookmark /\ refs' = refs
          /\ stack # <<>> /\ stack' = Front(stack) /\ Holds(Last(stack))
      BY <1>15 DEF AuthReturns, HandlerReturns, contentVars, Holds
    <2>2. s \in Sockets /\ conn[s].state \in {"auth", "handling"}
      <3>1. Len(stack) \in 1..Len(stack) /\ Last(stack) = stack[Len(stack)]
        BY <1>0, <2>1, PopFacts
      <3>2. QED  BY <2>1, <3>1 DEF RequestsOK, FramesOK, Awaits
    <2> HIDE DEF s
    <2>3. \/ conn' = [conn EXCEPT ![s].state = "ready"]
          \/ Ended(s)
          \/ \E open : conn' = [conn EXCEPT ![s].state = "sending", ![s].open = open]
      BY <1>15 DEF AuthReturns, HandlerReturns, s
    <2>4. \A t \in Sockets : conn'[t].data = conn[t].data
      <3>1. CASE Ended(s)
        BY <3>1, <2>2, <1>14
      <3>2. CASE conn' = [conn EXCEPT ![s].state = "ready"]
        BY <3>2, <2>2, <1>0 DEF Requests
      <3>3. ASSUME NEW open, conn' = [conn EXCEPT ![s].state = "sending", ![s].open = open]
            PROVE  \A t \in Sockets : conn'[t].data = conn[t].data
        BY <3>3, <2>2, <1>0 DEF Requests
      <3>4. QED  BY <2>3, <3>1, <3>2, <3>3
    <2>5. QED  BY <2>1, <2>4, <1>1
  <1>16. ASSUME NEW s \in Sockets, NEW k \in Keys, Request(s, k) PROVE Goal
    <2>1. /\ resources' = resources /\ bookmark' = bookmark /\ refs' = refs
          /\ conn[s] = NoRequest
      BY <1>16 DEF Request, contentVars
    <2>2. \A t \in Sockets : conn'[t].data = conn[t].data
      BY <1>16, <1>0, <2>1, IdleRequest DEF Request
    <2>3. stack' = stack \/ (stack' = Append(stack, Frame("auth", FALSE, s, AuthOf(k)))
                             /\ AuthOf(k) \in Data)
      BY <1>16, Asking DEF Request
    <2> DEFINE g == Frame("auth", FALSE, s, AuthOf(k))
    <2>4. AuthOf(k) \in Data => g \in Frames /\ Holds(g) /\ Owned(resources, g.data)
      <3>1. g.op = "auth" /\ g.data = AuthOf(k)
        BY DEF Frame
      <3>2. Uses(resources[k], AuthOf(k)) \/ Uses(resources[Root], AuthOf(k))
        BY DEF AuthOf, Uses
      <3>3. Owned(resources, AuthOf(k))
        BY <3>2, <1>0 DEF Owned
      <3>4. QED  BY <3>1, <3>3, FrameType DEF Holds
    <2> HIDE DEF g
    <2>5. QED  BY <1>1, <2>1, <2>2, <2>3, <2>4 DEF g
  <1>17. ASSUME NEW s \in Sockets, Unhandled(s) PROVE Goal
    BY <1>17, <1>1, <1>14 DEF Unhandled, contentVars
  <1>18. ASSUME NEW s \in Sockets, Finish(s) PROVE Goal
    <2> DEFINE d == conn[s].data
    <2>1. /\ resources' = resources /\ bookmark' = bookmark /\ stack' = stack
          /\ refs' = [e \in Data |-> IF e = d THEN refs[e] - 1 ELSE refs[e]]
          /\ conn' = [conn EXCEPT ![s] = NoRequest]
      BY <1>18 DEF Finish, Ended
    <2>2. /\ conn'[s].data = 0
          /\ \A t \in Sockets \ {s} : conn'[t].data = conn[t].data
      BY <2>1, <1>0, IdleRequest
    <2>3. ResourcesOK' /\ HeldOK'
      BY <2>1 DEF ResourcesOK, HeldOK
    <2>4. RefsOK'
      <3>1. CASE d \in Data
        <4>1. refs' \in [Data -> Int]
          BY <2>1, <1>0
        <4>2. \A e \in Data : refs'[e] = IF e = d THEN refs[e] + (-1) ELSE refs[e]
          BY <2>1, <1>0
        <4>3. conn[s].data = d
          OBVIOUS
        <4> HIDE DEF d
        <4>4. QED  BY <3>1, <4>1, <4>2, <4>3, <2>1, <2>2, OneAnswer
      <3>2. CASE d = 0
        <4>1. refs' = refs
          BY <2>1, <3>2, <1>0
        <4>2. \A t \in Sockets : conn'[t].data = conn[t].data
          BY <2>2, <3>2
        <4>3. QED  BY <4>1, <4>2, <2>1, RefsKept
      <3>3. d \in {0} \cup Data
        BY <1>0 DEF Requests
      <3>4. QED  BY <3>1, <3>2, <3>3
    <2>5. QED  BY <2>3, <2>4
  <1>19. ASSUME NEW s \in Sockets, Handle(s) PROVE Goal
    <2> DEFINE r == resources[conn[s].key]
    <2>1. /\ resources' = resources /\ bookmark' = bookmark /\ conn[s].state = "ready"
      BY <1>19 DEF Handle
    <2>2. conn[s].key \in AllKeys /\ conn[s].data = 0 /\ r \in Resources
      BY <2>1, <1>0, <1>13 DEF RequestOK
    <2>3. ASSUME conn' = [conn EXCEPT ![s] = NoRequest], UNCHANGED <<refs, stack>> PROVE Goal
      <3>1. \A t \in Sockets : conn'[t].data = conn[t].data
        BY <2>3, <2>2, <1>0, IdleRequest
      <3>2. QED  BY <3>1, <2>1, <2>3, <1>1
    <2>4. ASSUME r.kind = "static", UNCHANGED stack,
                 conn' = [conn EXCEPT ![s].state = "sending", ![s].data = r.data],
                 refs' = [refs EXCEPT ![r.data] = @ + 1]
          PROVE  Goal
      <3>1. r.data \in Data
        <4>1. r.kind \in Kinds /\ r.data \in {0} \cup Data
          BY <2>4, <2>2 DEF Resources
        <4>2. QED  BY <4>1, <2>2 DEF ResourcesOK
      <3>2. /\ conn'[s].data = r.data
            /\ \A t \in Sockets \ {s} : conn'[t].data = conn[t].data
        BY <2>4, <1>0 DEF Requests
      <3>3. /\ refs' \in [Data -> Int]
            /\ \A e \in Data : refs'[e] = IF e = r.data THEN refs[e] + 1 ELSE refs[e]
        BY <2>4, <3>1, <1>0
      <3> DEFINE d == r.data
      <3>4. /\ d \in Data /\ conn'[s].data = d
            /\ \A e \in Data : refs'[e] = IF e = d THEN refs[e] + 1 ELSE refs[e]
        BY <3>1, <3>2, <3>3
      <3> HIDE DEF d
      <3>5. RefsOK'
        BY <2>1, <2>2, <3>2, <3>3, <3>4, OneAnswer
      <3>6. ResourcesOK' /\ HeldOK'
        BY <2>1, <2>4 DEF ResourcesOK, HeldOK
      <3>7. QED  BY <3>5, <3>6
    <2>5. ASSUME UNCHANGED refs, conn' = [conn EXCEPT ![s].state = "handling"],
                 stack' = Append(stack, Frame("handle", FALSE, s, r.data))
          PROVE  Goal
      <3> DEFINE g == Frame("handle", FALSE, s, r.data)
      <3>1. \A t \in Sockets : conn'[t].data = conn[t].data
        BY <2>5, <1>0 DEF Requests
      <3>2. r.data \in {0} \cup Data
        BY <2>2 DEF Resources
      <3>3. g \in Frames /\ g.data = r.data /\ Holds(g)
        BY <3>2, FrameType DEF Frame, Holds
      <3>4. Owned(resources, r.data)
        BY <2>2 DEF Owned, Uses
      <3>5. g.data # 0 => Holds(g) /\ Owned(resources, g.data)
        BY <3>3, <3>4
      <3>6. Pushed(g)
        BY <2>5
      <3> HIDE DEF g, Pushed
      <3>7. QED  BY <1>1, <2>1, <2>5, <3>1, <3>3, <3>5, <3>6
    <2>6. QED  BY <1>19, <2>3, <2>4, <2>5 DEF Handle
  <1>20. CASE UNCHANGED vars
    BY <1>20, <1>1 DEF vars, contentVars, requestVars
  <1>21. QED
    BY <1>2, <1>5, <1>6, <1>8, <1>9, <1>10, <1>11, <1>12, <1>15, <1>16, <1>17, <1>18, <1>19,
       <1>20 DEF Next

-----------------------------------------------------------------------------
(* The inductive invariant holds, and what it implies. *)

LEMMA BaseInit == Init => BaseInv
  <1> SUFFICES ASSUME Init PROVE BaseInv
    OBVIOUS
  <1>0. stack = <<>> /\ stack \in Seq(Frames) /\ Len(stack) = 0
    BY DEF Init
  <1>1. ServerOK
    <2>1. Creating = {}
      BY <1>0 DEF Creating
    <2>2. Cardinality(Creating) = 0
      BY <2>1, FS_EmptySet
    <2>3. NewDispatcher("none") = NoDispatcher
      BY DEF NewDispatcher, NoDispatcher
    <2>4. dispatcher \in Dispatchers
      BY <2>3, NewDispatcherType DEF Init
    <2>5. created = 0 /\ server = 0 /\ MaxServers \in Nat /\ MaxCalls \in Nat /\ path \in Paths
      BY PublisherAssumption DEF Init, Paths
    <2>6. /\ created \in Nat /\ server \in 0..created
          /\ created + Cardinality(Creating) <= MaxServers
          /\ budget \in 0..MaxCalls
      BY <2>2, <2>5 DEF Init
    <2>7. /\ started \in BOOLEAN
          /\ loop \in {"none", "running", "quit"}
          /\ auth \in {"none", "basic", "digest"}
          /\ named \in BOOLEAN
          /\ basic \in BOOLEAN
          /\ protocol \in {"http", "https"}
          /\ files \subseteq {"certificate", "key"}
          /\ fault \in {"none", "silent", "assert", "freed_file"}
      BY DEF Init
    <2>8. QED  BY <2>4, <2>5, <2>6, <2>7 DEF ServerOK, Dispatchers
  <1>2. RequestsOK
    <2>1. /\ conn \in [Sockets -> Requests]
          /\ \A s \in Sockets : conn[s] = NoRequest
          /\ DOMAIN clients = {}
      BY IdleRequest DEF Init
    <2>2. FramesOK(stack, conn, clients)
      BY <1>0, <2>1, IdleRequest DEF FramesOK
    <2>3. QED  BY <2>1, <2>2, IdleRequest DEF RequestsOK, RequestOK
  <1>3. \A k \in AllKeys : /\ resources[k].data = 0 /\ resources[k].auth = 0
                           /\ resources[k].kind = "none"
    BY NoResourceFacts DEF Init, AllKeys
  <1>4. \A d \in Data : d # 0
    BY DEF Data
  <1>5. ResourcesOK
    <2>1. resources \in [AllKeys -> Resources] /\ bookmark = NoKey
      BY NoResourceFacts DEF Init, AllKeys
    <2>2. "none" \notin Kinds
      BY PublisherAssumption
    <2>3. QED  BY <1>3, <1>4, <2>1, <2>2 DEF ResourcesOK, OneOwner, Uses
  <1>6. RefsOK
    <2>1. \A d \in Data : ~Owned(resources, d)
      BY <1>3, <1>4 DEF Owned, Uses
    <2>2. \A d \in Data : Sending(conn, d) = {}
      BY <1>4, IdleRequest DEF Init, Sending
    <2>3. \A d \in Data : refs[d] = 0 /\ Cardinality(Sending(conn, d)) = 0
      BY <2>2, FS_EmptySet DEF Init
    <2>4. refs \in [Data -> Int]
      BY DEF Init
    <2>5. QED  BY <2>1, <2>3, <2>4 DEF RefsOK
  <1>7. HeldOK
    BY <1>0 DEF HeldOK
  <1>8. QED  BY <1>1, <1>2, <1>5, <1>6, <1>7 DEF BaseInv

LEMMA BaseStep == BaseInv /\ [Next]_vars => BaseInv'
  <1> SUFFICES ASSUME BaseInv, [Next]_vars PROVE BaseInv'
    OBVIOUS
  <1>1. ServerOK /\ RequestsOK /\ ResourcesOK /\ RefsOK /\ HeldOK
    BY DEF BaseInv
  <1>2. ServerOK'
    BY <1>1, ServerStep
  <1>3. RequestsOK'
    BY <1>1, RequestsStep
  <1>4. ResourcesOK' /\ RefsOK' /\ HeldOK'
    BY <1>1, <1>2, OwnersStep
  <1>5. QED  BY <1>2, <1>3, <1>4 DEF BaseInv

LEMMA BaseAlways == Spec => []BaseInv
  <1>1. QED  BY BaseInit, BaseStep, PTL DEF Spec

LEMMA SendingFinite ==
    \A d \in Data : IsFiniteSet(Sending(conn, d)) /\ Cardinality(Sending(conn, d)) \in Nat
  <1>1. \A d \in Data : IsFiniteSet(Sending(conn, d))
    BY PublisherAssumption, FS_Subset DEF Sending
  <1>2. QED  BY <1>1, FS_CardinalityType

LEMMA BaseTypes == BaseInv => TypeOK
  <1> SUFFICES ASSUME BaseInv PROVE TypeOK
    OBVIOUS
  <1>1. stack \in Seq(Frames)
    BY DEF BaseInv, RequestsOK, FramesOK
  <1>2. Cardinality(Creating) \in Nat
    BY <1>1, StartsFinite DEF Creating, Starts
  <1>3. created \in 0..MaxServers /\ server \in 0..created
    BY <1>2, PublisherAssumption DEF BaseInv, ServerOK
  <1>4. refs \in [Data -> Nat]
    <2>1. \A d \in Data : refs[d] \in Nat
      BY SendingFinite DEF BaseInv, RefsOK
    <2>2. refs \in [Data -> Int]
      BY DEF BaseInv, RefsOK
    <2>3. QED  BY <2>1, <2>2
  <1>5. /\ DOMAIN clients \subseteq Sockets
        /\ \A s \in DOMAIN clients : clients[s] \in Nat
        /\ conn \in [Sockets -> Requests]
    BY DEF BaseInv, RequestsOK, TagOK
  <1>6. resources \in [Keys \cup {Root} -> Resources] /\ bookmark \in Keys \cup {NoKey}
    BY DEF BaseInv, ResourcesOK, AllKeys
  <1>7. /\ started \in BOOLEAN
        /\ loop \in {"none", "running", "quit"}
        /\ auth \in {"none", "basic", "digest"}
        /\ dispatcher \in [state : {"none", "failed", "running"}, at : Places,
                           bookmark : Keys \cup {NoKey}]
        /\ named \in BOOLEAN
        /\ basic \in BOOLEAN
        /\ path \in Paths
        /\ protocol \in {"http", "https"}
        /\ files \subseteq {"certificate", "key"}
        /\ fault \in {"none", "silent", "assert", "freed_file"}
        /\ budget \in 0..MaxCalls
    BY DEF BaseInv, ServerOK
  <1>8. conn \in [Sockets -> [state : {"idle", "auth", "ready", "handling", "sending"},
                             key : Keys \cup {NoKey}, data : {0} \cup Data,
                             server : 0..MaxServers, open : BOOLEAN]]
    BY <1>5 DEF Requests
  <1>9. QED  BY ONLY <1>1, <1>3, <1>4, <1>5, <1>6, <1>7, <1>8 DEF TypeOK

LEMMA BaseRefs == BaseInv => RefsExact
  <1> SUFFICES ASSUME BaseInv, NEW d \in Data PROVE refs[d] = Referenced(d)
    BY DEF RefsExact
  <1> DEFINE A == {k \in AllKeys : resources[k].data = d}
             B == {k \in AllKeys : resources[k].auth = d}
  <1>1. Referenced(d) = Cardinality(A) + Cardinality(B) + Cardinality(Sending(conn, d))
    BY DEF Referenced, AllKeys, Sending
  <1>2. /\ refs[d] = (IF Owned(resources, d) THEN 1 ELSE 0) + Cardinality(Sending(conn, d))
        /\ OneOwner(resources)
        /\ Cardinality(Sending(conn, d)) \in Nat
        /\ d # 0
    BY SendingFinite DEF BaseInv, RefsOK, ResourcesOK, Data
  <1>3. Cardinality(A) + Cardinality(B) = IF Owned(resources, d) THEN 1 ELSE 0
    <2>1. ASSUME NEW k \in AllKeys, Uses(resources[k], d) PROVE <1>3
      <3>1. Owned(resources, d)
        BY <2>1 DEF Owned
      <3>2. \A l \in A \cup B : l = k
        BY <2>1, <1>2 DEF OneOwner, Uses
      <3>3. (A = {k} /\ B = {}) \/ (A = {} /\ B = {k})
        BY <2>1, <3>2, <1>2 DEF OneOwner, Uses
      <3>4. Cardinality({k}) = 1
        BY FS_Singleton
      <3>5. Cardinality({}) = 0
        BY FS_EmptySet
      <3> HIDE DEF A, B
      <3>6. QED  BY <3>1, <3>3, <3>4, <3>5
    <2>2. CASE ~Owned(resources, d)
      <3>1. A = {} /\ B = {}
        BY <2>2 DEF Owned, Uses
      <3>2. Cardinality({}) = 0
        BY FS_EmptySet
      <3> HIDE DEF A, B
      <3>3. QED  BY <3>1, <3>2, <2>2
    <2>3. QED  BY <2>1, <2>2 DEF Owned
  <1> HIDE DEF A, B
  <1>4. QED  BY <1>1, <1>2, <1>3

LEMMA BaseHandlers == ASSUME ~Nested PROVE BaseInv => HandlerDataLive
  <1> SUFFICES ASSUME BaseInv, NEW i \in Holders, stack[i].data # 0 PROVE refs[stack[i].data] > 0
    BY DEF HandlerDataLive
  <1>1. i \in 1..Len(stack)
    BY DEF Holders
  <1>2. stack[i] \in Frames
    BY <1>1, ElementOfSeq DEF BaseInv, RequestsOK, FramesOK
  <1>3. stack[i].data \in Data
    BY <1>2 DEF Frames
  <1>4. Owned(resources, stack[i].data)
    BY <1>1 DEF BaseInv, HeldOK
  <1>5. QED  BY <1>3, <1>4, SendingFinite DEF BaseInv, RefsOK

LEMMA BaseTags == BaseInv => TagsExact
  <1> SUFFICES ASSUME BaseInv, NEW s \in DOMAIN clients, conn[s].open
               PROVE  clients[s]
                        = Cardinality({i \in Holders : stack[i].op = "handle" /\ stack[i].socket = s})
    BY DEF TagsExact
  <1> DEFINE H == {i \in Holders : stack[i].op = "handle" /\ stack[i].socket = s}
  <1>1. /\ clients[s] = IF conn[s].state = "handling" THEN 1 ELSE 0
        /\ s \in Sockets
        /\ FramesOK(stack, conn, clients)
    BY DEF BaseInv, RequestsOK, TagOK
  <1>2. \A i \in H : i \in 1..Len(stack) /\ Holds(stack[i]) /\ Awaits(stack[i].op) = "handling"
    BY DEF Holders, Holds, Awaits
  <1>3. CASE conn[s].state = "handling"
    <2>1. PICK i \in 1..Len(stack) : stack[i].op = "handle" /\ stack[i].socket = s
      BY <1>1, <1>3 DEF FramesOK
    <2>2. i \in H
      BY <2>1 DEF Holders
    <2>3. \A j \in H : j = i
      BY <1>1, <1>2, <2>2 DEF FramesOK
    <2>4. H = {i}
      BY <2>2, <2>3
    <2> HIDE DEF H
    <2>5. Cardinality(H) = 1
      BY <2>4, FS_Singleton
    <2>6. QED  BY <2>5, <1>1, <1>3 DEF H
  <1>4. CASE conn[s].state # "handling"
    <2>1. H = {}
      BY <1>1, <1>2, <1>4 DEF FramesOK
    <2> HIDE DEF H
    <2>2. Cardinality(H) = 0
      BY <2>1, FS_EmptySet
    <2>3. QED  BY <2>2, <1>1, <1>4 DEF H
  <1>5. QED  BY <1>3, <1>4

(* The publisher's state is what epc_publisher_init and the setters allow, at
   any number of keys, connections and calls. *)
THEOREM TypeCorrect == Spec => []TypeOK
  <1>1. QED  BY BaseAlways, BaseTypes, PTL

(* User data have one reference for every resource and every answer that uses
   them (epc_resource_free, epc_publisher_handle_static), so neither are
   contents freed while they are sent, nor are any forgotten. *)
THEOREM RefsSafe == Spec => []RefsExact
  <1>1. QED  BY BaseAlways, BaseRefs, PTL

(* The data of a running handler are not released behind its back as long as
   the application does not drop them from a call nested in the handler: the
   lock keeps other threads out (epc_publisher_handle_contents, the handlers
   for authentication). *)
THEOREM HandlerDataSafe ==
    ASSUME "nested_release" \notin Hazards PROVE Spec => []HandlerDataLive
  <1>1. BaseInv => HandlerDataLive
    BY BaseHandlers DEF Nested
  <1>2. QED  BY <1>1, BaseAlways, PTL

(* The tag of an open connection counts the handlers that run for it
   (epc_publisher_track_client, epc_publisher_untrack_client). *)
THEOREM TagsSafe == Spec => []TagsExact
  <1>1. QED  BY BaseAlways, BaseTags, PTL

-----------------------------------------------------------------------------
(* What is announced. *)

LEMMA SameStart ==
    ASSUME StartInv, Starts(stack') = Starts(stack), dispatcher'.state = dispatcher.state,
           dispatcher'.at = dispatcher.at, UNCHANGED <<server, auth, named, path>>
    PROVE  StartInv'
  <1>1. Creating = Starts(stack) /\ Creating' = Starts(stack')
    BY DEF Creating, Starts
  <1>2. Creating' = Creating /\ Place(server)' = Place(server)
    BY <1>1 DEF Place
  <1>3. QED  BY <1>2 DEF StartInv

LEMMA SameBookmarks ==
    ASSUME BookmarkInv, resources' = resources, bookmark' = bookmark, dispatcher' = dispatcher,
           server' = server, path' = path
    PROVE  BookmarkInv'
  BY DEF BookmarkInv, Place

(* The announcement of a running dispatcher. *)
LEMMA AnnouncingFacts ==
    ASSUME NEW disp, NEW sv, NEW res, NEW b, disp.state # "none"
    PROVE  /\ Announcing(disp, sv, res, b).state = disp.state
           /\ Announcing(disp, sv, res, b).at = Place(sv)
           /\ Announcing(disp, sv, res, b).bookmark =
                IF b # NoKey /\ res[b].kind # "none" /\ ~res[b].label THEN b ELSE NoKey
  BY DEF Announcing

LEMMA AnnouncedLabels ==
    ASSUME NEW res \in [AllKeys -> Resources], NEW sv, NEW k \in AllKeys
    PROVE  /\ Announced(sv, res)[k].label = res[k].label
           /\ Announced(sv, res)[k].kind = res[k].kind
           /\ k # Root /\ res[k].label => Announced(sv, res)[k].at = Place(sv)
  <1>1. Announced(sv, res)[k] =
          IF k # Root /\ res[k].label THEN [res[k] EXCEPT !.at = Place(sv)] ELSE res[k]
    BY DEF Announced, AllKeys
  <1>2. res[k] \in Resources
    OBVIOUS
  <1> HIDE DEF Announced
  <1>3. QED  BY <1>1, <1>2 DEF Resources

(* A server that starts is announced, with its bookmarks. *)
LEMMA ServeStart ==
    ASSUME ResourcesOK, stack \in Seq(Frames), loop \in {"none", "running", "quit"},
           server' > 0, NEW frames \in Seq(Frames), NEW wait, Serve(frames, wait),
           Starts(frames) = {}, named' = TRUE, path' = path, bookmark' = bookmark,
           NEW disp, disp.state = "running",
           dispatcher' = Announcing(disp, server', resources, bookmark)
    PROVE  /\ StartInv'
           /\ BookmarkInv => BookmarkInv'
  <1>1. /\ dispatcher'.state = "running"
        /\ dispatcher'.at = Place(server')
        /\ dispatcher'.bookmark =
             IF bookmark # NoKey /\ resources[bookmark].kind # "none" /\ ~resources[bookmark].label
             THEN bookmark ELSE NoKey
    BY AnnouncingFacts
  <1>2. Place(server)' = Place(server')
    BY DEF Place
  <1>3. Starts(stack') = {}
    BY EnterFacts DEF Serve
  <1>4. Creating' = {}
    BY <1>3 DEF Creating, Starts
  <1>5. auth' # "none"
    BY DEF Serve, AuthDomain
  <1>6. StartInv'
    BY <1>1, <1>2, <1>4, <1>5 DEF StartInv
  <1>7. ASSUME BookmarkInv PROVE BookmarkInv'
    <2>1. /\ resources' = Announced(server', resources)
          /\ resources \in [AllKeys -> Resources]
          /\ bookmark \in Keys \cup {NoKey}
          /\ Keys \subseteq AllKeys /\ Root \in AllKeys
      BY DEF Serve, ResourcesOK, AllKeys
    <2>2. \A k \in AllKeys : /\ resources'[k].label = resources[k].label
                             /\ resources'[k].kind = resources[k].kind
                             /\ k # Root /\ resources[k].label => resources'[k].at = Place(server')
      BY <2>1, AnnouncedLabels
    <2>3. \A k \in AllKeys : resources'[k].label => resources'[k].at = Place(server')
      BY <1>7, <2>2 DEF BookmarkInv
    <2>4. ~resources'[Root].label
      BY <1>7, <2>1, <2>2 DEF BookmarkInv
    <2>5. bookmark # NoKey => resources'[bookmark].kind # "none"
      BY <1>7, <2>1, <2>2 DEF BookmarkInv
    <2>6. /\ dispatcher'.bookmark \in {NoKey, bookmark'}
          /\ bookmark' # NoKey => resources'[bookmark'].label \/ dispatcher'.bookmark = bookmark'
      BY <1>1, <1>7, <2>1, <2>2 DEF BookmarkInv
    <2>7. QED  BY <1>2, <2>3, <2>4, <2>5, <2>6 DEF BookmarkInv
  <1>8. QED  BY <1>6, <1>7

(* Calls under the lock announce anew what they change. *)
LEMMA LockedStart ==
    ASSUME BaseInv, StartInv, LockedCall
    PROVE  StartInv'
  <1>0. /\ stack \in Seq(Frames)
        /\ server' = server /\ auth' = auth /\ named' = named /\ path' = path
    BY DEF BaseInv, RequestsOK, FramesOK, LockedCall, serverVars, settings
  <1>1. Starts(stack') = Starts(stack)
    BY <1>0, LockedStack
  <1>2. PICK own \in BOOLEAN :
          \/ \E k \in Keys : RemoveKey(k, own)
          \/ \E k \in Keys, kind \in Kinds : AddHandler(k, kind, own)
          \/ \E k \in AllKeys : SetAuthHandler(k, own)
          \/ \E k \in AllKeys, labelled \in BOOLEAN : AddBookmark(k, labelled)
    BY LockedCases
  <1>3. \/ dispatcher' = dispatcher
        \/ server # 0 /\ \E res, b : dispatcher' = Announcing(dispatcher, server, res, b)
    BY <1>2 DEF RemoveKey, AddHandler, SetAuthHandler, AddBookmark, Announce
  <1>4. dispatcher'.state = dispatcher.state /\ dispatcher'.at = dispatcher.at
    <2>1. ASSUME server # 0, NEW res, NEW b, dispatcher' = Announcing(dispatcher, server, res, b)
          PROVE  dispatcher'.state = dispatcher.state /\ dispatcher'.at = dispatcher.at
      <3>1. dispatcher.state = "running" /\ dispatcher.at = Place(server)
        BY <2>1 DEF StartInv
      <3>2. dispatcher.state # "none"
        BY <3>1
      <3>3. QED  BY <2>1, <3>1, <3>2, AnnouncingFacts
    <2>2. QED  BY <1>3, <2>1
  <1>5. QED  BY <1>0, <1>1, <1>4, SameStart

(* The application neither quits during a start, nor unsets the name, nor moves
   the contents of a running server. *)
Steady == "quit_early" \notin Hazards /\ "null_name" \notin Hazards /\ "new_path" \notin Hazards

LEMMA StartStep ==
    ASSUME Steady, BaseInv, StartInv, [Next]_vars
    PROVE  StartInv'
  <1>0. /\ stack \in Seq(Frames)
        /\ loop \in {"none", "running", "quit"}
        /\ ResourcesOK /\ RequestsOK
        /\ created \in Nat /\ server \in 0..created
        /\ Creating = Starts(stack) /\ Creating' = Starts(stack')
    BY DEF BaseInv, RequestsOK, FramesOK, ServerOK, Creating, Starts
  <1>1. CASE LockedCall
    BY <1>1, LockedStart
  <1>2. ASSUME NEW wait \in BOOLEAN, RunAgain(wait) PROVE StartInv'
    <2>1. Starts(stack') = Starts(stack)
      BY <1>0, <1>2, EnterFacts DEF RunAgain
    <2>2. QED  BY <1>2, <2>1, SameStart DEF RunAgain, settings
  <1>3. ASSUME NEW wait \in BOOLEAN, CreateServer(wait) PROVE StartInv'
    <2>1. /\ server = 0 /\ named' = TRUE /\ path' = path /\ bookmark' = bookmark
          /\ Starts(stack) = {}
      BY <1>0, <1>3 DEF CreateServer, StartInv
    <2>2. CASE stack' = Append(stack, Frame("create", wait, NoSocket, 0))
               /\ dispatcher' = NewDispatcher("running") /\ UNCHANGED serverVars
      <3>1. Starts(stack') = {} \cup {Len(stack) + 1}
        BY <2>1, <2>2, <1>0, PushStarts, FrameType DEF Frame
      <3>2. \A i, j \in Creating' : i = j
        BY <3>1, <1>0
      <3>3. dispatcher'.state = "running" /\ server' = 0
        BY <2>1, <2>2, NewDispatcherType DEF serverVars
      <3>4. QED  BY <2>1, <3>2, <3>3 DEF StartInv
    <2>3. CASE Serve(stack, wait)
               /\ dispatcher' = Announcing(NewDispatcher("running"), server', resources, bookmark)
      <3> DEFINE disp == NewDispatcher("running")
      <3>1. disp.state = "running"
        BY NewDispatcherType
      <3>2. server' > 0
        BY <2>3, <1>0 DEF Serve
      <3> HIDE DEF disp
      <3>3. dispatcher' = Announcing(disp, server', resources, bookmark)
        BY <2>3 DEF disp
      <3>4. QED  BY <2>1, <2>3, <3>1, <3>2, <3>3, <1>0, ServeStart
    <2>4. QED  BY <1>3, <2>2, <2>3 DEF CreateServer
  <1>4. CASE Run
    BY <1>2, <1>3, <1>4 DEF Run
  <1>5. CASE RunInVain
    <2>1. CASE RunRefused
      BY <2>1, SameStart DEF RunRefused, serverVars, settings
    <2>2. CASE RunFails
      <3>1. /\ server' = 0 /\ named' = TRUE /\ dispatcher.state = "none"
            /\ dispatcher'.state = "failed" /\ stack' = stack
        BY <2>2, NewDispatcherType DEF RunFails, serverVars
      <3>2. Creating' = {}
        BY <3>1, <1>0 DEF StartInv
      <3>3. QED  BY <3>1, <3>2 DEF StartInv
    <2>3. QED  BY <1>5, <2>1, <2>2 DEF RunInVain
  <1>6. CASE Quit
    <2>1. server' = 0 /\ named' = named /\ Creating' = {}
      BY <1>0, <1>6, StopFacts DEF Quit, settings, Steady
    <2>2. QED  BY <2>1 DEF StartInv
  <1>7. CASE Dispose
    <2>1. server' = 0 /\ named' = TRUE /\ stack' = stack /\ stack = <<>>
      BY <1>0, <1>7, StopFacts DEF Dispose, Fresh
    <2>2. Creating' = {}
      BY <2>1 DEF Creating
    <2>3. QED  BY <2>1, <2>2 DEF StartInv
  <1>8. CASE SetProperty
    <2>1. server' = server /\ dispatcher' = dispatcher /\ Creating' = Creating
      BY <1>0, <1>8 DEF SetProperty
    <2>2. /\ named' = TRUE
          /\ server # 0 => path' = path /\ auth' # "none"
      <3>1. named = TRUE /\ (server # 0 => auth # "none")
        BY DEF StartInv
      <3>2. ASSUME NEW null \in BOOLEAN, SetServiceName(null) PROVE <2>2
        BY <3>1, <3>2 DEF SetServiceName, Reinstall, AuthDomain, Steady
      <3>3. ASSUME NEW text \in BOOLEAN, SetAuthFlags(text) PROVE <2>2
        BY <3>1, <3>3 DEF SetAuthFlags, Reinstall, AuthDomain
      <3>4. ASSUME NEW q \in Paths, SetContentsPath(q) PROVE <2>2
        BY <3>1, <3>4 DEF SetContentsPath, Steady
      <3>5. ASSUME NEW q \in {"http", "https"}, SetProtocol(q) PROVE <2>2
        BY <3>1, <3>5 DEF SetProtocol
      <3>6. ASSUME NEW g \in {"certificate", "key"}, SetFile(g) PROVE <2>2
        BY <3>1, <3>6 DEF SetFile
      <3>7. QED  BY <1>8, <3>2, <3>3, <3>4, <3>5, <3>6 DEF SetProperty
    <2>3. server # 0 => Place(server)' = Place(server)
      BY <2>1, <2>2 DEF Place
    <2>4. QED  BY <2>1, <2>2, <2>3 DEF StartInv
  <1>9. CASE CreateEnds
    <2>1. /\ stack # <<>> /\ Last(stack).op = "create"
          /\ Serve(Front(stack), Last(stack).wait)
          /\ dispatcher' = Announcing(dispatcher, server', resources, bookmark)
          /\ named' = named /\ path' = path /\ bookmark' = bookmark
      BY <1>9 DEF CreateEnds
    <2>2. /\ Front(stack) \in Seq(Frames) /\ Len(stack) \in Creating
          /\ Starts(Front(stack)) = Creating \ {Len(stack)}
      BY <1>0, <2>1, PopFacts, PopStarts
    <2>3. Starts(Front(stack)) = {} /\ dispatcher.state = "running" /\ named' = TRUE
      BY <2>1, <2>2 DEF StartInv
    <2>4. server' > 0
      BY <2>1, <1>0 DEF Serve
    <2> DEFINE frames == Front(stack)
               wait == Last(stack).wait
    <2>5. frames \in Seq(Frames) /\ Starts(frames) = {} /\ Serve(frames, wait)
      BY <2>1, <2>2, <2>3
    <2> HIDE DEF frames, wait
    <2>6. QED  BY <2>1, <2>3, <2>4, <2>5, <1>0, ServeStart
  <1>10. CASE LoopEnds \/ AuthReturns \/ HandlerReturns
    <2>1. Starts(stack') = Starts(stack)
      BY <1>0, <1>10, PopStarts DEF LoopEnds, AuthReturns, HandlerReturns
    <2>2. QED
      BY <1>10, <2>1, SameStart DEF LoopEnds, AuthReturns, HandlerReturns, serverVars, settings
  <1>11. ASSUME NEW s \in Sockets,
                Unhandled(s) \/ Handle(s) \/ Finish(s) \/ \E k \in Keys : Request(s, k)
         PROVE  StartInv'
    <2>1. UNCHANGED <<serverVars, dispatcher, settings>>
      BY <1>11 DEF Request, Unhandled, Handle, Finish
    <2>2. \/ stack' = stack
          \/ \E op \in {"auth", "handle"}, d \in {0} \cup Data :
                stack' = Append(stack, Frame(op, FALSE, s, d))
      BY <1>0, <1>11, Asking DEF Unhandled, Finish
    <2>3. ASSUME NEW op \in {"auth", "handle"}, NEW d \in {0} \cup Data,
                 stack' = Append(stack, Frame(op, FALSE, s, d))
          PROVE  Starts(stack') = Starts(stack)
      <3>1. Frame(op, FALSE, s, d) \in Frames /\ Frame(op, FALSE, s, d).op # "create"
        BY FrameType DEF Frame
      <3>2. QED  BY <2>3, <3>1, <1>0, PushStarts
    <2>4. Starts(stack') = Starts(stack)
      BY <2>2, <2>3
    <2>5. QED  BY <2>1, <2>4, SameStart DEF serverVars, settings
  <1>12. CASE UNCHANGED vars
    BY <1>12, SameStart DEF vars, serverVars, settings
  <1>13. QED
    BY <1>1, <1>4, <1>5, <1>6, <1>7, <1>8, <1>9, <1>10, <1>11, <1>12 DEF Next

(* It does not bookmark the root either, nor replace the resource of the default
   bookmark that has a label of its own. *)
Proper == "root_bookmark" \notin Hazards /\ "relabel" \notin Hazards

LEMMA LockedBookmarks ==
    ASSUME Proper, BaseInv, StartInv, BookmarkInv, LockedCall
    PROVE  BookmarkInv'
  <1>0. /\ server' = server /\ path' = path
        /\ resources \in [AllKeys -> Resources]
        /\ bookmark \in Keys \cup {NoKey}
        /\ Keys \subseteq AllKeys /\ Root \in AllKeys /\ Root \notin Keys /\ NoKey \notin AllKeys
        /\ Place(server)' = Place(server)
        /\ server # 0 => dispatcher.state # "none"
    BY PublisherAssumption
       DEF BaseInv, ResourcesOK, LockedCall, serverVars, settings, AllKeys, Place, StartInv
  <1>1. ASSUME NEW own, NEW k \in Keys, RemoveKey(k, own) PROVE BookmarkInv'
    <2>1. CASE bookmark = k
      <3>1. PICK res : /\ res = resources \/ res = Announced(server, resources)
                       /\ resources' = [res EXCEPT ![k] = NoResource]
        BY <1>1 DEF RemoveKey
      <3>2. /\ bookmark' = NoKey
            /\ server = 0 => dispatcher' = dispatcher
            /\ server # 0 => dispatcher' = Announcing(dispatcher, server, resources, NoKey)
        BY <1>1, <2>1 DEF RemoveKey
      <3>3. dispatcher'.bookmark = NoKey
        <4>1. CASE server = 0
          BY <3>2, <4>1 DEF BookmarkInv
        <4>2. CASE server # 0
          <5>1. Announcing(dispatcher, server, resources, NoKey).bookmark = NoKey
            BY <4>2, <1>0, AnnouncingFacts
          <5>2. QED  BY <3>2, <4>2, <5>1
        <4>3. QED  BY <4>1, <4>2
      <3>4. \A l \in AllKeys : /\ Announced(server, resources)[l].label = resources[l].label
                               /\ l # Root /\ resources[l].label =>
                                    Announced(server, resources)[l].at = Place(server)
        BY <1>0, AnnouncedLabels
      <3>5. DOMAIN res = AllKeys
        BY <3>1, <1>0 DEF Announced, AllKeys
      <3>6. \A l \in AllKeys : resources'[l] = IF l = k THEN NoResource ELSE res[l]
        BY <3>1, <3>5
      <3>7. ~resources'[Root].label
        BY <3>1, <3>4, <3>6, <1>0 DEF BookmarkInv
      <3>8. server # 0 => \A l \in AllKeys : resources'[l].label => resources'[l].at = Place(server)
        <4>1. ~NoResource.label
          BY NoResourceFacts
        <4>2. ~resources[Root].label
          BY DEF BookmarkInv
        <4>3. server # 0 => \A l \in AllKeys : res[l].label => res[l].at = Place(server)
          BY <3>1, <3>4, <4>2 DEF BookmarkInv
        <4>4. QED  BY <3>6, <4>1, <4>3
      <3>9. QED  BY <3>2, <3>3, <3>7, <3>8, <1>0 DEF BookmarkInv
    <2>2. CASE bookmark # k
      <3>1. /\ bookmark' = bookmark /\ dispatcher' = dispatcher
            /\ resources' = [resources EXCEPT ![k] = NoResource]
        BY <1>1, <2>2 DEF RemoveKey
      <3>2. \A l \in AllKeys : resources'[l] = IF l = k THEN NoResource ELSE resources[l]
        BY <3>1, <1>0
      <3>3. ~resources'[Root].label
        BY <3>2, <1>0 DEF BookmarkInv
      <3>4. bookmark # NoKey => resources'[bookmark] = resources[bookmark]
        BY <3>2, <2>2, <1>0
      <3>5. server # 0 => \A l \in AllKeys : resources'[l].label => resources'[l].at = Place(server)
        BY <3>2, NoResourceFacts DEF BookmarkInv
      <3>6. QED  BY <3>1, <3>3, <3>4, <3>5, <1>0 DEF BookmarkInv
    <2>3. QED  BY <2>1, <2>2
  <1>2. ASSUME NEW own, NEW k \in Keys, NEW kind \in Kinds, AddHandler(k, kind, own)
        PROVE  BookmarkInv'
    <2>1. PICK d \in NewData :
            resources' = [resources EXCEPT ![k] = [NoResource EXCEPT !.kind = kind, !.data = d]]
      BY <1>2 DEF AddHandler
    <2> DEFINE r == [NoResource EXCEPT !.kind = kind, !.data = d]
    <2>2. ~r.label /\ r.kind # "none"
      <3>1. d \in Data
        BY DEF NewData
      <3>2. r.kind = kind /\ ~r.label
        BY <3>1, NoResourceFacts
      <3> HIDE DEF r
      <3>3. QED  BY <3>2, PublisherAssumption
    <2>3. \A l \in AllKeys : resources'[l] = IF l = k THEN r ELSE resources[l]
      BY <2>1, <1>0
    <2> HIDE DEF r
    <2>4. /\ bookmark' = bookmark /\ dispatcher' = dispatcher
          /\ ~(server # 0 /\ bookmark = k /\ resources[k].label)
      BY <1>2 DEF AddHandler, Proper
    <2>5. ~resources'[Root].label
      BY <2>3, <1>0 DEF BookmarkInv
    <2>6. bookmark # NoKey => resources'[bookmark].kind # "none"
      BY <2>2, <2>3, <1>0 DEF BookmarkInv
    <2>7. server # 0 /\ bookmark # NoKey =>
            resources'[bookmark].label \/ dispatcher.bookmark = bookmark
      BY <2>3, <2>4, <1>0 DEF BookmarkInv
    <2>8. server # 0 => \A l \in AllKeys : resources'[l].label => resources'[l].at = Place(server)
      BY <2>2, <2>3 DEF BookmarkInv
    <2>9. QED  BY <2>4, <2>5, <2>6, <2>7, <2>8, <1>0 DEF BookmarkInv
  <1>3. ASSUME NEW k \in AllKeys, Findable(k)
        PROVE  /\ Found(k) \in Resources /\ Found(k).kind # "none"
               /\ Found(k).label => k # Root
               /\ k # Root => Found(k) = resources[k]
    <2>1. CASE resources[k].kind = "none"
      <3>1. k = Root /\ Found(k) = [NoResource EXCEPT !.kind = "default"]
        BY <2>1, <1>3 DEF Findable, Found
      <3>2. Nowhere \in Places
        BY PublisherAssumption DEF Nowhere, Places
      <3>3. /\ [NoResource EXCEPT !.kind = "default"] \in Resources
            /\ [NoResource EXCEPT !.kind = "default"].kind = "default"
            /\ ~[NoResource EXCEPT !.kind = "default"].label
        BY <3>2 DEF NoResource, Resources
      <3>4. QED  BY <3>1, <3>3
    <2>2. CASE resources[k].kind # "none"
      BY <2>2, <1>0 DEF Found, BookmarkInv
    <2>3. QED  BY <2>1, <2>2
  <1>4. ASSUME NEW own, NEW k \in AllKeys, SetAuthHandler(k, own) PROVE BookmarkInv'
    <2>1. PICK d \in NewData : resources' = [resources EXCEPT ![k] = [Found(k) EXCEPT !.auth = d]]
      BY <1>4 DEF SetAuthHandler
    <2>2. /\ bookmark' = bookmark /\ dispatcher' = dispatcher /\ Findable(k)
      BY <1>4 DEF SetAuthHandler
    <2> DEFINE r == [Found(k) EXCEPT !.auth = d]
    <2>3. r.label = Found(k).label /\ r.kind = Found(k).kind /\ r.at = Found(k).at
      <3>1. Found(k) \in Resources
        BY <2>2, <1>3
      <3> HIDE DEF Found
      <3>2. QED  BY <3>1 DEF Resources
    <2>4. \A l \in AllKeys : resources'[l] = IF l = k THEN r ELSE resources[l]
      BY <2>1, <1>0
    <2> HIDE DEF r
    <2>5. r.kind # "none" /\ (r.label => k # Root)
      BY <2>2, <2>3, <1>3
    <2>6. k # Root => r.label = resources[k].label /\ r.at = resources[k].at
      BY <2>2, <2>3, <1>3
    <2>7. ~resources'[Root].label
      BY <2>4, <2>5, <1>0 DEF BookmarkInv
    <2>8. bookmark # NoKey => /\ resources'[bookmark].kind # "none"
                              /\ resources'[bookmark].label = resources[bookmark].label
      BY <2>4, <2>5, <2>6, <1>0 DEF BookmarkInv
    <2>9. server # 0 => \A l \in AllKeys : resources'[l].label => resources'[l].at = Place(server)
      BY <2>4, <2>5, <2>6 DEF BookmarkInv
    <2>10. QED  BY <2>2, <2>7, <2>8, <2>9, <1>0 DEF BookmarkInv
  <1>5. ASSUME NEW k \in AllKeys, NEW labelled \in BOOLEAN, AddBookmark(k, labelled)
        PROVE  BookmarkInv'
    <2> DEFINE r == [Found(k) EXCEPT !.label = @ \/ labelled]
               res == [resources EXCEPT ![k] = r]
    <2>1. /\ k # Root /\ Findable(k)
          /\ bookmark' = IF labelled THEN bookmark ELSE k
          /\ Announce(res, bookmark')
      BY <1>5 DEF AddBookmark, Proper
    <2>2. Found(k) = resources[k] /\ resources[k].kind # "none" /\ k \in Keys
      BY <2>1, <1>3 DEF AllKeys
    <2>3. r \in Resources /\ r.kind = resources[k].kind
      BY <2>2, <1>0 DEF Resources
    <2> HIDE DEF r
    <2>4. /\ res \in [AllKeys -> Resources]
          /\ res[k] = r /\ \A l \in AllKeys \ {k} : res[l] = resources[l]
      BY <2>3, <1>0
    <2> HIDE DEF res
    <2>5. /\ ~res[Root].label
          /\ bookmark' \in Keys \cup {NoKey}
          /\ bookmark' # NoKey => res[bookmark'].kind # "none"
      BY <2>1, <2>2, <2>3, <2>4, <1>0 DEF BookmarkInv
    <2>6. CASE server = 0
      <3>1. resources' = res /\ dispatcher' = dispatcher
        BY <2>1, <2>6 DEF Announce
      <3>2. dispatcher.bookmark = NoKey
        BY <2>6 DEF BookmarkInv
      <3>3. QED  BY <2>5, <2>6, <3>1, <3>2, <1>0 DEF BookmarkInv
    <2>7. CASE server # 0
      <3>1. /\ resources' = Announced(server, res)
            /\ dispatcher' = Announcing(dispatcher, server, res, bookmark')
        BY <2>1, <2>7 DEF Announce
      <3>2. \A l \in AllKeys : /\ resources'[l].label = res[l].label
                               /\ resources'[l].kind = res[l].kind
                               /\ l # Root /\ res[l].label => resources'[l].at = Place(server)
        BY <2>4, <3>1, AnnouncedLabels
      <3> DEFINE b == bookmark'
      <3>3. Announcing(dispatcher, server, res, b).bookmark =
              IF b # NoKey /\ res[b].kind # "none" /\ ~res[b].label THEN b ELSE NoKey
        <4> HIDE DEF b
        <4>1. QED  BY <2>7, <1>0, AnnouncingFacts
      <3>4. dispatcher'.bookmark = IF b # NoKey /\ ~res[b].label THEN b ELSE NoKey
        BY <2>5, <3>1, <3>3
      <3>5. /\ ~resources'[Root].label
            /\ b # NoKey => resources'[b].kind # "none" /\ resources'[b].label = res[b].label
            /\ \A l \in AllKeys : resources'[l].label => resources'[l].at = Place(server)
        BY <2>5, <3>2, <1>0
      <3>6. QED  BY <2>7, <3>4, <3>5, <1>0 DEF BookmarkInv
    <2>8. QED  BY <2>6, <2>7
  <1>6. QED  BY <1>1, <1>2, <1>4, <1>5, LockedCases

LEMMA BookmarkStep ==
    ASSUME Steady, Proper, BaseInv, BaseInv', StartInv, StartInv', BookmarkInv, [Next]_vars
    PROVE  BookmarkInv'
  <1>0. /\ stack \in Seq(Frames)
        /\ loop \in {"none", "running", "quit"}
        /\ ResourcesOK
        /\ created \in Nat /\ server \in 0..created
        /\ Creating = Starts(stack)
        /\ NoDispatcher.bookmark = NoKey
    BY DEF BaseInv, RequestsOK, FramesOK, ServerOK, Creating, Starts, NoDispatcher
  <1>1. CASE LockedCall
    BY <1>1, LockedBookmarks
  <1>2. ASSUME NEW wait \in BOOLEAN, RunAgain(wait) PROVE BookmarkInv'
    BY <1>2, SameBookmarks DEF RunAgain, settings, contentVars
  <1>3. ASSUME NEW wait \in BOOLEAN, CreateServer(wait) PROVE BookmarkInv'
    <2>1. /\ server = 0 /\ named' = TRUE /\ path' = path /\ bookmark' = bookmark
          /\ Starts(stack) = {}
      BY <1>0, <1>3 DEF CreateServer, StartInv
    <2>2. CASE resources' = resources /\ dispatcher' = NewDispatcher("running")
               /\ UNCHANGED serverVars
      <3>1. dispatcher'.bookmark = NoKey /\ server' = 0
        BY <2>1, <2>2, NewDispatcherType DEF serverVars
      <3>2. QED  BY <2>1, <2>2, <3>1 DEF BookmarkInv
    <2>3. CASE Serve(stack, wait)
               /\ dispatcher' = Announcing(NewDispatcher("running"), server', resources, bookmark)
      <3> DEFINE disp == NewDispatcher("running")
      <3>1. disp.state = "running"
        BY NewDispatcherType
      <3>2. server' > 0
        BY <2>3, <1>0 DEF Serve
      <3> HIDE DEF disp
      <3>3. dispatcher' = Announcing(disp, server', resources, bookmark)
        BY <2>3 DEF disp
      <3>4. QED  BY <2>1, <2>3, <3>1, <3>2, <3>3, <1>0, ServeStart
    <2>4. QED  BY <1>3, <2>2, <2>3 DEF CreateServer
  <1>4. CASE Run
    BY <1>2, <1>3, <1>4 DEF Run
  <1>5. CASE RunInVain
    <2>1. CASE RunRefused
      BY <2>1, SameBookmarks DEF RunRefused, serverVars, settings, contentVars
    <2>2. CASE RunFails
      <3>1. /\ server' = 0 /\ dispatcher'.bookmark = NoKey
            /\ resources' = resources /\ bookmark' = bookmark
        BY <2>2, NewDispatcherType DEF RunFails, serverVars, contentVars
      <3>2. QED  BY <3>1 DEF BookmarkInv
    <2>3. QED  BY <1>5, <2>1, <2>2 DEF RunInVain
  <1>6. CASE Quit
    <2>1. /\ server' = 0 /\ dispatcher'.bookmark = NoKey
          /\ resources' = resources /\ bookmark' = bookmark
      BY <1>0, <1>6, StopFacts DEF Quit, contentVars
    <2>2. QED  BY <2>1 DEF BookmarkInv
  <1>7. CASE Dispose
    <2>1. /\ server' = 0 /\ dispatcher'.bookmark = NoKey /\ bookmark' = NoKey
          /\ resources'[Root] = NoResource
      BY <1>0, <1>7, StopFacts DEF Dispose, Fresh
    <2>2. QED  BY <2>1, NoResourceFacts DEF BookmarkInv
  <1>8. CASE SetProperty
    <2>1. /\ server' = server /\ dispatcher' = dispatcher
          /\ resources' = resources /\ bookmark' = bookmark
      BY <1>8 DEF SetProperty, contentVars
    <2>2. server # 0 => path' = path
      BY <1>8 DEF SetProperty, SetServiceName, SetAuthFlags, SetContentsPath, SetProtocol, SetFile,
                  Steady
    <2>3. server # 0 => Place(server)' = Place(server)
      BY <2>1, <2>2 DEF Place
    <2>4. QED  BY <2>1, <2>3 DEF BookmarkInv
  <1>9. CASE CreateEnds
    <2>1. /\ stack # <<>> /\ Last(stack).op = "create"
          /\ Serve(Front(stack), Last(stack).wait)
          /\ dispatcher' = Announcing(dispatcher, server', resources, bookmark)
          /\ named' = named /\ path' = path /\ bookmark' = bookmark
      BY <1>9 DEF CreateEnds
    <2>2. /\ Front(stack) \in Seq(Frames) /\ Len(stack) \in Creating
          /\ Starts(Front(stack)) = Creating \ {Len(stack)}
      BY <1>0, <2>1, PopFacts, PopStarts
    <2>3. Starts(Front(stack)) = {} /\ dispatcher.state = "running" /\ named' = TRUE
      BY <2>1, <2>2 DEF StartInv
    <2>4. server' > 0
      BY <2>1, <1>0 DEF Serve
    <2> DEFINE frames == Front(stack)
               wait == Last(stack).wait
    <2>5. frames \in Seq(Frames) /\ Starts(frames) = {} /\ Serve(frames, wait)
      BY <2>1, <2>2, <2>3
    <2> HIDE DEF frames, wait
    <2>6. QED  BY <2>1, <2>3, <2>4, <2>5, <1>0, ServeStart
  <1>10. CASE LoopEnds \/ AuthReturns \/ HandlerReturns \/ UNCHANGED vars
    BY <1>10, SameBookmarks
       DEF LoopEnds, AuthReturns, HandlerReturns, vars, serverVars, settings, contentVars
  <1>11. CASE \E s \in Sockets : Unhandled(s) \/ Handle(s) \/ Finish(s)
                                  \/ \E k \in Keys : Request(s, k)
    BY <1>11, SameBookmarks
       DEF Request, Unhandled, Handle, Finish, serverVars, settings, contentVars
  <1>12. QED
    BY <1>1, <1>4, <1>5, <1>6, <1>7, <1>8, <1>9, <1>10, <1>11 DEF Next

LEMMA StartInit == Init => StartInv
  <1> SUFFICES ASSUME Init PROVE StartInv
    OBVIOUS
  <1>1. server = 0 /\ named = TRUE /\ Len(stack) = 0
    BY DEF Init
  <1>2. Creating = {}
    BY <1>1 DEF Creating
  <1>3. QED  BY <1>1, <1>2 DEF StartInv

LEMMA BookmarkInit == Init => BookmarkInv
  <1> SUFFICES ASSUME Init PROVE BookmarkInv
    OBVIOUS
  <1>1. /\ server = 0 /\ bookmark = NoKey /\ dispatcher.bookmark = NoKey
        /\ resources[Root] = NoResource
    BY DEF Init, NoDispatcher
  <1>2. QED  BY <1>1, NoResourceFacts DEF BookmarkInv

(* As long as the application does not quit while keys are generated, nor unset
   the name, nor move the contents of a running server, whatever else it does: a
   server that takes requests is announced where it is and asks for
   authentication (epc_publisher_announce, epc_publisher_install_handlers). *)
THEOREM ServingAnnounced ==
    ASSUME "quit_early" \notin Hazards, "null_name" \notin Hazards, "new_path" \notin Hazards
    PROVE  Spec => []ServingIsAnnounced
  <1>1. Steady
    BY DEF Steady
  <1>2. BaseInv /\ StartInv /\ [Next]_vars => StartInv'
    BY <1>1, StartStep
  <1>3. StartInv => ServingIsAnnounced
    BY DEF StartInv, ServingIsAnnounced
  <1>4. QED  BY <1>2, <1>3, StartInit, BaseAlways, PTL DEF Spec

(* If in addition it neither bookmarks the root nor replaces the resource behind
   both bookmarks: what is announced are the bookmarks of the resources there
   are, where the server is (epc_publisher_announce). *)
THEOREM BookmarksSafe ==
    ASSUME "quit_early" \notin Hazards, "null_name" \notin Hazards, "new_path" \notin Hazards,
           "root_bookmark" \notin Hazards, "relabel" \notin Hazards
    PROVE  Spec => []BookmarksServed
  <1>1. Steady /\ Proper
    BY DEF Steady, Proper
  <1>2. BaseInv /\ StartInv /\ [Next]_vars => StartInv'
    BY <1>1, StartStep
  <1>3. BaseInv /\ BaseInv' /\ StartInv /\ StartInv' /\ BookmarkInv /\ [Next]_vars => BookmarkInv'
    BY <1>1, BookmarkStep
  <1>4. BookmarkInv => BookmarksServed
    BY DEF BookmarkInv, BookmarksServed, AllKeys
  <1>5. QED  BY <1>2, <1>3, <1>4, StartInit, BookmarkInit, BaseAlways, PTL DEF Spec

=============================================================================

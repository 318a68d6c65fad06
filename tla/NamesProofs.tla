---------------------------- MODULE NamesProofs ----------------------------
(***************************************************************************)
(* Theorems about the functions on names, for texts of every length: a key *)
(* comes back from the path of its request, and the protocol from a        *)
(* service type.                                                           *)
(*                                                                         *)
(* What the functions are defined by is recursion over a text.  The        *)
(* library's theorems on induction cannot be used here, but from the fact  *)
(* that < is well-founded on the naturals follows that a set of naturals   *)
(* has a least element, and from this induction for sets: the texts with   *)
(* some property form a set, which contains all of them.                   *)
(***************************************************************************)
EXTENDS Names, SequenceTheorems, FiniteSetTheorems, WellFoundedInduction, TLAPS

-----------------------------------------------------------------------------
(* Induction. *)

LEMMA LeastNumber ==
    ASSUME NEW T \in SUBSET Nat, T # {}
    PROVE  \E n \in T : \A m \in T : n <= m
  <1> DEFINE R == OpToRel(<, Nat)
  <1>1. \A m, n \in Nat : <<m, n>> \in R <=> m < n
    BY DEF OpToRel
  <1>2. IsWellFoundedOn(R, Nat)
    BY NatLessThanWellFounded
  <1> HIDE DEF R
  <1>3. PICK n \in T : \A m \in T : ~(<<m, n>> \in R)
    BY <1>2, WFMin
  <1>4. \A m \in T : ~(m < n)
    BY <1>1, <1>3
  <1>5. \A m \in T : m \in Nat
    OBVIOUS
  <1>6. QED  BY <1>4, <1>5

LEMMA Induction ==
    ASSUME NEW T, 0 \in T, \A n \in Nat : n \in T => n + 1 \in T
    PROVE  Nat \subseteq T
  <1> DEFINE U == Nat \ T
  <1>1. SUFFICES ASSUME U # {} PROVE FALSE
    OBVIOUS
  <1>2. PICK n \in U : \A m \in U : n <= m
    BY <1>1, LeastNumber
  <1>3. n - 1 \in Nat /\ n - 1 \notin U
    BY <1>2
  <1>4. QED  BY <1>2, <1>3

(* A text is empty, or a symbol and a text. *)
LEMMA Prefixed ==
    ASSUME NEW S, NEW c \in S, NEW t \in Seq(S)
    PROVE  /\ <<c>> \in Seq(S)
           /\ <<c>> \o t \in Seq(S)
           /\ Len(<<c>> \o t) = Len(t) + 1
           /\ Len(t) \in Nat
           /\ (<<c>> \o t)[1] = c
           /\ \A i \in 1..Len(t) : (<<c>> \o t)[i + 1] = t[i]
           /\ Tail(<<c>> \o t) = t
           /\ <<c>> \o t # <<>>
  <1>1. /\ <<c>> \in Seq(S)
        /\ Len(<<c>>) = 1
        /\ <<c>>[1] = c
        /\ Len(t) \in Nat
    BY LenProperties
  <1>2. /\ <<c>> \o t \in Seq(S)
        /\ Len(<<c>> \o t) = Len(t) + 1
        /\ \A i \in 1..(1 + Len(t)) : (<<c>> \o t)[i] = IF i <= 1 THEN <<c>>[i] ELSE t[i - 1]
    BY <1>1, ConcatProperties
  <1>3. (<<c>> \o t)[1] = c /\ \A i \in 1..Len(t) : (<<c>> \o t)[i + 1] = t[i]
    BY <1>1, <1>2
  <1>4. <<c>> \o t # <<>>
    BY <1>1, <1>2, EmptySeq
  <1>5. /\ Tail(<<c>> \o t) \in Seq(S)
        /\ Len(Tail(<<c>> \o t)) = Len(t)
        /\ \A i \in 1..Len(t) : Tail(<<c>> \o t)[i] = t[i]
    BY <1>1, <1>2, <1>3, <1>4, HeadTailProperties
  <1>6. Tail(<<c>> \o t) = t
    BY <1>5, SeqEqual
  <1>7. QED  BY <1>1, <1>2, <1>3, <1>4, <1>6

LEMMA Split ==
    ASSUME NEW S, NEW t \in Seq(S), t # <<>>
    PROVE  /\ t[1] \in S
           /\ Tail(t) \in Seq(S)
           /\ t = <<t[1]>> \o Tail(t)
           /\ Len(t) = Len(Tail(t)) + 1
           /\ Len(Tail(t)) \in Nat
           /\ \A i \in 1..Len(Tail(t)) : Tail(t)[i] = t[i + 1]
  <1>1. Len(t) \in Nat \ {0}
    BY EmptySeq
  <1>2. t[1] \in S
    BY <1>1, ElementOfSeq
  <1>3. /\ Tail(t) \in Seq(S)
        /\ Len(Tail(t)) = Len(t) - 1
        /\ \A i \in 1..Len(Tail(t)) : Tail(t)[i] = t[i + 1]
    BY HeadTailProperties
  <1> DEFINE u == <<t[1]>> \o Tail(t)
  <1>4. /\ u \in Seq(S)
        /\ Len(u) = Len(Tail(t)) + 1
        /\ u[1] = t[1]
        /\ \A i \in 1..Len(Tail(t)) : u[i + 1] = Tail(t)[i]
    <2> DEFINE c == t[1]  v == Tail(t)
    <2>1. c \in S /\ v \in Seq(S)
      BY <1>2, <1>3
    <2> HIDE DEF c, v
    <2>2. /\ <<c>> \o v \in Seq(S)
          /\ Len(<<c>> \o v) = Len(v) + 1
          /\ (<<c>> \o v)[1] = c
          /\ \A i \in 1..Len(v) : (<<c>> \o v)[i + 1] = v[i]
      BY <2>1, Prefixed
    <2>3. QED  BY <2>2 DEF c, v
  <1> HIDE DEF u
  <1>5. \A i \in 1..Len(t) : t[i] = u[i]
    <2> SUFFICES ASSUME NEW i \in 1..Len(t) PROVE t[i] = u[i]
      OBVIOUS
    <2>1. CASE i = 1
      BY <2>1, <1>4
    <2>2. CASE i # 1
      <3>1. i - 1 \in 1..Len(Tail(t)) /\ i = (i - 1) + 1
        BY <2>2, <1>1, <1>3
      <3>2. u[(i - 1) + 1] = Tail(t)[i - 1] /\ Tail(t)[i - 1] = t[(i - 1) + 1]
        BY <3>1, <1>3, <1>4
      <3>3. QED  BY <3>1, <3>2
    <2>3. QED  BY <2>1, <2>2
  <1>6. t = u
    BY <1>1, <1>3, <1>4, <1>5, SeqEqual
  <1>7. QED  BY <1>1, <1>2, <1>3, <1>6 DEF u

(* Texts with a property, which the empty one has and a further symbol at the end
   preserves. *)
LEMMA GrowingTexts ==
    ASSUME NEW S, NEW T, <<>> \in T,
           \A t \in Seq(S), c \in S : t \in T => Append(t, c) \in T
    PROVE  Seq(S) \subseteq T
  <1> DEFINE N == {n \in Nat : \A t \in Seq(S) : Len(t) = n => t \in T}
  <1>1. 0 \in N
    BY EmptySeq
  <1>2. ASSUME NEW n \in Nat, n \in N PROVE n + 1 \in N
    <2> SUFFICES ASSUME NEW t \in Seq(S), Len(t) = n + 1 PROVE t \in T
      OBVIOUS
    <2>1. t # <<>>
      BY EmptySeq
    <2>2. PICK u \in Seq(S), c \in S : t = Append(u, c)
      BY <2>1, SequenceEmptyOrAppend
    <2>3. Len(u) = n
      BY <2>2, AppendProperties, LenProperties
    <2>4. QED  BY <2>2, <2>3, <1>2
  <1>3. Nat \subseteq N
    <2> HIDE DEF N
    <2>1. QED  BY <1>1, <1>2, Induction
  <1>4. ASSUME NEW t \in Seq(S) PROVE t \in T
    <2>1. Len(t) \in N
      BY <1>3, LenProperties
    <2>2. QED  BY <2>1
  <1>5. QED  BY <1>4

(* The same for a further symbol in front. *)
LEMMA PrefixedTexts ==
    ASSUME NEW S, NEW T, <<>> \in T,
           \A t \in Seq(S), c \in S : t \in T => <<c>> \o t \in T
    PROVE  Seq(S) \subseteq T
  <1> DEFINE N == {n \in Nat : \A t \in Seq(S) : Len(t) = n => t \in T}
  <1>1. 0 \in N
    BY EmptySeq
  <1>2. ASSUME NEW n \in Nat, n \in N PROVE n + 1 \in N
    <2> SUFFICES ASSUME NEW t \in Seq(S), Len(t) = n + 1 PROVE t \in T
      OBVIOUS
    <2>1. t # <<>>
      BY EmptySeq
    <2>2. /\ t[1] \in S /\ Tail(t) \in Seq(S) /\ t = <<t[1]>> \o Tail(t)
          /\ Len(t) = Len(Tail(t)) + 1 /\ Len(Tail(t)) \in Nat
      BY <2>1, Split
    <2>3. \A u \in Seq(S) : Len(u) = n => u \in T
      BY <1>2
    <2> DEFINE c == t[1]  u == Tail(t)
    <2>4. c \in S /\ u \in Seq(S) /\ Len(u) = n /\ t = <<c>> \o u
      BY <2>2
    <2> HIDE DEF c, u
    <2>5. u \in T
      BY <2>3, <2>4
    <2>6. QED  BY <2>4, <2>5
  <1>3. Nat \subseteq N
    <2> HIDE DEF N
    <2>1. QED  BY <1>1, <1>2, Induction
  <1>4. ASSUME NEW t \in Seq(S) PROVE t \in T
    <2>1. Len(t) \in N
      BY <1>3, LenProperties
    <2>2. QED  BY <2>1
  <1>5. QED  BY <1>4

-----------------------------------------------------------------------------
(* Putting texts together. *)

IsFlattening(seqs, f) ==
    f = [i \in 1..Len(seqs) |-> IF i = 1 THEN seqs[i] ELSE f[i - 1] \o seqs[i]]

LEMMA FlattenDef ==
    ASSUME NEW seqs
    PROVE  FlattenSeq(seqs) = IF Len(seqs) = 0 THEN seqs
                              ELSE (CHOOSE f : IsFlattening(seqs, f))[Len(seqs)]
  BY DEF FlattenSeq, IsFlattening

LEMMA FlatteningUnique ==
    ASSUME NEW seqs, Len(seqs) \in Nat, NEW f, NEW g, IsFlattening(seqs, f), IsFlattening(seqs, g)
    PROVE  f = g
  <1> DEFINE T == {i \in 1..Len(seqs) : f[i] # g[i]}
  <1>f. f = [i \in 1..Len(seqs) |-> f[i]] /\ g = [i \in 1..Len(seqs) |-> g[i]]
    BY DEF IsFlattening
  <1>1. SUFFICES T = {}
    <2>1. \A i \in 1..Len(seqs) : f[i] = g[i]
      BY <1>1
    <2>2. QED  BY <2>1, <1>f, Zenon
  <1>2. SUFFICES ASSUME T # {} PROVE FALSE
    OBVIOUS
  <1>3. PICK i \in T : \A j \in T : i <= j
    <2>1. T \in SUBSET Nat
      OBVIOUS
    <2> HIDE DEF T
    <2>2. QED  BY <2>1, <1>2, LeastNumber
  <1>4. i # 1
    BY <1>3 DEF IsFlattening
  <1>5. i - 1 \in 1..Len(seqs) /\ f[i - 1] = g[i - 1]
    BY <1>3, <1>4
  <1>6. f[i] = f[i - 1] \o seqs[i] /\ g[i] = g[i - 1] \o seqs[i]
    BY <1>3, <1>4 DEF IsFlattening
  <1>7. QED  BY <1>3, <1>5, <1>6

(* The flattening of a longer sequence goes on where that of its front ended. *)
LEMMA FlatteningGrows ==
    ASSUME NEW S, NEW s \in Seq(S), NEW x \in S, NEW f, IsFlattening(s, f)
    PROVE  LET t == Append(s, x)
               g == [i \in 1..(Len(s) + 1) |->
                       IF i <= Len(s) THEN f[i] ELSE IF i = 1 THEN x ELSE f[Len(s)] \o x]
           IN  IsFlattening(t, g)
  <1> DEFINE t == Append(s, x)
             g == [i \in 1..(Len(s) + 1) |->
                       IF i <= Len(s) THEN f[i] ELSE IF i = 1 THEN x ELSE f[Len(s)] \o x]
  <1>1. /\ Len(t) = Len(s) + 1
        /\ Len(s) \in Nat
        /\ \A i \in 1..Len(s) : t[i] = s[i]
        /\ t[Len(s) + 1] = x
    BY AppendProperties, LenProperties
  <1> HIDE DEF t
  <1>2. \A i \in 1..(Len(s) + 1) : g[i] = IF i = 1 THEN t[i] ELSE g[i - 1] \o t[i]
    <2> SUFFICES ASSUME NEW i \in 1..(Len(s) + 1)
                 PROVE  g[i] = IF i = 1 THEN t[i] ELSE g[i - 1] \o t[i]
      OBVIOUS
    <2>1. CASE i <= Len(s)
      <3>1. i \in 1..Len(s) /\ g[i] = f[i] /\ (i # 1 => g[i - 1] = f[i - 1])
        BY <1>1, <2>1
      <3>2. f[i] = IF i = 1 THEN s[i] ELSE f[i - 1] \o s[i]
        BY <3>1 DEF IsFlattening
      <3>3. QED  BY <1>1, <3>1, <3>2
    <2>2. CASE i = Len(s) + 1
      BY <1>1, <2>2
    <2>3. QED  BY <1>1, <2>1, <2>2
  <1>3. IsFlattening(t, g)
    BY <1>1, <1>2, ZenonT(60) DEF IsFlattening
  <1>4. QED  BY <1>3 DEF t

LEMMA FlatteningExists ==
    ASSUME NEW S
    PROVE  \A s \in Seq(S) : \E f : IsFlattening(s, f)
  <1> DEFINE T == {s \in Seq(S) : \E f : IsFlattening(s, f)}
  <1>1. <<>> \in T
    <2>1. IsFlattening(<<>>, <<>>)
      BY DEF IsFlattening
    <2>2. QED  BY <2>1, EmptySeq
  <1>2. ASSUME NEW s \in Seq(S), NEW x \in S, s \in T PROVE Append(s, x) \in T
    <2>1. PICK f : IsFlattening(s, f)
      BY <1>2
    <2>2. \E g : IsFlattening(Append(s, x), g)
      BY <2>1, FlatteningGrows
    <2>3. QED  BY <2>2, AppendProperties
  <1>3. Seq(S) \subseteq T
    <2> HIDE DEF T
    <2>1. QED  BY <1>1, <1>2, GrowingTexts
  <1>4. QED  BY <1>3

LEMMA FlattenAppend ==
    ASSUME NEW S, NEW s \in Seq(Seq(S)), NEW x \in Seq(S)
    PROVE  FlattenSeq(Append(s, x)) = FlattenSeq(s) \o x
  <1> DEFINE t == Append(s, x)
             f == CHOOSE h : IsFlattening(s, h)
             e == CHOOSE h : IsFlattening(t, h)
             g == [i \in 1..(Len(s) + 1) |->
                     IF i <= Len(s) THEN f[i] ELSE IF i = 1 THEN x ELSE f[Len(s)] \o x]
  <1>1. /\ t \in Seq(Seq(S))
        /\ Len(t) = Len(s) + 1
        /\ Len(s) \in Nat
    BY AppendProperties, LenProperties
  <1>2. IsFlattening(s, f)
    BY FlatteningExists
  <1>3. IsFlattening(t, g)
    <2> HIDE DEF f
    <2>1. QED  BY <1>2, FlatteningGrows
  <1>4. IsFlattening(t, e)
    <2> HIDE DEF g
    <2>1. QED  BY <1>3
  <1>5. e = g
    <2> HIDE DEF e, g, t
    <2>1. QED  BY <1>1, <1>3, <1>4, FlatteningUnique
  <1>6. FlattenSeq(t) = e[Len(s) + 1]
    <2>1. Len(t) # 0
      BY <1>1
    <2>2. QED  BY <2>1, <1>1, FlattenDef
  <1>7. CASE Len(s) = 0
    <2>1. s = <<>>
      BY <1>7, EmptySeq
    <2>2. FlattenSeq(s) = <<>>
      BY <2>1, <1>7, FlattenDef
    <2>3. <<>> \o x = x
      BY ConcatEmptySeq
    <2> HIDE DEF f, e, t
    <2>4. QED  BY <1>5, <1>6, <1>7, <2>2, <2>3 DEF t
  <1>8. CASE Len(s) # 0
    <2>1. FlattenSeq(s) = f[Len(s)]
      BY <1>8, FlattenDef
    <2> HIDE DEF f, e, t
    <2>2. QED  BY <1>1, <1>5, <1>6, <1>8, <2>1 DEF t
  <1>9. QED  BY <1>7, <1>8

-----------------------------------------------------------------------------
(* Escapes. *)

Codes == {"%", " ", "25", "20"}

LEMMA EscapesOf ==
    /\ DOMAIN Escapes = {"%", " "}
    /\ Escapes["%"] = "25"
    /\ Escapes[" "] = "20"
    /\ Unescaped("25") = "%"
    /\ Unescaped("20") = " "
    /\ Escaped("%") = <<"%", "25">>
    /\ Escaped(" ") = <<"%", "20">>
    /\ \A c : c \notin {"%", " "} => Escaped(c) = <<c>>
  <1>1. DOMAIN Escapes = {"%", " "} /\ Escapes["%"] = "25" /\ Escapes[" "] = "20"
    BY DEF Escapes
  <1>2. Unescaped("25") = "%" /\ Unescaped("20") = " "
    BY <1>1 DEF Unescaped
  <1>3. QED  BY <1>1, <1>2 DEF Escaped

LEMMA EncodeEmpty == Encode(<<>>) = <<>>
  <1>1. [i \in DOMAIN <<>> |-> Escaped(<<>>[i])] = <<>>
    OBVIOUS
  <1>2. FlattenSeq(<<>>) = <<>>
    BY FlattenDef
  <1>3. QED  BY <1>1, <1>2 DEF Encode

(* A symbol at the end of a text adds what it is escaped with. *)
LEMMA EncodeAppend ==
    ASSUME NEW S, Codes \subseteq S, NEW t \in Seq(S), NEW c \in S
    PROVE  /\ Encode(Append(t, c)) = Encode(t) \o Escaped(c)
           /\ Escaped(c) \in Seq(S)
  <1> DEFINE u == Append(t, c)
             blocks == [i \in DOMAIN t |-> Escaped(t[i])]
             more == [i \in DOMAIN u |-> Escaped(u[i])]
  <1>1. \A d \in S : Escaped(d) \in Seq(S)
    <2> TAKE d \in S
    <2>1. "%" \in S /\ "25" \in S /\ "20" \in S
      BY DEF Codes
    <2>2. <<"%", "25">> \in Seq(S) /\ <<"%", "20">> \in Seq(S) /\ <<d>> \in Seq(S)
      BY <2>1
    <2>3. Escaped(d) \in {<<"%", "25">>, <<"%", "20">>, <<d>>}
      BY EscapesOf, Zenon
    <2>4. QED  BY <2>2, <2>3
  <1>2. /\ Len(t) \in Nat
        /\ DOMAIN t = 1..Len(t)
        /\ u \in Seq(S)
        /\ DOMAIN u = 1..(Len(t) + 1)
        /\ \A i \in 1..Len(t) : u[i] = t[i]
        /\ u[Len(t) + 1] = c
    BY AppendProperties, LenProperties
  <1>3. blocks \in Seq(Seq(S)) /\ Len(blocks) = Len(t)
    <2>1. \A i \in 1..Len(t) : t[i] \in S
      BY ElementOfSeq
    <2>2. \A i \in 1..Len(t) : Escaped(t[i]) \in Seq(S)
      BY <2>1, <1>1
    <2>3. blocks = [i \in 1..Len(t) |-> Escaped(t[i])]
      BY <1>2
    <2>4. QED  BY <2>2, <2>3, <1>2
  <1>4. more = Append(blocks, Escaped(c))
    <2>1. /\ Append(blocks, Escaped(c)) \in Seq(Seq(S))
          /\ Len(Append(blocks, Escaped(c))) = Len(t) + 1
          /\ \A i \in 1..Len(t) : Append(blocks, Escaped(c))[i] = blocks[i]
          /\ Append(blocks, Escaped(c))[Len(t) + 1] = Escaped(c)
      <3> DEFINE x == Escaped(c)
      <3>1. x \in Seq(S)
        BY <1>1
      <3> HIDE DEF blocks, x
      <3>2. /\ Append(blocks, x) \in Seq(Seq(S))
            /\ Len(Append(blocks, x)) = Len(blocks) + 1
            /\ \A i \in 1..Len(blocks) : Append(blocks, x)[i] = blocks[i]
            /\ Append(blocks, x)[Len(blocks) + 1] = x
        BY <3>1, <1>3, AppendProperties
      <3>3. QED  BY <3>2, <1>3 DEF x
    <2>2. \A i \in 1..(Len(t) + 1) : u[i] \in S
      BY <1>2, ElementOfSeq, LenProperties
    <2>3. \A i \in 1..(Len(t) + 1) : Escaped(u[i]) \in Seq(S)
      BY <2>2, <1>1
    <2>4. more \in Seq(Seq(S)) /\ Len(more) = Len(t) + 1
      <3>1. more = [i \in 1..(Len(t) + 1) |-> Escaped(u[i])]
        BY <1>2
      <3>2. QED  BY <3>1, <2>3, <1>2
    <2>5. \A i \in 1..(Len(t) + 1) : more[i] = Append(blocks, Escaped(c))[i]
      <3> SUFFICES ASSUME NEW i \in 1..(Len(t) + 1)
                   PROVE  more[i] = Append(blocks, Escaped(c))[i]
        OBVIOUS
      <3>1. more[i] = Escaped(u[i])
        BY <1>2
      <3>2. CASE i = Len(t) + 1
        BY <3>1, <3>2, <1>2, <2>1
      <3>3. CASE i # Len(t) + 1
        <4>1. i \in 1..Len(t)
          BY <3>3, <1>2
        <4>2. blocks[i] = Escaped(t[i])
          BY <4>1, <1>2
        <4>3. u[i] = t[i]
          BY <4>1, <1>2
        <4> HIDE DEF blocks, more, u
        <4>4. QED  BY <4>1, <4>2, <4>3, <3>1, <2>1
      <3>4. QED  BY <3>2, <3>3
    <2> HIDE DEF more, blocks
    <2>6. QED  BY <2>1, <2>4, <2>5, SeqEqual
  <1>5. FlattenSeq(more) = FlattenSeq(blocks) \o Escaped(c)
    <2> HIDE DEF blocks, more
    <2>1. QED  BY <1>1, <1>3, <1>4, FlattenAppend
  <1>6. QED  BY <1>1, <1>5 DEF Encode

LEMMA EncodeText ==
    ASSUME NEW S, Codes \subseteq S
    PROVE  \A t \in Seq(S) : Encode(t) \in Seq(S)
  <1> DEFINE T == {t \in Seq(S) : Encode(t) \in Seq(S)}
  <1>1. <<>> \in T
    BY EncodeEmpty, EmptySeq
  <1>2. ASSUME NEW t \in Seq(S), NEW c \in S, t \in T PROVE Append(t, c) \in T
    <2>1. Encode(Append(t, c)) = Encode(t) \o Escaped(c) /\ Escaped(c) \in Seq(S)
      BY EncodeAppend
    <2>2. Encode(t) \o Escaped(c) \in Seq(S)
      BY <2>1, <1>2, ConcatProperties
    <2>3. QED  BY <2>1, <2>2, AppendProperties
  <1>3. Seq(S) \subseteq T
    <2> HIDE DEF T
    <2>1. QED  BY <1>1, <1>2, GrowingTexts
  <1>4. QED  BY <1>3

-----------------------------------------------------------------------------
(* Replacing two symbols at each mark. *)

IsRewriting(text, marks, by, f) ==
    f = [i \in 1..(Len(text) + 1) |->
           CASE i > Len(text) -> <<>>
             [] i <= Len(text) /\ i \in marks -> by[i] \o f[i + 2]
             [] OTHER -> <<text[i]>> \o f[i + 1]]

(* The same, place by place. *)
Stepwise(t, m, b, f) ==
    /\ f[Len(t) + 1] = <<>>
    /\ \A i \in 1..Len(t) :
         f[i] = IF i \in m THEN b[i] \o f[i + 2] ELSE <<t[i]>> \o f[i + 1]
    /\ f = [i \in 1..(Len(t) + 1) |-> f[i]]

(* Behind every mark there is a symbol. *)
Marks(text, marks) == \A i \in marks : i < Len(text)

(* The text u is t without its first symbol, and marked alike. *)
Behind(t, m, b, u, n, d) ==
    /\ Len(u) \in Nat /\ Len(t) = Len(u) + 1
    /\ \A i \in 1..Len(u) : t[i + 1] = u[i]
    /\ \A i \in 1..Len(u) : i + 1 \in m <=> i \in n
    /\ \A i \in 1..Len(u) : i \in n => b[i + 1] = d[i]

LEMMA RewrittenDef ==
    ASSUME NEW t, NEW m, NEW b
    PROVE  Rewritten(t, m, b) = (CHOOSE f : IsRewriting(t, m, b, f))[1]
  BY DEF Rewritten, IsRewriting

LEMMA RewritingAt ==
    ASSUME NEW t, NEW m, NEW b, Len(t) \in Nat, NEW f, IsRewriting(t, m, b, f)
    PROVE  Stepwise(t, m, b, f)
  <1> DEFINE e(i) == CASE i > Len(t) -> <<>>
                       [] i <= Len(t) /\ i \in m -> b[i] \o f[i + 2]
                       [] OTHER -> <<t[i]>> \o f[i + 1]
  <1>1. f = [i \in 1..(Len(t) + 1) |-> e(i)]
    BY DEF IsRewriting
  <1>2. e(Len(t) + 1) = <<>>
    OBVIOUS
  <1>3. ASSUME NEW i \in 1..Len(t)
        PROVE  e(i) = IF i \in m THEN b[i] \o f[i + 2] ELSE <<t[i]>> \o f[i + 1]
    <2>1. ~(i > Len(t)) /\ i <= Len(t)
      OBVIOUS
    <2>2. QED  BY <2>1
  <1> HIDE DEF e
  <1>4. \A i \in 1..(Len(t) + 1) : f[i] = e(i)
    BY <1>1
  <1>5. Len(t) + 1 \in 1..(Len(t) + 1) /\ \A i \in 1..Len(t) : i \in 1..(Len(t) + 1)
    OBVIOUS
  <1>6. f = [i \in 1..(Len(t) + 1) |-> f[i]]
    BY <1>1
  <1>7. QED  BY <1>2, <1>3, <1>4, <1>5, <1>6 DEF Stepwise

LEMMA RewritingFrom ==
    ASSUME NEW t, NEW m, NEW b, Len(t) \in Nat, NEW f, Stepwise(t, m, b, f)
    PROVE  IsRewriting(t, m, b, f)
  <1> DEFINE g == [i \in 1..(Len(t) + 1) |->
           CASE i > Len(t) -> <<>>
             [] i <= Len(t) /\ i \in m -> b[i] \o f[i + 2]
             [] OTHER -> <<t[i]>> \o f[i + 1]]
  <1>1. \A i \in 1..(Len(t) + 1) : f[i] = g[i]
    <2> SUFFICES ASSUME NEW i \in 1..(Len(t) + 1) PROVE f[i] = g[i]
      OBVIOUS
    <2>1. CASE i = Len(t) + 1
      BY <2>1 DEF Stepwise
    <2>2. CASE i # Len(t) + 1
      <3>1. i \in 1..Len(t) /\ ~(i > Len(t)) /\ i <= Len(t)
        BY <2>2
      <3>2. QED  BY <3>1 DEF Stepwise
    <2>3. QED  BY <2>1, <2>2
  <1>2. f = g
    <2>1. g = [i \in 1..(Len(t) + 1) |-> g[i]]
      OBVIOUS
    <2> HIDE DEF g
    <2>2. f = [i \in 1..(Len(t) + 1) |-> f[i]]
      BY DEF Stepwise
    <2>3. QED  BY <1>1, <2>1, <2>2, Zenon
  <1>3. QED  BY <1>2 DEF IsRewriting

LEMMA RewritingUnique ==
    ASSUME NEW t, NEW m, NEW b, Len(t) \in Nat, Marks(t, m),
           NEW f, NEW g, IsRewriting(t, m, b, f), IsRewriting(t, m, b, g)
    PROVE  f = g
  <1> DEFINE n == Len(t) + 1
             T == {k \in 0..Len(t) : f[n - k] # g[n - k]}
  <1>0. Stepwise(t, m, b, f) /\ Stepwise(t, m, b, g)
    <2> HIDE DEF T, n
    <2>1. QED  BY RewritingAt
  <1>f. \A i \in 1..Len(t) :
          f[i] = IF i \in m THEN b[i] \o f[i + 2] ELSE <<t[i]>> \o f[i + 1]
    BY <1>0 DEF Stepwise
  <1>g. \A i \in 1..Len(t) :
          g[i] = IF i \in m THEN b[i] \o g[i + 2] ELSE <<t[i]>> \o g[i + 1]
    BY <1>0 DEF Stepwise
  <1>1. /\ f = [i \in 1..n |-> f[i]] /\ g = [i \in 1..n |-> g[i]]
        /\ f[n] = <<>> /\ g[n] = <<>>
    BY <1>0 DEF Stepwise
  <1>2. SUFFICES T = {}
    <2>1. \A i \in 1..n : f[i] = g[i]
      <3> SUFFICES ASSUME NEW i \in 1..n PROVE f[i] = g[i]
        OBVIOUS
      <3>1. n - i \in 0..Len(t) /\ n - (n - i) = i
        OBVIOUS
      <3>2. QED  BY <1>2, <3>1
    <2> HIDE DEF n
    <2>2. QED  BY <2>1, <1>1, Zenon
  <1>3. SUFFICES ASSUME T # {} PROVE FALSE
    OBVIOUS
  <1>4. PICK k \in T : \A j \in T : k <= j
    <2>1. T \in SUBSET Nat
      OBVIOUS
    <2> HIDE DEF T
    <2>2. QED  BY <2>1, <1>3, LeastNumber
  <1> DEFINE i == n - k
  <1>5. k # 0
    BY <1>1, <1>4
  <1>6. i \in 1..Len(t) /\ f[i] # g[i]
    BY <1>4, <1>5
  <1>7. f[i + 1] = g[i + 1]
    <2>1. k - 1 \in 0..Len(t) /\ k - 1 \notin T /\ n - (k - 1) = i + 1
      BY <1>4, <1>5
    <2>2. QED  BY <2>1
  <1>8. ASSUME i \in m PROVE f[i + 2] = g[i + 2]
    <2>1. i < Len(t)
      BY <1>8 DEF Marks
    <2>2. k \in 0..Len(t) /\ n - k < Len(t)
      BY <1>4, <2>1
    <2>3. k - 2 \in 0..Len(t) /\ n - (k - 2) = i + 2
      BY <2>2
    <2>4. k - 2 \notin T
      <3>1. k \in Nat /\ ~(k <= k - 2)
        BY <2>2
      <3> HIDE DEF T
      <3>2. QED  BY <1>4, <3>1
    <2>5. QED  BY <2>3, <2>4
  <1>9. f[i] = g[i]
    <2> HIDE DEF i
    <2>1. QED  BY <1>f, <1>g, <1>6, <1>7, <1>8
  <1>10. QED  BY <1>6, <1>9

(* One symbol more in front. *)
Longer(t, m, b, g) ==
    [i \in 1..(Len(t) + 1) |->
       IF i > 1 THEN g[i - 1] ELSE IF 1 \in m THEN b[1] \o g[2] ELSE <<t[1]>> \o g[1]]

LEMMA RewritingLonger ==
    ASSUME NEW t, NEW m, NEW b, NEW u, NEW n, NEW d, Behind(t, m, b, u, n, d),
           Marks(t, m), Marks(u, n), NEW g, IsRewriting(u, n, d, g)
    PROVE  IsRewriting(t, m, b, Longer(t, m, b, g))
  <1> DEFINE f == Longer(t, m, b, g)
  <1>1. /\ Len(u) \in Nat /\ Len(t) = Len(u) + 1
        /\ \A i \in 1..Len(u) : t[i + 1] = u[i]
        /\ \A i \in 1..Len(u) : i + 1 \in m <=> i \in n
        /\ \A i \in 1..Len(u) : i \in n => b[i + 1] = d[i]
    BY DEF Behind
  <1>2. /\ g[Len(u) + 1] = <<>>
        /\ \A i \in 1..Len(u) :
             g[i] = IF i \in n THEN d[i] \o g[i + 2] ELSE <<u[i]>> \o g[i + 1]
    <2>1. Stepwise(u, n, d, g)
      <3> HIDE DEF f
      <3>1. QED  BY <1>1, RewritingAt
    <2>2. QED  BY <2>1 DEF Stepwise
  <1>3. f[1] = IF 1 \in m THEN b[1] \o g[2] ELSE <<t[1]>> \o g[1]
    BY <1>1 DEF Longer
  <1>4. \A j \in 1..(Len(u) + 1) : f[j + 1] = g[j]
    BY <1>1 DEF Longer
  <1>5. f = [i \in 1..(Len(t) + 1) |-> f[i]]
    BY DEF Longer
  <1> HIDE DEF f
  <1>6. f[Len(t) + 1] = <<>>
    BY <1>1, <1>2, <1>4
  <1>7. ASSUME NEW i \in 1..Len(t)
        PROVE  f[i] = IF i \in m THEN b[i] \o f[i + 2] ELSE <<t[i]>> \o f[i + 1]
    <2>1. CASE i = 1
      <3>1. 1 \in m => f[1 + 2] = g[2]
        <4>1. 1 \in m => 2 \in 1..(Len(u) + 1)
          BY <1>1 DEF Marks
        <4>2. QED  BY <4>1, <1>4
      <3>2. f[1 + 1] = g[1]
        BY <1>1, <1>4
      <3>3. QED  BY <2>1, <3>1, <3>2, <1>3
    <2>2. CASE i # 1
      <3>1. PICK j \in 1..Len(u) : i = j + 1
        <4>1. i - 1 \in 1..Len(u) /\ i = (i - 1) + 1
          BY <1>1, <2>2
        <4>2. QED  BY <4>1
      <3>2. /\ f[j + 1] = g[j]
            /\ f[(j + 1) + 1] = g[j + 1]
            /\ t[j + 1] = u[j]
        BY <1>1, <1>4
      <3>3. j \in n => f[(j + 1) + 2] = g[j + 2] /\ b[j + 1] = d[j]
        <4>1. j \in n => j + 2 \in 1..(Len(u) + 1)
          BY <1>1 DEF Marks
        <4>2. j \in n => f[(j + 2) + 1] = g[j + 2] /\ (j + 2) + 1 = (j + 1) + 2
          BY <4>1, <1>4
        <4>3. QED  BY <4>2, <1>1
      <3>4. QED  BY <3>1, <3>2, <3>3, <1>1, <1>2
    <2>3. QED  BY <2>1, <2>2
  <1>8. IsRewriting(t, m, b, f)
    <2>1. Len(t) \in Nat
      BY <1>1
    <2>2. \A i \in 1..Len(t) :
            f[i] = IF i \in m THEN b[i] \o f[i + 2] ELSE <<t[i]>> \o f[i + 1]
      BY <1>7
    <2>3. Stepwise(t, m, b, f)
      BY <2>2, <1>5, <1>6 DEF Stepwise
    <2>4. QED  BY <2>1, <2>3, RewritingFrom
  <1>9. QED  BY <1>8 DEF f

LEMMA RewritingExists ==
    ASSUME NEW S
    PROVE  \A t \in Seq(S) : \A m, b : Marks(t, m) => \E f : IsRewriting(t, m, b, f)
  <1> DEFINE T == {t \in Seq(S) : \A m, b : Marks(t, m) => \E f : IsRewriting(t, m, b, f)}
  <1>1. <<>> \in T
    <2> DEFINE t == <<>>
               f == [i \in 1..(Len(t) + 1) |-> <<>>]
    <2>1. t \in Seq(S) /\ Len(t) = 0
      BY EmptySeq
    <2> HIDE DEF t
    <2>2. f[Len(t) + 1] = <<>> /\ f = [i \in 1..(Len(t) + 1) |-> f[i]]
      BY <2>1
    <2> HIDE DEF f
    <2>3. ASSUME NEW m, NEW b PROVE IsRewriting(t, m, b, f)
      <3>1. Len(t) \in Nat /\ 1..Len(t) = {}
        BY <2>1
      <3>2. Stepwise(t, m, b, f)
        BY <2>2, <3>1 DEF Stepwise
      <3> HIDE DEF T
      <3>3. QED  BY <3>1, <3>2, RewritingFrom
    <2>4. QED  BY <2>1, <2>3 DEF t
  <1>2. ASSUME NEW u \in Seq(S), NEW c \in S, u \in T PROVE <<c>> \o u \in T
    <2> DEFINE t == <<c>> \o u
    <2>1. /\ t \in Seq(S) /\ Len(t) = Len(u) + 1 /\ Len(u) \in Nat
          /\ \A i \in 1..Len(u) : t[i + 1] = u[i]
      BY Prefixed
    <2> HIDE DEF t
    <2>2. ASSUME NEW m, NEW b, Marks(t, m) PROVE \E f : IsRewriting(t, m, b, f)
      <3> DEFINE n == {i \in 1..Len(u) : i + 1 \in m}
                 d == [i \in 1..Len(u) |-> b[i + 1]]
      <3>1. Behind(t, m, b, u, n, d)
        BY <2>1 DEF Behind
      <3>2. Marks(u, n)
        BY <2>1, <2>2 DEF Marks
      <3> HIDE DEF n, d
      <3>3. PICK g : IsRewriting(u, n, d, g)
        BY <1>2, <3>2
      <3> HIDE DEF T
      <3>4. QED  BY <2>2, <3>1, <3>2, <3>3, RewritingLonger
    <2>3. QED  BY <2>1, <2>2 DEF t
  <1>3. Seq(S) \subseteq T
    <2> HIDE DEF T
    <2>1. QED  BY <1>1, <1>2, PrefixedTexts
  <1>4. QED  BY <1>3

LEMMA RewrittenIs ==
    ASSUME NEW t, NEW m, NEW b, Len(t) \in Nat, Marks(t, m), NEW f, IsRewriting(t, m, b, f)
    PROVE  Rewritten(t, m, b) = f[1]
  <1> DEFINE e == CHOOSE h : IsRewriting(t, m, b, h)
  <1>1. IsRewriting(t, m, b, e)
    OBVIOUS
  <1>2. Rewritten(t, m, b) = e[1]
    BY RewrittenDef
  <1> HIDE DEF e
  <1>3. e = f
    BY <1>1, RewritingUnique
  <1>4. QED  BY <1>2, <1>3

LEMMA RewrittenEmpty ==
    ASSUME NEW m, NEW b, Marks(<<>>, m)
    PROVE  Rewritten(<<>>, m, b) = <<>>
  <1> DEFINE t == <<>>
  <1>1. t \in Seq({}) /\ Len(t) = 0 /\ Marks(t, m)
    BY EmptySeq
  <1> HIDE DEF t
  <1>2. PICK f : IsRewriting(t, m, b, f)
    BY <1>1, RewritingExists
  <1>3. f[Len(t) + 1] = <<>>
    <2>1. Len(t) \in Nat
      BY <1>1
    <2>2. Stepwise(t, m, b, f)
      BY <1>2, <2>1, RewritingAt
    <2>3. QED  BY <2>2 DEF Stepwise
  <1>4. Rewritten(t, m, b) = f[1]
    BY <1>1, <1>2, RewrittenIs
  <1>5. QED  BY <1>1, <1>3, <1>4 DEF t

(* A first symbol with a mark goes with the next one, and one without stays. *)
StartsAs(t, m, b, u, n, d, g) ==
    Rewritten(t, m, b) = IF 1 \in m THEN b[1] \o g[2] ELSE <<t[1]>> \o Rewritten(u, n, d)

LEMMA RewrittenFrom ==
    ASSUME NEW S, NEW t \in Seq(S), NEW m, NEW b, NEW u \in Seq(S), NEW n, NEW d,
           Marks(t, m), Marks(u, n), Behind(t, m, b, u, n, d),
           NEW g, IsRewriting(u, n, d, g)
    PROVE  StartsAs(t, m, b, u, n, d, g)
  <1> DEFINE f == Longer(t, m, b, g)
  <1>1. IsRewriting(t, m, b, f)
    BY RewritingLonger
  <1>2. Len(t) \in Nat /\ Len(u) \in Nat
    BY LenProperties
  <1>3. f[1] = IF 1 \in m THEN b[1] \o g[2] ELSE <<t[1]>> \o g[1]
    BY <1>2 DEF Longer
  <1> HIDE DEF f
  <1>4. Rewritten(t, m, b) = f[1]
    BY <1>1, <1>2, RewrittenIs
  <1>5. Rewritten(u, n, d) = g[1]
    BY <1>2, RewrittenIs
  <1>6. QED  BY <1>3, <1>4, <1>5 DEF StartsAs

LEMMA RewrittenFirst ==
    ASSUME NEW S, NEW t \in Seq(S), NEW m, NEW b, NEW u \in Seq(S), NEW n, NEW d,
           Marks(t, m), Marks(u, n), Behind(t, m, b, u, n, d), 1 \notin m
    PROVE  Rewritten(t, m, b) = <<t[1]>> \o Rewritten(u, n, d)
  <1>1. PICK g : IsRewriting(u, n, d, g)
    BY RewritingExists
  <1>2. StartsAs(t, m, b, u, n, d, g)
    BY <1>1, RewrittenFrom
  <1>3. QED  BY <1>2 DEF StartsAs

LEMMA RewrittenMark ==
    ASSUME NEW S, NEW t \in Seq(S), NEW m, NEW b, NEW u \in Seq(S), NEW n, NEW d,
           NEW v \in Seq(S), NEW k, NEW e,
           Marks(t, m), Marks(u, n), Marks(v, k),
           Behind(t, m, b, u, n, d), Behind(u, n, d, v, k, e), 1 \in m
    PROVE  Rewritten(t, m, b) = b[1] \o Rewritten(v, k, e)
  <1>1. PICK h : IsRewriting(v, k, e, h)
    BY RewritingExists
  <1> DEFINE g == Longer(u, n, d, h)
  <1>2. IsRewriting(u, n, d, g)
    BY <1>1, RewritingLonger
  <1>3. g[2] = h[1]
    <2>1. Len(u) + 1 \in Nat /\ Len(u) + 1 >= 2
      BY DEF Behind
    <2>2. QED  BY <2>1 DEF Longer
  <1> HIDE DEF g
  <1>4. Rewritten(v, k, e) = h[1]
    BY <1>1, LenProperties, RewrittenIs
  <1>5. Rewritten(t, m, b) = b[1] \o g[2]
    <2>1. StartsAs(t, m, b, u, n, d, g)
      BY <1>2, RewrittenFrom
    <2>2. QED  BY <2>1 DEF StartsAs
  <1>6. QED  BY <1>3, <1>4, <1>5

(* If what replaces two symbols is a text, the result is. *)
LEMMA RewrittenText ==
    ASSUME NEW S, NEW t \in Seq(S), NEW m, NEW b, Marks(t, m), \A i \in m : b[i] \in Seq(S)
    PROVE  Rewritten(t, m, b) \in Seq(S)
  <1>1. PICK f : IsRewriting(t, m, b, f)
    BY RewritingExists
  <1>2. Len(t) \in Nat
    BY LenProperties
  <1>3. /\ f[Len(t) + 1] = <<>>
        /\ \A i \in 1..Len(t) :
             f[i] = IF i \in m THEN b[i] \o f[i + 2] ELSE <<t[i]>> \o f[i + 1]
    <2>1. Stepwise(t, m, b, f)
      BY <1>1, <1>2, RewritingAt
    <2>2. QED  BY <2>1 DEF Stepwise
  <1> DEFINE n == Len(t) + 1
             T == {k \in 0..Len(t) : f[n - k] \notin Seq(S)}
  <1>4. SUFFICES T = {}
    <2>1. f[1] \in Seq(S)
      BY <1>2, <1>4
    <2>2. QED  BY <1>1, <1>2, <2>1, RewrittenIs
  <1>5. SUFFICES ASSUME T # {} PROVE FALSE
    OBVIOUS
  <1>6. PICK k \in T : \A j \in T : k <= j
    <2>1. T \in SUBSET Nat
      BY <1>2
    <2> HIDE DEF T
    <2>2. QED  BY <2>1, <1>5, LeastNumber
  <1> DEFINE i == n - k
  <1>7. k # 0
    <2>1. f[n - 0] \in Seq(S)
      <3>1. n - 0 = n
        BY <1>2
      <3>2. <<>> \in Seq(S)
        BY EmptySeq
      <3>3. QED  BY <1>3, <3>1, <3>2
    <2>2. QED  BY <2>1, <1>6
  <1>8. i \in 1..Len(t) /\ f[i] \notin Seq(S) /\ k \in 0..Len(t)
    BY <1>2, <1>6, <1>7
  <1>9. f[i + 1] \in Seq(S)
    <2>1. k - 1 \in 0..Len(t) /\ n - (k - 1) = i + 1 /\ ~(k <= k - 1)
      BY <1>2, <1>7, <1>8
    <2>2. k - 1 \notin T
      <3> HIDE DEF T
      <3>1. QED  BY <1>6, <2>1
    <2>3. QED  BY <2>1, <2>2
  <1>10. ASSUME i \in m PROVE f[i + 2] \in Seq(S)
    <2>1. i < Len(t)
      BY <1>10 DEF Marks
    <2>2. k - 2 \in 0..Len(t) /\ n - (k - 2) = i + 2 /\ ~(k <= k - 2)
      BY <1>2, <1>8, <2>1
    <2>3. k - 2 \notin T
      <3> HIDE DEF T
      <3>1. QED  BY <1>6, <2>2
    <2>4. QED  BY <2>2, <2>3
  <1> HIDE DEF i, T
  <1>11. f[i] \in Seq(S)
    <2>1. CASE i \in m
      <3>1. f[i] = b[i] \o f[i + 2] /\ b[i] \in Seq(S)
        BY <2>1, <1>3, <1>8
      <3>2. b[i] \o f[i + 2] \in Seq(S)
        <4> DEFINE x == b[i]  y == f[i + 2]
        <4>1. x \in Seq(S) /\ y \in Seq(S)
          BY <2>1, <3>1, <1>10
        <4> HIDE DEF x, y
        <4>2. x \o y \in Seq(S)
          BY <4>1, ConcatProperties
        <4>3. QED  BY <4>2 DEF x, y
      <3>3. QED  BY <3>1, <3>2
    <2>2. CASE i \notin m
      <3>1. f[i] = <<t[i]>> \o f[i + 1] /\ t[i] \in S
        BY <2>2, <1>3, <1>8, ElementOfSeq
      <3>2. <<t[i]>> \o f[i + 1] \in Seq(S)
        <4> DEFINE x == t[i]  y == f[i + 1]
        <4>1. x \in S /\ y \in Seq(S)
          BY <3>1, <1>9
        <4> HIDE DEF x, y
        <4>2. <<x>> \o y \in Seq(S)
          BY <4>1, Prefixed
        <4>3. QED  BY <4>2 DEF x, y
      <3>3. QED  BY <3>1, <3>2
    <2>3. QED  BY <2>1, <2>2
  <1>12. QED  BY <1>8, <1>11

-----------------------------------------------------------------------------
(* Decoding. *)

UnescapedIn(t) == [i \in EscapesIn(t) |-> <<Unescaped(t[i + 1])>>]

LEMMA DecodeDef ==
    ASSUME NEW t
    PROVE  Decode(t) = Rewritten(t, EscapesIn(t), UnescapedIn(t))
  BY DEF Decode, UnescapedIn

LEMMA EscapesMark ==
    ASSUME NEW t
    PROVE  Marks(t, EscapesIn(t))
  BY DEF Marks, EscapesIn, EscapeAt

LEMMA EscapesBehind ==
    ASSUME NEW S, NEW t \in Seq(S), NEW u \in Seq(S), Len(t) = Len(u) + 1,
           \A i \in 1..Len(u) : t[i + 1] = u[i]
    PROVE  Behind(t, EscapesIn(t), UnescapedIn(t), u, EscapesIn(u), UnescapedIn(u))
  <1>1. Len(u) \in Nat /\ DOMAIN u = 1..Len(u) /\ DOMAIN t = 1..Len(t)
    BY LenProperties
  <1>2. ASSUME NEW i \in 1..Len(u) PROVE EscapeAt(t, i + 1) <=> EscapeAt(u, i)
    <2>1. t[i + 1] = u[i] /\ (i + 1 < Len(t) <=> i < Len(u))
      BY <1>1
    <2>2. i < Len(u) => t[(i + 1) + 1] = u[i + 1]
      BY <1>1
    <2>3. QED  BY <2>1, <2>2 DEF EscapeAt
  <1>3. ASSUME NEW i \in 1..Len(u)
        PROVE  /\ i + 1 \in EscapesIn(t) <=> i \in EscapesIn(u)
               /\ i \in EscapesIn(u) => UnescapedIn(t)[i + 1] = UnescapedIn(u)[i]
    <2>1. i + 1 \in EscapesIn(t) <=> i \in EscapesIn(u)
      <3>1. i + 1 \in DOMAIN t /\ i \in DOMAIN u
        BY <1>1
      <3>2. QED  BY <1>2, <3>1 DEF EscapesIn
    <2>2. ASSUME i \in EscapesIn(u) PROVE UnescapedIn(t)[i + 1] = UnescapedIn(u)[i]
      <3>1. i < Len(u)
        BY <2>2 DEF EscapesIn, EscapeAt
      <3>2. t[(i + 1) + 1] = u[i + 1]
        BY <1>1, <3>1
      <3>3. QED  BY <2>1, <2>2, <3>2 DEF UnescapedIn
    <2>3. QED  BY <2>1, <2>2
  <1>4. QED  BY <1>1, <1>3 DEF Behind

LEMMA DecodeEmpty == Decode(<<>>) = <<>>
  BY DecodeDef, EscapesMark, RewrittenEmpty

LEMMA DecodeFirst ==
    ASSUME NEW S, NEW c \in S, NEW u \in Seq(S)
    PROVE  Decode(<<c>> \o u) =
             IF EscapeAt(<<c>> \o u, 1) THEN <<Unescaped(u[1])>> \o Decode(Tail(u))
             ELSE <<c>> \o Decode(u)
  <1> DEFINE t == <<c>> \o u
             w == Tail(u)
  <1>1. /\ t \in Seq(S) /\ Len(t) = Len(u) + 1 /\ Len(u) \in Nat
        /\ \A i \in 1..Len(u) : t[i + 1] = u[i]
        /\ t[1] = c
    BY Prefixed
  <1> HIDE DEF t
  <1>2. Behind(t, EscapesIn(t), UnescapedIn(t), u, EscapesIn(u), UnescapedIn(u))
    BY <1>1, EscapesBehind
  <1>3. 1 \in EscapesIn(t) <=> EscapeAt(t, 1)
    <2>1. 1 \in DOMAIN t
      BY <1>1, LenProperties
    <2>2. QED  BY <2>1 DEF EscapesIn
  <1>4. CASE ~EscapeAt(t, 1)
    <2>1. Rewritten(t, EscapesIn(t), UnescapedIn(t))
            = <<t[1]>> \o Rewritten(u, EscapesIn(u), UnescapedIn(u))
      BY <1>1, <1>2, <1>3, <1>4, EscapesMark, RewrittenFirst
    <2>2. QED  BY <1>1, <1>4, <2>1, DecodeDef DEF t
  <1>5. CASE EscapeAt(t, 1)
    <2>1. 1 \in 1..Len(u) /\ u # <<>>
      <3>1. 1 < Len(t)
        BY <1>5 DEF EscapeAt
      <3>2. 1 \in 1..Len(u)
        BY <1>1, <3>1
      <3>3. QED  BY <3>2, EmptySeq
    <2>2. t[2] = u[1]
      <3>1. t[1 + 1] = u[1]
        BY <1>1, <2>1
      <3>2. QED  BY <3>1
    <2>3. /\ w \in Seq(S) /\ Len(u) = Len(w) + 1
          /\ \A i \in 1..Len(w) : u[i + 1] = w[i]
      BY <2>1, Split
    <2> HIDE DEF w
    <2>4. Behind(u, EscapesIn(u), UnescapedIn(u), w, EscapesIn(w), UnescapedIn(w))
      BY <2>3, EscapesBehind
    <2>5. Rewritten(t, EscapesIn(t), UnescapedIn(t))
            = UnescapedIn(t)[1] \o Rewritten(w, EscapesIn(w), UnescapedIn(w))
      BY <1>1, <1>2, <1>3, <1>5, <2>3, <2>4, EscapesMark, RewrittenMark
    <2>6. UnescapedIn(t)[1] = <<Unescaped(u[1])>>
      BY <1>3, <1>5, <2>2 DEF UnescapedIn
    <2>7. QED  BY <1>5, <2>5, <2>6, DecodeDef DEF t, w
  <1>6. QED  BY <1>4, <1>5 DEF t

LEMMA DecodeText ==
    ASSUME NEW S, Codes \subseteq S
    PROVE  \A t \in Seq(S) : Decode(t) \in Seq(S)
  <1> SUFFICES ASSUME NEW t \in Seq(S) PROVE Decode(t) \in Seq(S)
    OBVIOUS
  <1>1. ASSUME NEW i \in EscapesIn(t) PROVE UnescapedIn(t)[i] \in Seq(S)
    <2>1. t[i + 1] \in {"25", "20"}
      <3>1. \E x \in DOMAIN Escapes : Escapes[x] = t[i + 1]
        BY DEF EscapesIn, EscapeAt
      <3>2. QED  BY <3>1, EscapesOf
    <2> DEFINE x == Unescaped(t[i + 1])
    <2>2. x \in S
      BY <2>1, EscapesOf DEF Codes
    <2> HIDE DEF x
    <2>3. <<x>> \in Seq(S)
      BY <2>2
    <2>4. QED  BY <2>3 DEF UnescapedIn, x
  <1>2. QED  BY <1>1, EscapesMark, DecodeDef, RewrittenText

(* A symbol that is no percent sign is what it is. *)
LEMMA DecodePlain ==
    ASSUME NEW S, Codes \subseteq S
    PROVE  \A p \in Seq(S \ {"%"}) : p \in Seq(S) /\
             \A r \in Seq(S) : Decode(p \o r) = p \o Decode(r)
  <1> DEFINE P == S \ {"%"}
             T == {p \in Seq(P) : p \in Seq(S) /\ \A r \in Seq(S) : Decode(p \o r) = p \o Decode(r)}
  <1>1. <<>> \in T
    <2>1. <<>> \in Seq(P) /\ <<>> \in Seq(S)
      BY EmptySeq
    <2>2. ASSUME NEW r \in Seq(S) PROVE Decode(<<>> \o r) = <<>> \o Decode(r)
      <3>1. Decode(r) \in Seq(S)
        BY DecodeText
      <3>2. QED  BY <3>1, ConcatEmptySeq
    <2>3. QED  BY <2>1, <2>2
  <1>2. ASSUME NEW p \in Seq(P), NEW c \in P, p \in T PROVE Append(p, c) \in T
    <2>1. /\ Append(p, c) \in Seq(P)
          /\ p \in Seq(S)
          /\ c \in S
          /\ \A r \in Seq(S) : Decode(p \o r) = p \o Decode(r)
      BY <1>2, AppendProperties
    <2>2. Append(p, c) \in Seq(S) /\ Append(p, c) = p \o <<c>> /\ <<c>> \in Seq(S)
      <3>1. Append(p, c) \in Seq(S) /\ Append(p, c) = p \o <<c>>
        BY <2>1, AppendProperties, AppendIsConcat
      <3>2. QED  BY <2>1, <3>1
    <2>3. ASSUME NEW r \in Seq(S) PROVE Decode(Append(p, c) \o r) = Append(p, c) \o Decode(r)
      <3>1. Decode(r) \in Seq(S)
        BY DecodeText
      <3>2. /\ (p \o <<c>>) \o r = p \o (<<c>> \o r)
            /\ (p \o <<c>>) \o Decode(r) = p \o (<<c>> \o Decode(r))
        <4> DEFINE x == <<c>>  d == Decode(r)
        <4>1. x \in Seq(S) /\ d \in Seq(S) /\ p \in Seq(S)
          BY <2>1, <2>2, <3>1
        <4> HIDE DEF x, d
        <4>2. (p \o x) \o r = p \o (x \o r)
          BY <4>1, ConcatAssociative
        <4>3. (p \o x) \o d = p \o (x \o d)
          BY <4>1, ConcatAssociative, SMTT(30)
        <4>4. QED  BY <4>2, <4>3 DEF x, d
      <3>3. <<c>> \o r \in Seq(S) /\ (<<c>> \o r)[1] = c
        BY <2>1, Prefixed
      <3>4. ~EscapeAt(<<c>> \o r, 1)
        <4>1. c # "%"
          OBVIOUS
        <4>2. QED  BY <3>3, <4>1, Zenon DEF EscapeAt
      <3>5. Decode(<<c>> \o r) = <<c>> \o Decode(r)
        BY <2>1, <3>4, DecodeFirst
      <3>6. Decode(p \o (<<c>> \o r)) = p \o Decode(<<c>> \o r)
        BY <2>1, <3>3
      <3>7. QED  BY <2>2, <3>2, <3>5, <3>6
    <2>4. QED  BY <2>1, <2>2, <2>3
  <1>3. Seq(P) \subseteq T
    <2> HIDE DEF T, P
    <2>1. QED  BY <1>1, <1>2, GrowingTexts
  <1>4. QED  BY <1>3

LEMMA PairOfSymbols ==
    ASSUME NEW S, NEW a \in S, NEW b \in S
    PROVE  <<a>> \o <<b>> = <<a, b>>
  <1>1. <<a>> \in Seq(S)
    OBVIOUS
  <1>2. Append(<<a>>, b) = <<a>> \o <<b>>
    BY <1>1, AppendIsConcat
  <1>3. Append(<<a>>, b) = <<a, b>>
    <2> DEFINE u == <<a>>  v == Append(u, b)  w == <<a, b>>
    <2>u. u \in Seq(S)
      OBVIOUS
    <2>1. Len(u) = 1 /\ u[1] = a
      OBVIOUS
    <2>2. w \in Seq(S) /\ Len(w) = 2 /\ w[1] = a /\ w[2] = b
      OBVIOUS
    <2> HIDE DEF u, w
    <2>3. /\ v \in Seq(S) /\ Len(v) = Len(u) + 1
          /\ \A i \in 1..Len(u) : v[i] = u[i]
          /\ v[Len(u) + 1] = b
      BY <2>u, AppendProperties
    <2> HIDE DEF v
    <2>4. Len(v) = 2 /\ v[1] = a /\ v[2] = b
      BY <2>1, <2>3
    <2>5. \A i \in 1..2 : v[i] = w[i]
      BY <2>2, <2>4
    <2>6. v = w
      BY <2>2, <2>3, <2>4, <2>5, SeqEqual
    <2>7. QED  BY <2>6 DEF u, v, w
  <1>4. QED  BY <1>2, <1>3

(* What is escaped comes back, whatever follows it. *)
LEMMA DecodeEscaped ==
    ASSUME NEW S, Codes \subseteq S, NEW c \in S, NEW r \in Seq(S)
    PROVE  Decode(Escaped(c) \o r) = <<c>> \o Decode(r)
  <1>1. ASSUME NEW d, NEW x, d \in Codes, x \in Codes, Escaped(d) = <<"%", x>>,
               x \in {"25", "20"}, Unescaped(x) = d, d = c
        PROVE  Decode(Escaped(c) \o r) = <<c>> \o Decode(r)
    <2> DEFINE u == <<x>> \o r
               t == <<"%">> \o u
    <2>1. "%" \in S /\ x \in S
      BY <1>1 DEF Codes
    <2>2. /\ u \in Seq(S) /\ u[1] = x /\ Len(u) = Len(r) + 1 /\ Len(r) \in Nat
      BY <2>1, Prefixed
    <2>u. Tail(u) = r
      BY <2>1, Prefixed, ZenonT(60)
    <2>3. <<"%", x>> \o r = t
      <3> DEFINE s == "%"
      <3>1. <<s>> \in Seq(S) /\ <<x>> \in Seq(S)
        BY <2>1
      <3>2. (<<s>> \o <<x>>) \o r = <<s>> \o (<<x>> \o r)
        BY <3>1, ConcatAssociative
      <3>3. <<s>> \o <<x>> = <<s, x>>
        BY <2>1, PairOfSymbols
      <3>4. QED  BY <3>2, <3>3
    <2> HIDE DEF u
    <2>4. /\ t[1] = "%" /\ Len(t) = Len(u) + 1
          /\ \A i \in 1..Len(u) : t[i + 1] = u[i]
      BY <2>1, <2>2, Prefixed
    <2> HIDE DEF t
    <2>5. t[2] = x
      <3>1. 1 \in 1..Len(u)
        BY <2>2
      <3>2. t[1 + 1] = u[1]
        BY <3>1, <2>4
      <3>3. QED  BY <3>2, <2>2
    <2>6. EscapeAt(t, 1)
      <3>1. 1 < Len(t)
        BY <2>2, <2>4
      <3>2. \E e \in DOMAIN Escapes : Escapes[e] = t[1 + 1]
        <4>1. \E e \in DOMAIN Escapes : Escapes[e] = x
          BY <1>1, EscapesOf
        <4>2. t[1 + 1] = x
          BY <2>5
        <4>3. QED  BY <4>1, <4>2
      <3>3. QED  BY <2>4, <3>1, <3>2 DEF EscapeAt
    <2>7. Decode(t) = <<Unescaped(u[1])>> \o Decode(Tail(u))
      BY <2>1, <2>2, <2>6, DecodeFirst DEF t
    <2>8. QED  BY <1>1, <2>2, <2>u, <2>3, <2>7
  <1>2. CASE c = "%"
    BY <1>1, <1>2, EscapesOf DEF Codes
  <1>3. CASE c = " "
    BY <1>1, <1>3, EscapesOf DEF Codes
  <1>4. CASE c \notin {"%", " "}
    <2>1. Escaped(c) = <<c>>
      BY <1>4, EscapesOf
    <2>2. (<<c>> \o r)[1] = c
      BY Prefixed
    <2>3. ~EscapeAt(<<c>> \o r, 1)
      <3>1. c # "%"
        BY <1>4
      <3>2. QED  BY <2>2, <3>1, Zenon DEF EscapeAt
    <2>4. QED  BY <2>1, <2>3, DecodeFirst
  <1>5. QED  BY <1>2, <1>3, <1>4

LEMMA DecodeEncode ==
    ASSUME NEW S, Codes \subseteq S
    PROVE  \A k \in Seq(S) : \A r \in Seq(S) : Decode(Encode(k) \o r) = k \o Decode(r)
  <1> DEFINE T == {k \in Seq(S) : \A r \in Seq(S) : Decode(Encode(k) \o r) = k \o Decode(r)}
  <1>1. <<>> \in T
    <2>1. ASSUME NEW r \in Seq(S) PROVE Decode(Encode(<<>>) \o r) = <<>> \o Decode(r)
      <3>1. Decode(r) \in Seq(S)
        BY DecodeText
      <3>2. QED  BY <3>1, EncodeEmpty, ConcatEmptySeq
    <2>2. QED  BY <2>1, EmptySeq
  <1>2. ASSUME NEW k \in Seq(S), NEW c \in S, k \in T PROVE Append(k, c) \in T
    <2>1. /\ Append(k, c) \in Seq(S)
          /\ Append(k, c) = k \o <<c>>
          /\ Encode(Append(k, c)) = Encode(k) \o Escaped(c)
          /\ Escaped(c) \in Seq(S)
          /\ Encode(k) \in Seq(S)
      BY AppendProperties, AppendIsConcat, EncodeAppend, EncodeText
    <2>2. <<c>> \in Seq(S)
      OBVIOUS
    <2>3. ASSUME NEW r \in Seq(S)
          PROVE  Decode(Encode(Append(k, c)) \o r) = Append(k, c) \o Decode(r)
      <3>1. Decode(r) \in Seq(S)
        BY DecodeText
      <3>2. Escaped(c) \o r \in Seq(S)
        BY <2>1, ConcatProperties
      <3>3. (Encode(k) \o Escaped(c)) \o r = Encode(k) \o (Escaped(c) \o r)
        BY <2>1, ConcatAssociative, SMTT(30)
      <3>4. Decode(Encode(k) \o (Escaped(c) \o r)) = k \o Decode(Escaped(c) \o r)
        BY <1>2, <3>2
      <3>5. Decode(Escaped(c) \o r) = <<c>> \o Decode(r)
        BY DecodeEscaped
      <3>6. (k \o <<c>>) \o Decode(r) = k \o (<<c>> \o Decode(r))
        BY <2>2, <3>1, ConcatAssociative
      <3>7. QED  BY <2>1, <3>3, <3>4, <3>5, <3>6
    <2>4. QED  BY <2>1, <2>3
  <1>3. Seq(S) \subseteq T
    <2> HIDE DEF T
    <2>1. QED  BY <1>1, <1>2, GrowingTexts
  <1>4. QED  BY <1>3

-----------------------------------------------------------------------------
(* The path of a URI, and the key in it. *)

Ends == {"?", "#"}

LEMMA MinIs ==
    ASSUME NEW T \in SUBSET Nat, NEW m \in T, \A n \in T : m <= n
    PROVE  Min(T) = m
  <1>1. \A x \in T : (\A y \in T : x =< y) => x = m
    <2> TAKE x \in T
    <2>1. m <= x /\ m \in Nat /\ x \in Nat
      OBVIOUS
    <2>2. QED  BY <2>1
  <1> DEFINE n == CHOOSE x \in T : \A y \in T : x =< y
  <1>2. n \in T /\ \A y \in T : n =< y
    OBVIOUS
  <1> HIDE DEF n
  <1>3. n = m
    BY <1>1, <1>2
  <1>4. QED  BY <1>3 DEF Min, n

LEMMA SubTexts ==
    ASSUME NEW S, NEW P, P \subseteq S
    PROVE  \A t \in Seq(P) : t \in Seq(S)
  <1> SUFFICES ASSUME NEW t \in Seq(P) PROVE t \in Seq(S)
    OBVIOUS
  <1>1. Len(t) \in Nat /\ t \in [1..Len(t) -> P]
    BY LenProperties
  <1>2. t \in [1..Len(t) -> S]
    BY <1>1
  <1>3. QED  BY <1>1, <1>2

(* A path without "?" and "#" in front stays in front. *)
LEMMA UriPathBehind ==
    ASSUME NEW S, NEW p \in Seq(S), \A i \in 1..Len(p) : p[i] \notin Ends, NEW r \in Seq(S)
    PROVE  UriPath(p \o r) = p \o UriPath(r) /\ UriPath(r) \in Seq(S)
  <1> DEFINE t == p \o r
             ends(s) == {i \in DOMAIN s : s[i] \in Ends}
  <1>1. /\ Len(p) \in Nat /\ Len(r) \in Nat
        /\ t \in Seq(S) /\ Len(t) = Len(p) + Len(r)
        /\ \A i \in 1..(Len(p) + Len(r)) : t[i] = IF i <= Len(p) THEN p[i] ELSE r[i - Len(p)]
    BY LenProperties, ConcatProperties
  <1>2. DOMAIN r = 1..Len(r) /\ DOMAIN t = 1..Len(t)
    BY <1>1, LenProperties
  <1> HIDE DEF t
  <1>3. \A i \in 1..Len(p) : t[i] = p[i] /\ t[i] \notin Ends
    BY <1>1
  <1>4. \A i \in 1..Len(r) : t[Len(p) + i] = r[i]
    <2> TAKE i \in 1..Len(r)
    <2>1. Len(p) + i \in 1..(Len(p) + Len(r)) /\ ~(Len(p) + i <= Len(p))
          /\ (Len(p) + i) - Len(p) = i
      BY <1>1
    <2>2. QED  BY <1>1, <2>1
  <1>5. \A s : UriPath(s) = IF ends(s) = {} THEN s ELSE SubSeq(s, 1, Min(ends(s)) - 1)
    BY DEF UriPath, Ends
  <1>6. ends(r) \in SUBSET Nat /\ ends(t) \in SUBSET Nat
    BY <1>1, <1>2
  <1>7. CASE ends(r) = {}
    <2>1. \A i \in 1..Len(r) : r[i] \notin Ends
      BY <1>2, <1>7
    <2>2. \A i \in 1..Len(t) : t[i] \notin Ends
      <3> TAKE i \in 1..Len(t)
      <3>1. CASE i <= Len(p)
        BY <1>1, <1>3, <3>1
      <3>2. CASE ~(i <= Len(p))
        <4>1. i - Len(p) \in 1..Len(r) /\ t[i] = r[i - Len(p)]
          BY <1>1, <3>2
        <4>2. QED  BY <2>1, <4>1
      <3>3. QED  BY <3>1, <3>2
    <2>3. ends(t) = {}
      BY <1>2, <2>2
    <2>4. UriPath(r) = r /\ UriPath(t) = t
      BY <1>5, <1>7, <2>3
    <2>5. QED  BY <2>4 DEF t
  <1>8. CASE ends(r) # {}
    <2> DEFINE E == ends(r)  F == ends(t)
    <2>1. PICK m \in E : \A n \in E : m <= n
      <3>1. E \in SUBSET Nat /\ E # {}
        BY <1>6, <1>8
      <3> HIDE DEF E
      <3>2. QED  BY <3>1, LeastNumber
    <2>2. m \in 1..Len(r) /\ r[m] \in Ends
      BY <1>2, <2>1
    <2>3. Min(E) = m
      <3> HIDE DEF E
      <3>1. QED  BY <1>6, <2>1, MinIs DEF E
    <2>4. Len(p) + m \in F
      <3>1. Len(p) + m \in 1..Len(t)
        BY <1>1, <2>2
      <3>2. t[Len(p) + m] \in Ends
        BY <1>4, <2>2
      <3>3. QED  BY <1>2, <3>1, <3>2
    <2>5. \A n \in F : Len(p) + m <= n
      <3> SUFFICES ASSUME NEW n \in F PROVE Len(p) + m <= n
        OBVIOUS
      <3>1. n \in 1..Len(t) /\ t[n] \in Ends
        BY <1>2
      <3>2. ~(n <= Len(p))
        BY <1>1, <1>3, <3>1
      <3>3. n - Len(p) \in 1..Len(r) /\ t[n] = r[n - Len(p)]
        BY <1>1, <3>1, <3>2
      <3>4. n - Len(p) \in E
        BY <1>2, <3>1, <3>3
      <3>5. m <= n - Len(p)
        BY <2>1, <3>4
      <3>6. QED  BY <1>1, <2>2, <3>1, <3>5
    <2>6. Min(F) = Len(p) + m /\ F # {}
      <3>1. F \in SUBSET Nat
        BY <1>6
      <3> HIDE DEF F
      <3>2. QED  BY <2>4, <2>5, <3>1, MinIs
    <2> DEFINE a == SubSeq(r, 1, m - 1)  b == SubSeq(t, 1, Len(p) + m - 1)
    <2>7. UriPath(r) = a /\ UriPath(t) = b
      <3>1. UriPath(r) = SubSeq(r, 1, Min(E) - 1)
        BY <1>5, <1>8
      <3>2. UriPath(t) = SubSeq(t, 1, Min(F) - 1)
        BY <1>5, <2>6
      <3> HIDE DEF E, F, ends
      <3>3. UriPath(r) = a
        BY <2>3, <3>1, Zenon
      <3>4. UriPath(t) = b
        <4>1. (Len(p) + m) - 1 = Len(p) + m - 1
          BY <1>1, <2>2
        <4>2. QED  BY <2>6, <3>2, <4>1, Zenon
      <3>5. QED  BY <3>3, <3>4
    <2> HIDE DEF E, F, ends
    <2>8. /\ a \in Seq(S)
          /\ Len(a) = m - 1
          /\ \A i \in 1..(m - 1) : a[i] = r[i]
      <3>1. \A i \in 1..(m - 1) : r[i] \in S
        BY <1>1, <2>2, ElementOfSeq
      <3>2. 1 \in Int /\ m - 1 \in Int
        BY <2>2
      <3>3. /\ a \in Seq(S)
            /\ Len(a) = IF 1 <= m - 1 THEN (m - 1) - 1 + 1 ELSE 0
            /\ \A i \in 1..((m - 1) - 1 + 1) : a[i] = r[1 + i - 1]
        BY <3>1, <3>2, SubSeqProperties
      <3> HIDE DEF a
      <3>4. Len(a) = m - 1
        BY <2>2, <3>3
      <3>5. \A i \in 1..(m - 1) : i \in 1..((m - 1) - 1 + 1) /\ 1 + i - 1 = i
        BY <2>2
      <3>6. QED  BY <3>3, <3>4, <3>5
    <2>9. /\ b \in Seq(S)
          /\ Len(b) = Len(p) + m - 1
          /\ \A i \in 1..(Len(p) + m - 1) : b[i] = t[i]
      <3> DEFINE n == Len(p) + m - 1
      <3>1. n \in Nat /\ n <= Len(t)
        BY <1>1, <2>2
      <3> HIDE DEF n
      <3>2. \A i \in 1..n : t[i] \in S
        BY <1>1, <3>1, ElementOfSeq
      <3> DEFINE e == SubSeq(t, 1, n)
      <3>3. /\ e \in Seq(S)
            /\ Len(e) = IF 1 <= n THEN n - 1 + 1 ELSE 0
            /\ \A i \in 1..(n - 1 + 1) : e[i] = t[1 + i - 1]
        BY <3>1, <3>2, SubSeqProperties
      <3> HIDE DEF e
      <3>4. Len(e) = n
        BY <3>1, <3>3
      <3>5. \A i \in 1..n : i \in 1..(n - 1 + 1) /\ 1 + i - 1 = i
        BY <3>1
      <3>6. \A i \in 1..n : e[i] = t[i]
        BY <3>3, <3>5
      <3>7. QED  BY <3>3, <3>4, <3>6 DEF e, n
    <2> DEFINE d == p \o a
    <2> HIDE DEF a, b
    <2>10. /\ d \in Seq(S)
           /\ Len(d) = Len(p) + Len(a)
           /\ \A i \in 1..(Len(p) + Len(a)) : d[i] = IF i <= Len(p) THEN p[i] ELSE a[i - Len(p)]
      BY <2>8, ConcatProperties
    <2> HIDE DEF d
    <2>11. Len(b) = Len(d)
      BY <1>1, <2>2, <2>8, <2>9, <2>10
    <2>12. ASSUME NEW i \in 1..Len(b) PROVE b[i] = d[i]
      <3>1. i \in 1..(Len(p) + Len(a)) /\ b[i] = t[i]
        BY <2>9, <2>10, <2>11
      <3>2. CASE i <= Len(p)
        <4>1. i \in 1..Len(p)
          BY <1>1, <3>1, <3>2
        <4>2. t[i] = p[i] /\ d[i] = p[i]
          BY <1>3, <2>10, <3>1, <3>2, <4>1
        <4>3. QED  BY <3>1, <4>2
      <3>3. CASE ~(i <= Len(p))
        <4>1. i - Len(p) \in 1..(m - 1) /\ i \in 1..(Len(p) + Len(r))
          BY <1>1, <2>2, <2>8, <3>1, <3>3
        <4>2. t[i] = r[i - Len(p)]
          BY <1>1, <3>3, <4>1
        <4>3. d[i] = a[i - Len(p)]
          BY <2>10, <3>1, <3>3
        <4>4. a[i - Len(p)] = r[i - Len(p)]
          BY <2>8, <4>1
        <4>5. QED  BY <3>1, <4>2, <4>3, <4>4
      <3>4. QED  BY <3>2, <3>3
    <2>13. b = d
      BY <2>9, <2>10, <2>11, <2>12, SeqEqual
    <2>14. QED  BY <2>7, <2>8, <2>13 DEF t, d
  <1>9. QED  BY <1>7, <1>8

LEMMA UriPathPlain ==
    ASSUME NEW S, NEW t \in Seq(S), \A i \in 1..Len(t) : t[i] \notin Ends
    PROVE  UriPath(t) = t
  <1>1. DOMAIN t = 1..Len(t)
    BY LenProperties
  <1>2. {i \in DOMAIN t : t[i] \in {"?", "#"}} = {}
    BY <1>1 DEF Ends
  <1>3. QED  BY <1>2 DEF UriPath

(* A part of a text, from after place a on. *)
LEMMA SubSeqIs ==
    ASSUME NEW S, NEW t \in Seq(S), NEW v \in Seq(S), NEW a \in Nat,
           a + Len(v) <= Len(t), \A i \in 1..Len(v) : t[a + i] = v[i]
    PROVE  SubSeq(t, a + 1, a + Len(v)) = v
  <1> DEFINE m == a + 1
             n == a + Len(v)
             s == SubSeq(t, m, n)
  <1>1. Len(v) \in Nat /\ Len(t) \in Nat
    BY LenProperties
  <1>2. m \in Int /\ n \in Int /\ n - m + 1 = Len(v) /\ (m <= n <=> Len(v) # 0)
    BY <1>1
  <1>3. \A i \in m..n : t[i] \in S
    <2> TAKE i \in m..n
    <2>1. i \in 1..Len(t)
      BY <1>1
    <2>2. QED  BY <2>1, ElementOfSeq
  <1>4. \A i \in 1..Len(v) : m + i - 1 = a + i
    BY <1>1
  <1> HIDE DEF m, n
  <1>5. /\ s \in Seq(S)
        /\ Len(s) = IF m <= n THEN n - m + 1 ELSE 0
        /\ \A i \in 1..(n - m + 1) : s[i] = t[m + i - 1]
    BY <1>2, <1>3, SubSeqProperties
  <1> HIDE DEF s
  <1>6. Len(s) = Len(v)
    BY <1>1, <1>2, <1>5
  <1>7. \A i \in 1..Len(v) : s[i] = v[i]
    BY <1>2, <1>4, <1>5
  <1>8. s = v
    BY <1>5, <1>6, <1>7, SeqEqual
  <1>9. QED  BY <1>8 DEF s, m, n

LEMMA Parts2 ==
    ASSUME NEW S, NEW p \in Seq(S), NEW k \in Seq(S)
    PROVE  /\ SubSeq(p \o k, 1, Len(p)) = p
           /\ SubSeq(p \o k, Len(p) + 1, Len(p \o k)) = k
           /\ IsPrefix(p, p \o k)
  <1> DEFINE t == p \o k
  <1>1. /\ t \in Seq(S) /\ Len(t) = Len(p) + Len(k)
        /\ Len(p) \in Nat /\ Len(k) \in Nat
        /\ \A i \in 1..(Len(p) + Len(k)) : t[i] = IF i <= Len(p) THEN p[i] ELSE k[i - Len(p)]
    BY LenProperties, ConcatProperties
  <1> HIDE DEF t
  <1>2. \A i \in 1..Len(p) : t[0 + i] = p[i]
    BY <1>1
  <1>3. \A i \in 1..Len(k) : t[Len(p) + i] = k[i]
    <2> TAKE i \in 1..Len(k)
    <2>1. Len(p) + i \in 1..(Len(p) + Len(k)) /\ ~(Len(p) + i <= Len(p))
          /\ (Len(p) + i) - Len(p) = i
      BY <1>1
    <2>2. QED  BY <1>1, <2>1
  <1>4. SubSeq(t, 1, Len(p)) = p
    <2>1. 0 + Len(p) <= Len(t) /\ 0 + 1 = 1 /\ 0 + Len(p) = Len(p)
      BY <1>1
    <2>2. SubSeq(t, 0 + 1, 0 + Len(p)) = p
      BY <1>1, <1>2, <2>1, SubSeqIs
    <2>3. QED  BY <2>1, <2>2
  <1>5. SubSeq(t, Len(p) + 1, Len(t)) = k
    <2>1. SubSeq(t, Len(p) + 1, Len(p) + Len(k)) = k
      BY <1>1, <1>3, SubSeqIs
    <2>2. QED  BY <1>1, <2>1
  <1>6. SubSeq(p, 1, Len(p)) = p
    BY SubSeqFull
  <1>7. IsPrefix(p, t)
    BY <1>1, <1>4, <1>6 DEF IsPrefix
  <1>8. QED  BY <1>4, <1>5, <1>7 DEF t

LEMMA TextOver ==
    ASSUME NEW S, NEW P, NEW t \in Seq(S), \A i \in 1..Len(t) : t[i] \in P
    PROVE  t \in Seq(P)
  <1>1. Len(t) \in Nat /\ t = [i \in 1..Len(t) |-> t[i]]
    BY LenProperties
  <1>2. t \in [1..Len(t) -> P]
    BY <1>1
  <1>3. QED  BY <1>1, <1>2

(* A path of one component, that needs no escapes and ends no URI's path. *)
OneComponent(S, path) ==
    /\ path \in Seq(S)
    /\ Len(path) >= 1
    /\ \A i \in 1..Len(path) : path[i] \notin {"%"} \cup Ends
    /\ \A i \in 2..Len(path) : path[i] # "/"

(* The symbols with a meaning in paths. *)
Alphabet(S) == Codes \subseteq S /\ "/" \in S

LEMMA GetKeyBehind ==
    ASSUME NEW S, Alphabet(S), NEW p, OneComponent(S, p), NEW k \in Seq(S)
    PROVE  GetKey((p \o <<"/">>) \o k) = {k}
  <1> DEFINE q == Append(p, "/")
             t == q \o k
             n == Len(p) + 1
             slashes == {i \in 2..Len(t) : t[i] = "/"}
  <1>1. /\ p \in Seq(S) /\ Len(p) \in Nat /\ Len(p) >= 1
        /\ \A i \in 2..Len(p) : p[i] # "/"
    BY LenProperties DEF OneComponent
  <1>2. /\ q \in Seq(S) /\ Len(q) = n
        /\ q[n] = "/"
        /\ \A i \in 1..Len(p) : q[i] = p[i]
    <2> DEFINE s == "/"
    <2>1. s \in S
      BY DEF Alphabet
    <2> HIDE DEF s
    <2>2. /\ Append(p, s) \in Seq(S) /\ Len(Append(p, s)) = Len(p) + 1
          /\ Append(p, s)[Len(p) + 1] = s
          /\ \A i \in 1..Len(p) : Append(p, s)[i] = p[i]
      BY <1>1, <2>1, AppendProperties
    <2>3. QED  BY <2>2 DEF s
  <1>q. q = p \o <<"/">>
    <2>1. "/" \in S
      BY DEF Alphabet
    <2>2. QED  BY <1>1, <2>1, AppendIsConcat
  <1> HIDE DEF q
  <1>3. /\ t \in Seq(S) /\ Len(t) = Len(q) + Len(k) /\ Len(k) \in Nat
        /\ \A i \in 1..(Len(q) + Len(k)) : t[i] = IF i <= Len(q) THEN q[i] ELSE k[i - Len(q)]
    BY <1>2, LenProperties, ConcatProperties
  <1>4. SubSeq(t, Len(q) + 1, Len(t)) = k
    BY <1>2, Parts2
  <1> HIDE DEF t
  <1>5. n \in slashes
    <2>1. n \in 2..Len(t) /\ t[n] = q[n]
      BY <1>1, <1>2, <1>3
    <2>2. QED  BY <1>2, <2>1
  <1>6. \A i \in slashes : n <= i
    <2> SUFFICES ASSUME NEW i \in slashes PROVE n <= i
      OBVIOUS
    <2>1. i \in 2..Len(t) /\ t[i] = "/"
      OBVIOUS
    <2>2. SUFFICES ASSUME i \in 2..Len(p) PROVE FALSE
      BY <1>1, <2>1
    <2>3. t[i] = q[i] /\ q[i] = p[i]
      BY <1>1, <1>2, <1>3, <2>2
    <2>4. QED  BY <1>1, <2>1, <2>2, <2>3
  <1>7. Min(slashes) = n
    <2>1. slashes \in SUBSET Nat
      BY <1>3
    <2> HIDE DEF slashes, n
    <2>2. QED  BY <1>5, <1>6, <2>1, MinIs
  <1>8. GetKey(t) = {SubSeq(t, Min(slashes) + 1, Len(t))}
    BY <1>5 DEF GetKey
  <1>9. QED  BY <1>2, <1>4, <1>7, <1>8, <1>q DEF t

Plain(t) == \A i \in 1..Len(t) : t[i] \notin {"%"} \cup Ends

(* What the server gets of a path without escapes, "?" and "#" in front. *)
LEMMA PathArrives ==
    ASSUME NEW S, Alphabet(S), NEW q \in Seq(S), Plain(q), NEW r \in Seq(S)
    PROVE  /\ Decode(UriPath(q \o r)) = q \o Decode(UriPath(r))
           /\ Decode(UriPath(r)) \in Seq(S)
  <1>1. (\A i \in 1..Len(q) : q[i] \notin Ends) /\ (\A i \in 1..Len(q) : q[i] # "%")
    BY DEF Plain
  <1>2. UriPath(q \o r) = q \o UriPath(r) /\ UriPath(r) \in Seq(S)
    BY <1>1, UriPathBehind
  <1>3. Codes \subseteq S
    BY DEF Alphabet
  <1>4. q \in Seq(S \ {"%"})
    <2> DEFINE P == S \ {"%"}
    <2>1. \A i \in 1..Len(q) : q[i] \in P
      BY <1>1, ElementOfSeq
    <2> HIDE DEF P
    <2>2. q \in Seq(P)
      BY <2>1, TextOver
    <2>3. QED  BY <2>2 DEF P
  <1> DEFINE u == UriPath(r)
  <1>5. u \in Seq(S)
    BY <1>2
  <1> HIDE DEF u
  <1>6. Decode(q \o u) = q \o Decode(u)
    BY <1>3, <1>4, <1>5, DecodePlain
  <1>7. Decode(u) \in Seq(S)
    BY <1>3, <1>5, DecodeText
  <1>8. QED  BY <1>2, <1>6, <1>7 DEF u

LEMMA SlashAfter ==
    ASSUME NEW S, Alphabet(S), NEW p, OneComponent(S, p)
    PROVE  /\ p \o <<"/">> \in Seq(S)
           /\ Plain(p \o <<"/">>)
           /\ Len(p \o <<"/">>) = Len(p) + 1
           /\ \A i \in 1..Len(p) : (p \o <<"/">>)[i] = p[i]
  <1> DEFINE q == Append(p, "/")
  <1>1. p \in Seq(S) /\ \A i \in 1..Len(p) : p[i] \notin {"%"} \cup Ends
    BY DEF OneComponent
  <1>2. /\ q \in Seq(S) /\ Len(q) = Len(p) + 1 /\ Len(p) \in Nat
        /\ q[Len(p) + 1] = "/"
        /\ \A i \in 1..Len(p) : q[i] = p[i]
    <2> DEFINE s == "/"
    <2>1. s \in S
      BY DEF Alphabet
    <2> HIDE DEF s
    <2>2. /\ Append(p, s) \in Seq(S) /\ Len(Append(p, s)) = Len(p) + 1 /\ Len(p) \in Nat
          /\ Append(p, s)[Len(p) + 1] = s
          /\ \A i \in 1..Len(p) : Append(p, s)[i] = p[i]
      BY <1>1, <2>1, AppendProperties, LenProperties
    <2>3. QED  BY <2>2 DEF s
  <1>3. q = p \o <<"/">>
    <2>1. "/" \in S
      BY DEF Alphabet
    <2>2. QED  BY <1>1, <2>1, AppendIsConcat
  <1> HIDE DEF q
  <1>4. Plain(q)
    <2> SUFFICES ASSUME NEW i \in 1..Len(q) PROVE q[i] \notin {"%"} \cup Ends
      BY DEF Plain
    <2>1. CASE i \in 1..Len(p)
      BY <1>1, <1>2, <2>1
    <2>2. CASE i \notin 1..Len(p)
      <3>1. i = Len(p) + 1
        BY <1>2, <2>2
      <3>2. q[i] = "/"
        BY <1>2, <3>1
      <3>3. QED  BY <3>2 DEF Ends
    <2>3. QED  BY <2>1, <2>2
  <1>5. QED  BY <1>2, <1>3, <1>4

(* A path of one component, a slash, and the key. *)
LEMMA KeyArrives ==
    ASSUME NEW S, Alphabet(S), NEW p, OneComponent(S, p), NEW k \in Seq(S),
           \A i \in 1..Len(k) : k[i] \notin Ends
    PROVE  /\ Decode(UriPath(KeyPath(p, k))) = (p \o <<"/">>) \o k
           /\ (\A i \in 1..Len(k) : k[i] # "%") =>
                Decode(UriPath((p \o <<"/">>) \o k)) = (p \o <<"/">>) \o k
  <1> DEFINE q == p \o <<"/">>
             P == S \ Ends
  <1>1. q \in Seq(S) /\ Plain(q)
    BY SlashAfter
  <1> HIDE DEF q
  <1>2. Codes \subseteq S /\ Codes \subseteq P
    <2>1. Codes \cap Ends = {}
      BY DEF Codes, Ends
    <2>2. QED  BY <2>1 DEF Alphabet
  <1>3. k \in Seq(P)
    <2>1. \A i \in 1..Len(k) : k[i] \in P
      BY ElementOfSeq
    <2> HIDE DEF P
    <2>2. QED  BY <2>1, TextOver
  <1>4. \A t \in Seq(P) : t \in Seq(S) /\ UriPath(t) = t
    <2> TAKE t \in Seq(P)
    <2>1. \A i \in 1..Len(t) : t[i] \notin Ends
      BY ElementOfSeq
    <2>2. P \subseteq S
      OBVIOUS
    <2> HIDE DEF P
    <2>3. t \in Seq(S)
      BY <2>2, SubTexts
    <2>4. UriPath(t) = t
      BY <2>1, <2>3, UriPathPlain
    <2>5. QED  BY <2>3, <2>4
  <1> HIDE DEF P
  <1>5. Decode(Encode(k)) = k
    <2> DEFINE e == Encode(k)  n == <<>>
    <2>1. e \in Seq(S)
      BY <1>2, EncodeText
    <2>2. n \in Seq(S)
      BY EmptySeq
    <2>3. Decode(n) = n
      BY DecodeEmpty
    <2>4. e \o n = e /\ k \o n = k
      BY <2>1, ConcatEmptySeq
    <2> HIDE DEF n
    <2>5. Decode(e \o n) = k \o Decode(n)
      BY <1>2, <2>2, DecodeEncode
    <2>6. QED  BY <2>3, <2>4, <2>5
  <1>6. Decode(UriPath(q \o Encode(k))) = q \o k
    <2> DEFINE e == Encode(k)
    <2>1. e \in Seq(P)
      BY <1>2, <1>3, EncodeText
    <2>2. Decode(e) = k
      BY <1>5
    <2> HIDE DEF e
    <2>3. e \in Seq(S) /\ UriPath(e) = e
      BY <1>4, <2>1
    <2>4. Decode(UriPath(q \o e)) = q \o Decode(UriPath(e))
      BY <1>1, <2>3, PathArrives
    <2>5. QED  BY <2>2, <2>3, <2>4 DEF e
  <1>7. ASSUME \A i \in 1..Len(k) : k[i] # "%" PROVE Decode(UriPath(q \o k)) = q \o k
    <2>1. UriPath(k) = k
      BY <1>3, <1>4
    <2>2. Plain(k)
      BY <1>7 DEF Plain
    <2> DEFINE n == <<>>
    <2>3. n \in Seq(S) /\ k \o n = k /\ Decode(n) = n
      BY EmptySeq, ConcatEmptySeq, DecodeEmpty
    <2>4. UriPath(n) = n
      <3>1. Len(n) = 0
        OBVIOUS
      <3> HIDE DEF n
      <3>2. \A i \in 1..Len(n) : n[i] \notin Ends
        BY <3>1
      <3>3. QED  BY <2>3, <3>2, UriPathPlain
    <2> HIDE DEF n
    <2>5. Decode(UriPath(k \o n)) = k \o Decode(UriPath(n))
      BY <2>2, <2>3, PathArrives
    <2>6. Decode(k) = k
      BY <2>1, <2>3, <2>4, <2>5
    <2>7. Decode(UriPath(q \o k)) = q \o Decode(UriPath(k))
      BY <1>1, PathArrives
    <2>8. QED  BY <2>1, <2>6, <2>7
  <1>8. KeyPath(p, k) = q \o Encode(k)
    BY DEF KeyPath, q
  <1>9. QED  BY <1>6, <1>7, <1>8 DEF q

(* Whatever the key, escapes and slashes included, as long as it has no question
   mark and no number sign: epc_publisher_get_key finds it again in the path that
   epc_publisher_get_path made and the server decoded, provided that the contents
   path has one component. *)
THEOREM KeyComesBack ==
    ASSUME NEW S, Alphabet(S), NEW p, OneComponent(S, p), NEW key \in Seq(S),
           \A i \in 1..Len(key) : key[i] \notin Ends
    PROVE  GetKey(Decode(UriPath(KeyPath(p, key)))) = {key}
  <1>1. Decode(UriPath(KeyPath(p, key))) = (p \o <<"/">>) \o key
    BY KeyArrives
  <1>2. GetKey((p \o <<"/">>) \o key) = {key}
    BY GetKeyBehind
  <1>3. QED  BY <1>1, <1>2

-----------------------------------------------------------------------------
(* Service types. *)

LEMMA MaxIs ==
    ASSUME NEW T \in SUBSET Nat, NEW m \in T, \A n \in T : n <= m
    PROVE  Max(T) = m
  <1>1. \A x \in T : (\A y \in T : x >= y) => x = m
    <2> TAKE x \in T
    <2>1. x <= m /\ m \in Nat /\ x \in Nat
      OBVIOUS
    <2>2. QED  BY <2>1
  <1>2. \A y \in T : m >= y
    OBVIOUS
  <1> DEFINE n == CHOOSE x \in T : \A y \in T : x >= y
  <1>3. n \in T /\ \A y \in T : n >= y
    BY <1>2
  <1> HIDE DEF n
  <1>4. n = m
    BY <1>1, <1>3
  <1>5. QED  BY <1>4 DEF Max, n

(* The transport follows the dot before the last one, whatever is before it. *)
LEMMA BaseBehind ==
    ASSUME NEW S, NEW h \in Seq(S), NEW t \in Seq(S),
           Len(h) >= 3, h[Len(h)] = ".",
           Len(t) = 4, t[1] # ".", t[2] # ".", t[3] = ".", t[4] # "."
    PROVE  GetBase(h \o t) = t
  <1> DEFINE s == h \o t
             a == Len(h)
             dots == {i \in 2..Len(s) : s[i] = "."}
  <1>1. /\ a \in Nat /\ a >= 3
        /\ s \in Seq(S) /\ Len(s) = a + 4
        /\ \A i \in 1..(a + 4) : s[i] = IF i <= a THEN h[i] ELSE t[i - a]
    <2>1. /\ s \in Seq(S) /\ Len(s) = Len(h) + Len(t) /\ Len(h) \in Nat
          /\ \A i \in 1..(Len(h) + Len(t)) : s[i] = IF i <= Len(h) THEN h[i] ELSE t[i - Len(h)]
      BY LenProperties, ConcatProperties
    <2> HIDE DEF s
    <2>2. QED  BY <2>1
  <1>2. SubSeq(s, a + 1, Len(s)) = t
    BY Parts2, ZenonT(60)
  <1> HIDE DEF s
  <1>3. s[a] = "."
    BY <1>1
  <1> HIDE DEF a
  <1>4. s[a + 1] # "." /\ s[a + 2] # "." /\ s[a + 3] = "." /\ s[a + 4] # "."
    <2>1. \A j \in 1..4 : s[a + j] = t[j]
      <3> TAKE j \in 1..4
      <3>1. a + j \in 1..(a + 4) /\ ~(a + j <= a) /\ (a + j) - a = j
        BY <1>1
      <3>2. QED  BY <1>1, <3>1
    <2>2. s[a + 1] = t[1] /\ s[a + 2] = t[2] /\ s[a + 3] = t[3] /\ s[a + 4] = t[4]
      BY <2>1
    <2>3. QED  BY <2>2
  <1>5. a \in dots /\ a + 3 \in dots /\ dots \in SUBSET Nat /\ IsFiniteSet(dots)
    <2>1. a \in 2..Len(s) /\ a + 3 \in 2..Len(s)
      BY <1>1
    <2>2. IsFiniteSet(2..Len(s))
      BY <1>1, FS_Interval
    <2>3. IsFiniteSet(dots)
      BY <2>2, FS_Subset
    <2>4. QED  BY <1>1, <1>3, <1>4, <2>1, <2>3
  <1>6. \A i \in dots : i <= a \/ i = a + 3
    <2> SUFFICES ASSUME NEW i \in dots, ~(i <= a) PROVE i = a + 3
      OBVIOUS
    <2>1. i \in 2..(a + 4) /\ s[i] = "."
      BY <1>1
    <2>2. i \in {a + 1, a + 2, a + 3, a + 4}
      BY <1>1, <2>1
    <2>3. QED  BY <1>4, <2>1, <2>2
  <1> HIDE DEF dots
  <1>7. Max(dots) = a + 3
    <2>1. \A i \in dots : i <= a + 3
      BY <1>1, <1>5, <1>6
    <2>2. QED  BY <1>5, <2>1, MaxIs
  <1>8. Max(dots \ {Max(dots)}) = a
    <2> DEFINE T == dots \ {a + 3}
    <2>1. a \in T /\ T \in SUBSET Nat /\ \A i \in T : i <= a
      BY <1>1, <1>5, <1>6
    <2> HIDE DEF T
    <2>2. Max(T) = a
      BY <2>1, MaxIs
    <2>3. QED  BY <1>7, <2>2 DEF T
  <1>9. ~(Cardinality(dots) < 2)
    <2>1. Cardinality(dots) \in Nat
      BY <1>5, FS_CardinalityType
    <2>2. Cardinality(dots) # 0
      BY <1>5, FS_EmptySet
    <2>3. Cardinality(dots) # 1
      <3>1. SUFFICES ASSUME Cardinality(dots) = 1 PROVE FALSE
        OBVIOUS
      <3>2. PICK x : dots = {x}
        BY <1>5, <3>1, FS_Singleton
      <3>3. a = x /\ a + 3 = x
        BY <1>5, <3>2
      <3>4. QED  BY <1>1, <3>3
    <2>4. QED  BY <2>1, <2>2, <2>3
  <1>10. GetBase(s) = SubSeq(s, Max(dots \ {Max(dots)}) + 1, Len(s))
    BY <1>9 DEF GetBase, dots
  <1>11. QED  BY <1>2, <1>8, <1>10 DEF s, a

(* Whatever the application is called: the type that epc_service_type_new makes for
   a protocol is one of which epc_service_type_get_protocol tells this protocol. *)
THEOREM TypeIsRecognized ==
    ASSUME NEW protocol \in Protocols, NEW S, NEW application \in Seq(S)
    PROVE  GetProtocol(ServiceType(protocol, application)) = protocol
  <1> DEFINE A == S \cup {"_", "-", ".", "_sub", "_tcp", protocol}
             name == Normalize(application)
             u == <<"_">>
             m == <<".", "_sub", ".">>
             t == Transport(protocol)
             h == (u \o name) \o m
  <1>1. name \in Seq(A)
    <2>1. Len(application) \in Nat /\ DOMAIN application = 1..Len(application)
      BY LenProperties
    <2>2. \A i \in 1..Len(application) : application[i] \in S
      BY ElementOfSeq
    <2>3. name \in [1..Len(application) -> A]
      BY <2>1, <2>2 DEF Normalize
    <2> HIDE DEF name, A
    <2>4. QED  BY <2>1, <2>3
  <1>2. u \in Seq(A) /\ m \in Seq(A) /\ t \in Seq(A)
    BY DEF Transport
  <1>3. Len(u) = 1 /\ Len(m) = 3 /\ m[3] = "."
    OBVIOUS
  <1>4. /\ Len(t) = 4 /\ t[1] # "." /\ t[2] # "." /\ t[3] = "." /\ t[4] # "."
    BY DEF Transport, Protocols
  <1>5. ServiceType(protocol, application) = h \o t
    BY DEF ServiceType
  <1> HIDE DEF A, name, u, m, t
  <1>6. h \in Seq(A) /\ Len(h) >= 3 /\ h[Len(h)] = "."
    <2> DEFINE v == u \o name
    <2>1. v \in Seq(A) /\ Len(v) \in Nat
      BY <1>1, <1>2, ConcatProperties, LenProperties
    <2> HIDE DEF v
    <2> DEFINE w == v \o m
    <2>2. /\ w \in Seq(A) /\ Len(w) = Len(v) + Len(m)
          /\ \A i \in 1..(Len(v) + Len(m)) : w[i] = IF i <= Len(v) THEN v[i] ELSE m[i - Len(v)]
      BY <1>2, <2>1, ConcatProperties
    <2> HIDE DEF w
    <2>3. Len(w) = Len(v) + 3 /\ Len(w) >= 3
      BY <1>3, <2>1, <2>2
    <2>4. w[Len(v) + 3] = m[3]
      BY <1>3, <2>1, <2>2
    <2>5. QED  BY <1>3, <2>2, <2>3, <2>4 DEF v, w
  <1> HIDE DEF h
  <1>7. GetBase(h \o t) = t
    BY <1>2, <1>4, <1>6, BaseBehind
  <1>8. \A p \in Protocols : Transport(p) = t => p = protocol
    <2> SUFFICES ASSUME NEW p \in Protocols, Transport(p) = t PROVE p = protocol
      OBVIOUS
    <2>1. Transport(p)[2] = p /\ Transport(protocol)[2] = protocol
      BY DEF Transport
    <2>2. QED  BY <2>1 DEF t
  <1>9. GetProtocol(ServiceType(protocol, application)) = protocol
    <2> DEFINE s == ServiceType(protocol, application)
    <2>1. GetBase(s) = t
      BY <1>5, <1>7
    <2> HIDE DEF s
    <2>2. GetBase(s) = Transport(protocol)
          /\ \A p \in Protocols : GetBase(s) = Transport(p) => p = protocol
      BY <1>8, <2>1 DEF t
    <2> DEFINE c == CHOOSE p \in Protocols : GetBase(s) = Transport(p)
    <2>3. c \in Protocols /\ GetBase(s) = Transport(c)
      BY <2>2
    <2>4. GetProtocol(s) = c
      BY <2>2, Zenon DEF GetProtocol
    <2> HIDE DEF c
    <2>5. GetProtocol(s) = protocol
      BY <2>2, <2>3, <2>4
    <2>6. QED  BY <2>5 DEF s
  <1>10. QED  BY <1>9

-----------------------------------------------------------------------------
(* Service names. *)

(* What placeholders stand for consists of symbols. *)
Knows(S, known) == "%" \in S /\ \A c \in DOMAIN known : known[c] \in Seq(S)

SubstitutesIn(t, known) ==
    [i \in PlaceholdersIn(t, known) |-> Substitute(t[i + 1], known)]

Expanded(t, known) == Rewritten(t, PlaceholdersIn(t, known), SubstitutesIn(t, known))

LEMMA ExpandDef ==
    ASSUME NEW t, NEW known
    PROVE  ExpandName(t, known) = Expanded(t, known)
  BY DEF ExpandName, Expanded, SubstitutesIn

LEMMA PlaceholdersMark ==
    ASSUME NEW t, NEW known
    PROVE  Marks(t, PlaceholdersIn(t, known))
  BY DEF Marks, PlaceholdersIn, PlaceholderAt

LEMMA PlaceholdersBehind ==
    ASSUME NEW S, NEW known, NEW t \in Seq(S), NEW u \in Seq(S), Len(t) = Len(u) + 1,
           \A i \in 1..Len(u) : t[i + 1] = u[i]
    PROVE  Behind(t, PlaceholdersIn(t, known), SubstitutesIn(t, known),
                  u, PlaceholdersIn(u, known), SubstitutesIn(u, known))
  <1>1. Len(u) \in Nat /\ DOMAIN u = 1..Len(u) /\ DOMAIN t = 1..Len(t)
    BY LenProperties
  <1>2. ASSUME NEW i \in 1..Len(u)
        PROVE  PlaceholderAt(t, i + 1, known) <=> PlaceholderAt(u, i, known)
    <2>1. t[i + 1] = u[i] /\ (i + 1 < Len(t) <=> i < Len(u))
      BY <1>1
    <2>2. i < Len(u) => t[(i + 1) + 1] = u[i + 1]
      BY <1>1
    <2>3. QED  BY <2>1, <2>2 DEF PlaceholderAt
  <1>3. ASSUME NEW i \in 1..Len(u)
        PROVE  /\ i + 1 \in PlaceholdersIn(t, known) <=> i \in PlaceholdersIn(u, known)
               /\ i \in PlaceholdersIn(u, known) =>
                    SubstitutesIn(t, known)[i + 1] = SubstitutesIn(u, known)[i]
    <2>1. i + 1 \in PlaceholdersIn(t, known) <=> i \in PlaceholdersIn(u, known)
      <3>1. i + 1 \in DOMAIN t /\ i \in DOMAIN u
        BY <1>1
      <3>2. QED  BY <1>2, <3>1 DEF PlaceholdersIn
    <2>2. ASSUME i \in PlaceholdersIn(u, known)
          PROVE  SubstitutesIn(t, known)[i + 1] = SubstitutesIn(u, known)[i]
      <3>1. i < Len(u)
        BY <2>2 DEF PlaceholdersIn, PlaceholderAt
      <3>2. t[(i + 1) + 1] = u[i + 1]
        BY <1>1, <3>1
      <3>3. QED  BY <2>1, <2>2, <3>2 DEF SubstitutesIn
    <2>3. QED  BY <2>1, <2>2
  <1>4. QED  BY <1>1, <1>3 DEF Behind

LEMMA ExpandEmpty ==
    ASSUME NEW known
    PROVE  ExpandName(<<>>, known) = <<>>
  BY ExpandDef, PlaceholdersMark, RewrittenEmpty DEF Expanded

LEMMA ExpandFirst ==
    ASSUME NEW S, NEW known, NEW c \in S, NEW u \in Seq(S),
           ~PlaceholderAt(<<c>> \o u, 1, known)
    PROVE  ExpandName(<<c>> \o u, known) = <<c>> \o ExpandName(u, known)
  <1> DEFINE t == <<c>> \o u
  <1>1. /\ t \in Seq(S) /\ Len(t) = Len(u) + 1 /\ Len(u) \in Nat
        /\ \A i \in 1..Len(u) : t[i + 1] = u[i]
        /\ t[1] = c
        /\ ~PlaceholderAt(t, 1, known)
    BY Prefixed
  <1> HIDE DEF t
  <1> DEFINE m == PlaceholdersIn(t, known)  b == SubstitutesIn(t, known)
             n == PlaceholdersIn(u, known)  d == SubstitutesIn(u, known)
  <1>2. Behind(t, m, b, u, n, d)
    BY <1>1, PlaceholdersBehind
  <1>3. 1 \notin m
    BY <1>1 DEF PlaceholdersIn
  <1>4. Marks(t, m) /\ Marks(u, n)
    BY PlaceholdersMark
  <1>5. Rewritten(t, m, b) = <<t[1]>> \o Rewritten(u, n, d)
    <2> HIDE DEF m, b, n, d
    <2>1. QED  BY <1>1, <1>2, <1>3, <1>4, RewrittenFirst
  <1>6. Expanded(t, known) = <<c>> \o Expanded(u, known)
    BY <1>1, <1>5 DEF Expanded
  <1>7. QED  BY <1>6, ExpandDef DEF t

LEMMA ExpandMark ==
    ASSUME NEW S, "%" \in S, NEW known, NEW c \in S, c \in DOMAIN known \cup {"%"},
           NEW r \in Seq(S)
    PROVE  ExpandName(<<"%">> \o (<<c>> \o r), known)
             = Substitute(c, known) \o ExpandName(r, known)
  <1> DEFINE u == <<c>> \o r
             t == <<"%">> \o u
  <1>1. /\ u \in Seq(S) /\ Len(u) = Len(r) + 1 /\ Len(r) \in Nat
        /\ \A i \in 1..Len(r) : u[i + 1] = r[i]
        /\ u[1] = c
    BY Prefixed
  <1> HIDE DEF u
  <1>2. /\ t \in Seq(S) /\ Len(t) = Len(u) + 1
        /\ \A i \in 1..Len(u) : t[i + 1] = u[i]
        /\ t[1] = "%"
    BY <1>1, Prefixed
  <1> HIDE DEF t
  <1> DEFINE m == PlaceholdersIn(t, known)  b == SubstitutesIn(t, known)
             n == PlaceholdersIn(u, known)  d == SubstitutesIn(u, known)
             k == PlaceholdersIn(r, known)  e == SubstitutesIn(r, known)
  <1>3. Behind(t, m, b, u, n, d) /\ Behind(u, n, d, r, k, e)
    BY <1>1, <1>2, PlaceholdersBehind
  <1>4. t[2] = c
    <2>1. t[1 + 1] = u[1]
      BY <1>1, <1>2
    <2>2. QED  BY <1>1, <2>1
  <1>5. 1 \in m
    <2>1. PlaceholderAt(t, 1, known)
      BY <1>1, <1>2, <1>4 DEF PlaceholderAt
    <2>2. 1 \in DOMAIN t
      BY <1>1, <1>2, LenProperties
    <2>3. QED  BY <2>1, <2>2 DEF PlaceholdersIn
  <1>6. b[1] = Substitute(c, known)
    BY <1>4, <1>5 DEF SubstitutesIn
  <1>7. Marks(t, m) /\ Marks(u, n) /\ Marks(r, k)
    BY PlaceholdersMark
  <1>8. Rewritten(t, m, b) = b[1] \o Rewritten(r, k, e)
    <2> HIDE DEF m, b, n, d, k, e
    <2>1. QED  BY <1>1, <1>2, <1>3, <1>5, <1>7, RewrittenMark
  <1>9. Expanded(t, known) = Substitute(c, known) \o Expanded(r, known)
    <2>1. Expanded(t, known) = Rewritten(t, m, b) /\ Expanded(r, known) = Rewritten(r, k, e)
      BY DEF Expanded
    <2> HIDE DEF m, b, n, d, k, e
    <2>2. QED  BY <2>1, <1>6, <1>8
  <1>10. QED  BY <1>9, ExpandDef DEF t, u

LEMMA ExpandText ==
    ASSUME NEW S, NEW known, Knows(S, known), NEW t \in Seq(S)
    PROVE  ExpandName(t, known) \in Seq(S)
  <1>1. ASSUME NEW i \in PlaceholdersIn(t, known)
        PROVE  SubstitutesIn(t, known)[i] \in Seq(S)
    <2> DEFINE c == t[i + 1]
    <2>1. c \in DOMAIN known \cup {"%"}
      BY DEF PlaceholdersIn, PlaceholderAt
    <2>2. SubstitutesIn(t, known)[i] = Substitute(c, known)
      BY DEF SubstitutesIn
    <2> HIDE DEF c
    <2>3. Substitute(c, known) \in Seq(S)
      <3>1. "%" \in S /\ <<"%">> \in Seq(S)
        BY DEF Knows
      <3>2. CASE c = "%"
        BY <3>1, <3>2 DEF Substitute
      <3>3. CASE c # "%"
        BY <2>1, <3>3 DEF Substitute, Knows
      <3>4. QED  BY <3>2, <3>3
    <2>4. QED  BY <2>2, <2>3
  <1> DEFINE m == PlaceholdersIn(t, known)  b == SubstitutesIn(t, known)
  <1>2. Marks(t, m) /\ \A i \in m : b[i] \in Seq(S)
    BY <1>1, PlaceholdersMark
  <1>3. Rewritten(t, m, b) \in Seq(S)
    <2> HIDE DEF m, b
    <2>1. QED  BY <1>2, RewrittenText
  <1>4. QED  BY <1>3, ExpandDef DEF Expanded

(* What has no percent sign stays. *)
LEMMA ExpandPlain ==
    ASSUME NEW S, NEW known, Knows(S, known)
    PROVE  \A p \in Seq(S \ {"%"}) : p \in Seq(S) /\
             \A r \in Seq(S) : ExpandName(p \o r, known) = p \o ExpandName(r, known)
  <1> DEFINE P == S \ {"%"}
             T == {p \in Seq(P) : p \in Seq(S) /\
                     \A r \in Seq(S) : ExpandName(p \o r, known) = p \o ExpandName(r, known)}
  <1>1. <<>> \in T
    <2>1. <<>> \in Seq(P) /\ <<>> \in Seq(S)
      BY EmptySeq
    <2>2. ASSUME NEW r \in Seq(S)
          PROVE  ExpandName(<<>> \o r, known) = <<>> \o ExpandName(r, known)
      <3>1. ExpandName(r, known) \in Seq(S)
        BY ExpandText
      <3>2. QED  BY <3>1, ConcatEmptySeq
    <2>3. QED  BY <2>1, <2>2
  <1>2. ASSUME NEW p \in Seq(P), NEW c \in P, p \in T PROVE <<c>> \o p \in T
    <2>1. /\ <<c>> \o p \in Seq(P)
          /\ p \in Seq(S) /\ c \in S /\ <<c>> \in Seq(S)
          /\ \A r \in Seq(S) : ExpandName(p \o r, known) = p \o ExpandName(r, known)
      <3>1. <<c>> \o p \in Seq(P)
        <4> HIDE DEF P, T
        <4>1. QED  BY Prefixed
      <3>2. QED  BY <1>2, <3>1
    <2>2. <<c>> \o p \in Seq(S)
      BY <2>1, Prefixed
    <2>3. ASSUME NEW r \in Seq(S)
          PROVE  ExpandName((<<c>> \o p) \o r, known) = (<<c>> \o p) \o ExpandName(r, known)
      <3> DEFINE x == <<c>>  d == ExpandName(r, known)  q == p \o r
      <3>1. x \in Seq(S) /\ d \in Seq(S) /\ p \in Seq(S) /\ q \in Seq(S)
        <4>1. d \in Seq(S)
          BY ExpandText
        <4>2. q \in Seq(S)
          BY <2>1, ConcatProperties
        <4>3. QED  BY <2>1, <4>1, <4>2
      <3>2. ExpandName(q, known) = p \o d
        BY <2>1
      <3>3. ~PlaceholderAt(<<c>> \o q, 1, known)
        <4>1. (<<c>> \o q)[1] = c /\ c # "%"
          <5> HIDE DEF q
          <5>1. (<<c>> \o q)[1] = c
            BY <2>1, <3>1, Prefixed
          <5>2. QED  BY <5>1
        <4>2. QED  BY <4>1, Zenon DEF PlaceholderAt
      <3>4. ExpandName(<<c>> \o q, known) = <<c>> \o ExpandName(q, known)
        <4>1. c \in S /\ q \in Seq(S)
          BY <2>1, <3>1
        <4> HIDE DEF q, x, d, P, T
        <4>2. QED  BY <4>1, <3>3, ExpandFirst, Zenon
      <3>5. (x \o p) \o r = x \o (p \o r) /\ (x \o p) \o d = x \o (p \o d)
        <4> HIDE DEF x, d
        <4>1. (x \o p) \o r = x \o (p \o r)
          BY <3>1, ConcatAssociative
        <4>2. (x \o p) \o d = x \o (p \o d)
          BY <3>1, ConcatAssociative, SMTT(30)
        <4>3. QED  BY <4>1, <4>2
      <3>6. QED  BY <3>2, <3>4, <3>5
    <2>4. QED  BY <2>1, <2>2, <2>3
  <1>3. Seq(P) \subseteq T
    <2> HIDE DEF T, P
    <2>1. QED  BY <1>1, <1>2, PrefixedTexts
  <1>4. QED  BY <1>3

(* What epc_publisher_expand_name makes of any service name: text up to the first
   percent sign stays; a known placeholder is replaced, and its substitute is not
   expanded again, even if it holds percent signs; of an unknown one only the percent
   sign is passed over, and what follows it may begin another. *)
THEOREM PlaceholdersExpand ==
    ASSUME NEW S, NEW known, Knows(S, known),
           NEW p \in Seq(S \ {"%"}), NEW c \in S, NEW r \in Seq(S)
    PROVE  /\ ExpandName(p, known) = p
           /\ ExpandName(p \o <<"%">>, known) = p \o <<"%">>
           /\ c \in DOMAIN known \cup {"%"} =>
                ExpandName(p \o (<<"%">> \o (<<c>> \o r)), known)
                  = p \o (Substitute(c, known) \o ExpandName(r, known))
           /\ c \notin DOMAIN known \cup {"%"} =>
                ExpandName(p \o (<<"%">> \o (<<c>> \o r)), known)
                  = p \o (<<"%">> \o ExpandName(<<c>> \o r, known))
  <1> DEFINE e == <<>>
             s == <<"%">>
             u == <<c>> \o r
             t == s \o u
  <1>1. /\ "%" \in S /\ e \in Seq(S) /\ s \in Seq(S) /\ u \in Seq(S) /\ t \in Seq(S)
        /\ Len(s) = 1 /\ s[1] = "%" /\ s \o e = s
        /\ u[1] = c /\ Len(u) \in Nat /\ Len(u) >= 1
        /\ t[1] = "%" /\ t[2] = c
    <2>1. "%" \in S /\ e \in Seq(S) /\ s \in Seq(S) /\ Len(s) = 1 /\ s[1] = "%"
      BY EmptySeq DEF Knows
    <2>2. u \in Seq(S) /\ u[1] = c /\ Len(u) = Len(r) + 1 /\ Len(r) \in Nat
      BY Prefixed
    <2>3. s \o e = s
      <3> HIDE DEF s
      <3>1. QED  BY <2>1, ConcatEmptySeq
    <2> HIDE DEF u
    <2>4. t \in Seq(S) /\ t[1] = "%" /\ \A i \in 1..Len(u) : t[i + 1] = u[i]
      BY <2>1, <2>2, Prefixed
    <2> HIDE DEF t
    <2>5. t[1 + 1] = u[1]
      BY <2>2, <2>4
    <2>6. QED  BY <2>1, <2>2, <2>3, <2>4, <2>5
  <1>2. p \in Seq(S) /\ \A v \in Seq(S) : ExpandName(p \o v, known) = p \o ExpandName(v, known)
    BY ExpandPlain
  <1>3. ExpandName(p, known) = p
    <2>1. p \o e = p
      BY <1>2, ConcatEmptySeq
    <2>2. ExpandName(p \o e, known) = p \o ExpandName(e, known)
      BY <1>1, <1>2
    <2>3. ExpandName(e, known) = e
      BY ExpandEmpty
    <2> HIDE DEF e
    <2>4. QED  BY <2>1, <2>2, <2>3
  <1>4. ExpandName(p \o s, known) = p \o s
    <2>1. ~PlaceholderAt(s, 1, known)
      <3>1. Len(s) = 1
        BY <1>1
      <3> HIDE DEF s
      <3>2. QED  BY <3>1 DEF PlaceholderAt
    <2>2. ExpandName(s \o e, known) = s \o ExpandName(e, known)
      <3>1. ~PlaceholderAt(<<"%">> \o e, 1, known)
        BY <1>1, <2>1
      <3>2. "%" \in S /\ e \in Seq(S)
        BY <1>1
      <3> HIDE DEF e, u, t
      <3>3. QED  BY <3>1, <3>2, ExpandFirst, Zenon
    <2>3. ExpandName(e, known) = e
      BY ExpandEmpty
    <2> HIDE DEF e, s
    <2>4. QED  BY <1>1, <1>2, <2>2, <2>3
  <1>5. ASSUME c \in DOMAIN known \cup {"%"}
        PROVE  ExpandName(p \o t, known) = p \o (Substitute(c, known) \o ExpandName(r, known))
    <2>1. ExpandName(t, known) = Substitute(c, known) \o ExpandName(r, known)
      BY <1>1, <1>5, ExpandMark
    <2> HIDE DEF t
    <2>2. QED  BY <1>1, <1>2, <2>1
  <1>6. ASSUME c \notin DOMAIN known \cup {"%"}
        PROVE  ExpandName(p \o t, known) = p \o (s \o ExpandName(u, known))
    <2>1. ~PlaceholderAt(t, 1, known)
      <3> HIDE DEF t
      <3>1. QED  BY <1>1, <1>6 DEF PlaceholderAt
    <2>2. ExpandName(t, known) = s \o ExpandName(u, known)
      <3> HIDE DEF u
      <3>1. QED  BY <1>1, <2>1, ExpandFirst
    <2> HIDE DEF t
    <2>3. QED  BY <1>1, <1>2, <2>2
  <1>7. QED  BY <1>3, <1>4, <1>5, <1>6

=============================================================================

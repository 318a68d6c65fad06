----------------------------- MODULE MCExchange -----------------------------
(***************************************************************************)
(* Exchange for TLC: keys with slashes and escapes, values smaller and     *)
(* larger than a page, and the functions on names over bounded inputs.     *)
(***************************************************************************)
EXTENDS Exchange

NoHazards == {}
QueryChars == {"query_chars"}

SymbolsDef == {"a", "/", "%", "*", "?", " ", ".", "25", "20",
               "list", "contents", "files", "app", "my"}
KeysDef == {<<"a">>, <<"a", "/", "%">>}
PatternsDef == {<<>>, <<"a", "*">>, <<"*", "%">>}
JokersDef == {<<"a", "?">>}
PartsDef == {"short", "long"}
SizeDef == [p \in PartsDef |-> IF p = "short" THEN 1 ELSE 3]
ValuesDef == {<<>>, <<"short", "long", "short">>}
SettingsDef ==
    {[protocol |-> "https", application |-> <<"app">>, contentsPath |-> <<"/", "contents">>],
     [protocol |-> "http", application |-> <<"my", ".", "app">>, contentsPath |-> <<"/", "files">>]}

-----------------------------------------------------------------------------
(* Functions on names against what they should be, for all short inputs. *)

Letters == {"a", "/", "%", "25", " ", "."}
Texts == UNION {[1..n -> Letters] : n \in 0..4}

ASSUME EveryKeyComesBack ==
    \A key \in Texts : GetKey(Decode(UriPath(KeyPath(<<"/", "contents">>, key)))) = {key}

ASSUME EveryTypeIsRecognized ==
    \A p \in Protocols, application \in Texts : GetProtocol(ServiceType(p, application)) = p

(* A pattern matches a text that can be cut into one piece for each of its symbols. *)
Fits(symbol, piece) == symbol = "*" \/ (Len(piece) = 1 /\ symbol \in {"?", piece[1]})

Cut(pattern, text) ==
    \E cut \in [0..Len(pattern) -> 0..Len(text)] :
      /\ cut[0] = 0 /\ cut[Len(pattern)] = Len(text)
      /\ \A i \in 1..Len(pattern) :
           /\ cut[i - 1] <= cut[i]
           /\ Fits(pattern[i], SubSeq(text, cut[i - 1] + 1, cut[i]))

ASSUME MatchingIsCutting ==
    \A pattern \in UNION {[1..n -> {"a", "/", "*", "?"}] : n \in 0..3},
       text \in UNION {[1..n -> {"a", "/"}] : n \in 0..4} :
      Match(pattern, text) <=> Cut(pattern, text)

(* Pieces of a name, and what each becomes; a substitute is not expanded again. *)
Known == [s \in {"h", "u"} |-> IF s = "h" THEN <<"Host">> ELSE <<"%", "h">>]
Piece == <<<<"%", "h">>, <<"%", "u">>, <<"%", "%">>, <<"%", "x">>, <<"h">>>>
Becomes == <<<<"Host">>, <<"%", "h">>, <<"%">>, <<"%", "x">>, <<"h">>>>

ASSUME EveryPieceIsExpanded ==
    \A n \in 0..4 : \A p \in [1..n -> 1..5] :
      ExpandName(FlattenSeq([i \in 1..n |-> Piece[p[i]]]), Known)
        = FlattenSeq([i \in 1..n |-> Becomes[p[i]]])

=============================================================================

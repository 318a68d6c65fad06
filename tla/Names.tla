------------------------------- MODULE Names -------------------------------
(***************************************************************************)
(* The names libepc exchanges: keys within paths, service types, details,  *)
(* and service names with placeholders.                                    *)
(*                                                                         *)
(* A text is a sequence of symbols.  A symbol is one character, or a run   *)
(* of ordinary characters that no function looks into.                     *)
(***************************************************************************)
EXTENDS Integers, SequencesExt, FiniteSetsExt

(* What libsoup replaces by an escape within a path, and what it leaves. *)
Escapes == [c \in {"%", " "} |-> IF c = "%" THEN "25" ELSE "20"]

Escaped(symbol) ==
    IF symbol \in DOMAIN Escapes THEN <<"%", Escapes[symbol]>> ELSE <<symbol>>

(* soup_uri_encode *)
Encode(text) == FlattenSeq([i \in DOMAIN text |-> Escaped(text[i])])

EscapeAt(text, i) ==
    /\ text[i] = "%"
    /\ i < Len(text)
    /\ \E c \in DOMAIN Escapes : Escapes[c] = text[i + 1]

Unescaped(code) == CHOOSE c \in DOMAIN Escapes : Escapes[c] = code

(* A text in which at each mark, from the left, two symbols are replaced; what
   replaces them, or is within them, is not looked at again. *)
Rewritten(text, marks, by) ==
    LET from[i \in 1..(Len(text) + 1)] ==
            CASE i > Len(text) -> <<>>
              [] i <= Len(text) /\ i \in marks -> by[i] \o from[i + 2]
              [] OTHER -> <<text[i]>> \o from[i + 1]
    IN  from[1]

EscapesIn(text) == {i \in DOMAIN text : EscapeAt(text, i)}

(* What a server makes of escapes. *)
Decode(text) ==
    Rewritten(text, EscapesIn(text), [i \in EscapesIn(text) |-> <<Unescaped(text[i + 1])>>])

(* The path of a URI ends where the query or the fragment begins. *)
UriPath(text) ==
    LET ends == {i \in DOMAIN text : text[i] \in {"?", "#"}}
    IN  IF ends = {} THEN text ELSE SubSeq(text, 1, Min(ends) - 1)

(* epc_publisher_get_path; the consumer builds the same path from the "path"
   detail. *)
KeyPath(contentsPath, key) == contentsPath \o <<"/">> \o Encode(key)

(* epc_publisher_get_key: what follows the second slash, if there is one. *)
GetKey(path) ==
    LET slashes == {i \in 2..Len(path) : path[i] = "/"}
    IN  IF slashes = {} THEN {} ELSE {SubSeq(path, Min(slashes) + 1, Len(path))}

(* g_pattern_match_string: "*" stands for any text, "?" for one symbol. *)
Match(pattern, text) ==
    LET matches[i \in 1..(Len(pattern) + 1), j \in 1..(Len(text) + 1)] ==
            CASE i > Len(pattern) -> j > Len(text)
              [] i <= Len(pattern) /\ pattern[i] = "*" ->
                   matches[i + 1, j] \/ (j <= Len(text) /\ matches[i, j + 1])
              [] OTHER ->
                   /\ j <= Len(text)
                   /\ pattern[i] \in {"?", text[j]}
                   /\ matches[i + 1, j + 1]
    IN  matches[1, 1]

-----------------------------------------------------------------------------
(* Protocols and service types. *)

Protocols == {"https", "http"}

(* epc_protocol_get_service_type *)
Transport(protocol) == <<"_", protocol, ".", "_tcp">>

(* epc_service_type_normalize_name: what is no letter or digit becomes a hyphen. *)
Normalize(name) ==
    [i \in DOMAIN name |->
       IF name[i] \in {".", "_", "-", " ", "%", "/", "?", "#", "*"} THEN "-" ELSE name[i]]

(* epc_service_type_new *)
ServiceType(protocol, application) ==
    <<"_">> \o Normalize(application) \o <<".", "_sub", ".">> \o Transport(protocol)

(* epc_service_type_get_base: what follows the dot before the last one, unless
   the type begins with it. *)
GetBase(type) ==
    LET dots == {i \in 2..Len(type) : type[i] = "."}
    IN  IF Cardinality(dots) < 2
        THEN type
        ELSE SubSeq(type, Max(dots \ {Max(dots)}) + 1, Len(type))

(* epc_service_type_get_protocol *)
GetProtocol(type) ==
    IF \E p \in Protocols : GetBase(type) = Transport(p)
    THEN CHOOSE p \in Protocols : GetBase(type) = Transport(p)
    ELSE "unknown"

(* epc_service_info_get_detail: of the first record of this name, if it has a
   value. *)
GetDetail(details, name) ==
    LET named == {i \in DOMAIN details : details[i].name = name}
    IN  IF named = {} THEN {} ELSE details[Min(named)].value

-----------------------------------------------------------------------------
(* Service names. *)

Substitute(symbol, known) == IF symbol = "%" THEN <<"%">> ELSE known[symbol]

PlaceholderAt(name, i, known) ==
    /\ name[i] = "%"
    /\ i < Len(name)
    /\ name[i + 1] \in DOMAIN known \cup {"%"}

PlaceholdersIn(name, known) == {i \in DOMAIN name : PlaceholderAt(name, i, known)}

(* epc_publisher_expand_name: known says what placeholders stand for, without
   those that cannot be determined.  A percent sign that begins no known placeholder
   is kept, and what follows it is looked at again. *)
ExpandName(name, known) ==
    Rewritten(name, PlaceholdersIn(name, known),
              [i \in PlaceholdersIn(name, known) |-> Substitute(name[i + 1], known)])

=============================================================================

------------------------------ MODULE Exchange ------------------------------
(***************************************************************************)
(* Lookups and listings from the consumer's call to its result: the        *)
(* request epc_consumer_lookup and epc_consumer_list send                  *)
(* (src/libepc/consumer.c), the handlers that answer it                    *)
(* (src/libepc/publisher.c), the values and streams they deliver           *)
(* (src/libepc/contents.c), and the names on the way (module Names).       *)
(*                                                                         *)
(* The publisher changes its resources at any time, also while a stream is *)
(* written; how publisher and consumer find each other, and what else runs *)
(* meanwhile, is in the modules Publisher and Consumer.  A value is a      *)
(* sequence of parts, the pieces a stream delivers it in.                  *)
(***************************************************************************)
EXTENDS Names, FiniteSets

CONSTANTS
    Hazards,    \* what may happen besides ordinary operation
    Clients,    \* consumers, and browsers that read the table of contents
    Symbols,    \* what texts consist of
    Keys,       \* keys of resources, as texts
    Patterns,   \* patterns of listings, as texts; the empty one stands for NULL
    Parts,      \* pieces of values
    Size,       \* their sizes in bytes
    Values,     \* the values that are published, sequences of parts
    Page,       \* bytes of a page of memory
    Settings,   \* how publishers are set up
    MaxEvents   \* bound: calls and changes of resources

(* query_chars: what ends the path of a URI is used in keys and patterns;
   link_escapes: links to keys with a percent sign, which the table of contents
   does not escape; null_value: handlers return NULL, and files cannot be read, while
   their keys stay in the table; read_error: a stream fails before its end. *)
AllHazards == {"query_chars", "link_escapes", "null_value", "read_error"}

ASSUME ExchangeAssumption ==
    /\ Hazards \subseteq AllHazards
    /\ DOMAIN Escapes \cup {"25", "20", "/", "list"} \subseteq Symbols
    /\ Keys \subseteq Seq(Symbols)
    /\ Patterns \subseteq Seq(Symbols)
    /\ Settings \subseteq [protocol : Protocols, application : Seq(Symbols),
                          contentsPath : Seq(Symbols)]
    /\ Size \in [Parts -> Nat \ {0}]
    /\ Values \subseteq Seq(Parts)
    /\ Page \in Nat \ {0}
    /\ MaxEvents \in Nat

VARIABLES
    settings,    \* protocol, application and contents path of the publisher
    resources,   \* the hash table, by key
    disk,        \* what the published file contains, if it can be read
    calls,       \* the calls of the consumers
    messages,    \* the SoupMessage of each call
    budget       \* events left

vars == <<settings, resources, disk, calls, messages, budget>>

(* static: epc_publisher_add; file: epc_publisher_add_file; stream and null:
   an application's handler returns a stream, or NULL. *)
Resources == [kind : {"static", "stream"}, value : Values] \cup [kind : {"file", "null"}]
Absent == [kind |-> "absent"]

Questions == [op : {"lookup", "link"}, text : Keys] \cup [op : {"list"}, text : Patterns]
             \cup [op : {"root"}]

(* left: what the application has yet to deliver; buffer: bytes allocated;
   size: the buffer_size that is recorded. *)
Streams == [left : Seq(Parts), buffer : Nat, size : Nat]
NoStream == [left |-> <<>>, buffer |-> 0, size |-> 0]

NoMessage == [phase |-> "none", scheme |-> "", path |-> <<>>, status |-> "", signal |-> "",
              body |-> <<>>, stream |-> NoStream]

Idle == [phase |-> "idle"]

TypeOK ==
    /\ settings \in Settings
    /\ \A k \in Keys : resources[k] \in Resources \cup {Absent}
    /\ disk \in {{}} \cup {{v} : v \in Values}
    /\ \A c \in Clients :
         /\ calls[c].phase \in {"idle", "resolving", "waiting", "returned", "failed"}
         /\ calls[c].phase # "idle" => calls[c].question \in Questions
         /\ messages[c].phase \in {"none", "request", "writing", "complete", "finished"}
         /\ messages[c].status \in IF messages[c].phase \in {"none", "request"}
                                  THEN {""} ELSE {"ok", "not_found", "error"}
         /\ messages[c].signal \in {"", "wrote-headers", "wrote-chunk"}
         /\ messages[c].stream \in Streams
    /\ budget \in 0..MaxEvents

Init ==
    /\ settings \in Settings
    /\ resources = [k \in Keys |-> Absent]
    /\ disk = {}
    /\ calls = [c \in Clients |-> Idle]
    /\ messages = [c \in Clients |-> NoMessage]
    /\ budget = MaxEvents

Event == budget > 0 /\ budget' = budget - 1

-----------------------------------------------------------------------------
(* The publisher's resources. *)

(* What the handler of a resource returns now. *)
ValueOf(r) ==
    CASE r.kind \in {"static", "stream"} -> {r.value}
      [] r.kind = "file" -> disk
      [] OTHER -> {}

(* epc_publisher_add, epc_publisher_add_file, epc_publisher_add_handler. *)
Add(k) ==
    /\ Event
    /\ \E r \in Resources :
         /\ ValueOf(r) = {} => "null_value" \in Hazards
         /\ resources' = [resources EXCEPT ![k] = r]
    /\ UNCHANGED <<settings, disk, calls, messages>>

(* epc_publisher_remove. *)
RemoveKey(k) ==
    /\ Event
    /\ resources[k] # Absent
    /\ resources' = [resources EXCEPT ![k] = Absent]
    /\ UNCHANGED <<settings, disk, calls, messages>>

(* Somebody writes or removes the file. *)
DiskChanges ==
    /\ Event
    /\ disk' \in {{}} \cup {{v} : v \in Values}
    /\ disk' # disk
    /\ (disk' = {} /\ \E k \in Keys : resources[k].kind = "file") => "null_value" \in Hazards
    /\ UNCHANGED <<settings, resources, calls, messages>>

(* epc_publisher_has_key *)
HasKey(k) == resources[k] # Absent

(* epc_publisher_list: NULL, or an empty pattern, lists all. *)
List(pattern) == {k \in Keys : HasKey(k) /\ (pattern = <<>> \/ Match(pattern, k))}

-----------------------------------------------------------------------------
(* Streams. *)

(* Mutant: only whole pages are counted. *)
PagesBelow(length) == (length \div Page) * Page

(* The page count of epc_contents_stream_read. *)
Pages(length) == ((length + Page - 1) \div Page) * Page

(* The application's callback fills the buffer, ... *)
Fills(s, buffer, length) ==
    /\ s.left # <<>>
    /\ buffer > 0
    /\ Size[Head(s.left)] <= length

(* ... or returns FALSE with the length it needs; at the end it leaves the length
   alone or clears it. *)
Needed(s, length) == IF s.left = <<>> THEN {0, length} ELSE {Size[Head(s.left)]}

Filled(s) == [stream |-> [s EXCEPT !.left = Tail(s.left)], data |-> <<Head(s.left)>>]
Unfilled(s) == [stream |-> s, data |-> <<>>]

(* Mutant: a buffer that is there is not enlarged. *)
GrowOnce(s, needed) ==
    [s EXCEPT !.size = Pages(needed), !.buffer = IF s.buffer = 0 THEN Pages(needed) ELSE @]

Grow(s, needed) == [s EXCEPT !.size = Pages(needed), !.buffer = Pages(needed)]

(* epc_contents_stream_read: what it may return.  The first buffer is NULL; one
   refusal leads to a second call with a buffer of the length asked for. *)
StreamRead(s0) ==
    LET s == IF s0.size = 0 THEN [s0 EXCEPT !.size = Page] ELSE s0
        retry(needed) ==
            LET grown == Grow(s, needed)
            IN  IF Fills(grown, grown.buffer, grown.size) THEN Filled(grown) ELSE Unfilled(grown)
    IN  IF Fills(s, s.buffer, s.size)
        THEN {Filled(s)}
        ELSE {IF needed > 0 THEN retry(needed) ELSE Unfilled(s) : needed \in Needed(s, s.size)}

(* The application's data source breaks: FALSE, twice. *)
StreamFails(s) == IF "read_error" \in Hazards THEN {Unfilled(s)} ELSE {}

-----------------------------------------------------------------------------
(* The consumer's calls. *)

PlainText(text) == \A i \in DOMAIN text : text[i] \notin {"?", "#"}

(* epc_consumer_lookup and epc_consumer_list up to resolving the publisher; a
   browser reads the table of contents, or follows a link it has. *)
Ask(c) ==
    /\ Event
    /\ calls[c].phase \in {"idle", "returned", "failed"}
    /\ \E q \in Questions :
         /\ (q.op # "root" /\ ~PlainText(q.text)) => "query_chars" \in Hazards
         /\ (q.op = "link" /\ "%" \in ToSet(q.text)) => "link_escapes" \in Hazards
         /\ calls' = [calls EXCEPT ![c] = [phase |-> "resolving", question |-> q]]
    /\ messages' = [messages EXCEPT ![c] = NoMessage]
    /\ UNCHANGED <<settings, resources, disk>>

(* SOUP_STATUS_CANT_RESOLVE *)
Unresolved(c) ==
    /\ calls[c].phase = "resolving"
    /\ calls' = [calls EXCEPT ![c].phase = "failed"]
    /\ UNCHANGED <<settings, resources, disk, messages, budget>>

(* What the publisher announces (epc_publisher_announce), and what a consumer
   reads there (epc_consumer_new, epc_consumer_service_found_cb). *)
AnnouncedType == ServiceType(settings.protocol, settings.application)
AnnouncedDetails == <<[name |-> "path", value |-> {settings.contentsPath}]>>

(* Mutant: the usual path is taken for granted. *)
UsualPath == <<"/", "contents">>

(* Publishers of libepc 0.2 announce no path. *)
FoundPath ==
    LET paths == GetDetail(AnnouncedDetails, "path")
    IN  IF paths = {} THEN <<"/", "get">> ELSE CHOOSE path \in paths : TRUE

(* The path of the request; a pattern is not escaped, nor is the key in a link. *)
RequestPath(q) ==
    CASE q.op = "lookup" -> KeyPath(FoundPath, q.text)
      [] q.op = "list" -> <<"/", "list", "/">> \o q.text
      [] q.op = "root" -> <<"/">>
      [] q.op = "link" -> settings.contentsPath \o <<"/">> \o q.text

(* epc_consumer_create_request, soup_session_send_message: the server gets the path
   of the URI without its escapes. *)
Send(c) ==
    /\ calls[c].phase = "resolving"
    /\ calls' = [calls EXCEPT ![c].phase = "waiting"]
    /\ messages' = [messages EXCEPT ![c].phase = "request",
                                    ![c].scheme = GetProtocol(AnnouncedType),
                                    ![c].path = Decode(UriPath(RequestPath(calls[c].question)))]
    /\ UNCHANGED <<settings, resources, disk, budget>>

-----------------------------------------------------------------------------
(* The handlers of the server. *)

(* Which handler gets a request: the one installed for the longest prefix. *)
Handler(path) ==
    CASE IsPrefix(settings.contentsPath, path) -> "contents"
      [] IsPrefix(<<"/", "list">>, path) -> "list"
      [] OTHER -> "root"

Request(c, handler) ==
    /\ messages[c].phase = "request"
    /\ messages[c].scheme = settings.protocol
    /\ Handler(messages[c].path) = handler

Requested(c) == LET keys == GetKey(messages[c].path) IN {k \in keys : k \in Keys /\ HasKey(k)}

(* Mutant: the status is not set. *)
RespondBody(c, status, body) ==
    messages' = [messages EXCEPT ![c].phase = "complete", ![c].body = body]

Respond(c, status, body) ==
    messages' = [messages EXCEPT ![c].phase = "complete", ![c].status = status, ![c].body = body]

(* epc_publisher_handle_contents: a value is copied into the response, a stream is
   read when libsoup asks for it. *)
HandleContents(c) ==
    /\ Request(c, "contents")
    /\ \/ \E k \in Requested(c) :
            /\ resources[k].kind = "stream"
            /\ messages' = [messages EXCEPT
                 ![c].phase = "writing", ![c].status = "ok", ![c].signal = "wrote-headers",
                 ![c].stream = [NoStream EXCEPT !.left = resources[k].value]]
       \/ \E k \in Requested(c) :
            /\ resources[k].kind # "stream"
            /\ \E v \in ValueOf(resources[k]) : Respond(c, "ok", v)
       \/ /\ \A k \in Requested(c) : ValueOf(resources[k]) = {}
          /\ Respond(c, "not_found", <<>>)
    /\ UNCHANGED <<settings, resources, disk, calls, budget>>

(* The list element of a response: its items, each the name of a key, which is
   escaped as text. *)
ListBody(keys) == SetToSeq(keys)

(* The pattern in the path, if it has one. *)
PatternOf(path) ==
    IF IsPrefix(<<"/", "list", "/">>, path) THEN SubSeq(path, 4, Len(path)) ELSE <<>>

(* epc_publisher_handle_list *)
HandleList(c) ==
    /\ Request(c, "list")
    /\ Respond(c, "ok", ListBody(List(PatternOf(messages[c].path))))
    /\ UNCHANGED <<settings, resources, disk, calls, budget>>

(* epc_publisher_handle_root: links to all keys. *)
HandleRoot(c) ==
    /\ Request(c, "root")
    /\ IF messages[c].path = <<"/">>
       THEN Respond(c, "ok", SetToSeq({settings.contentsPath \o <<"/">> \o k : k \in List(<<>>)}))
       ELSE Respond(c, "not_found", <<>>)
    /\ UNCHANGED <<settings, resources, disk, calls, budget>>

(* Mutant: the first chunk is not asked for. *)
ChunksOnly == {"wrote-chunk"}

(* The signals epc_publisher_handle_contents connects epc_publisher_chunk_cb to. *)
Connected == {"wrote-headers", "wrote-chunk"}

(* epc_publisher_chunk_cb: append what could be read, or complete the body. *)
ChunkCb(c) ==
    /\ messages[c].phase = "writing"
    /\ messages[c].signal \in Connected
    /\ \E r \in StreamRead(messages[c].stream) \cup StreamFails(messages[c].stream) :
         messages' = [messages EXCEPT
           ![c].stream = r.stream,
           ![c].body = @ \o r.data,
           ![c].signal = IF r.data = <<>> THEN "" ELSE "wrote-chunk",
           ![c].phase = IF r.data = <<>> THEN "complete" ELSE "writing"]
    /\ UNCHANGED <<settings, resources, disk, calls, budget>>

(* "finished": the contents are released. *)
Finished(c) ==
    /\ messages[c].phase = "complete"
    /\ messages' = [messages EXCEPT ![c].phase = "finished", ![c].stream = NoStream]
    /\ UNCHANGED <<settings, resources, disk, calls, budget>>

(* The connection breaks; "finished" is emitted here, too. *)
Aborted(c) ==
    /\ messages[c].phase \in {"request", "writing", "complete"}
    /\ messages' = [messages EXCEPT ![c].phase = "finished", ![c].status = "error",
                                    ![c].signal = "", ![c].stream = NoStream]
    /\ UNCHANGED <<settings, resources, disk, calls, budget>>

-----------------------------------------------------------------------------
(* What the caller gets. *)

(* The text of the name element of an item, collected piece by piece; without a
   piece there is no name. *)
ItemName(body, i) == IF body[i] = <<>> THEN <<"(null)">> ELSE body[i]

(* The parser of epc_consumer_list. *)
ParseList(body) == {ItemName(body, i) : i \in DOMAIN body}

(* What the caller makes of a response, with rest still to come. *)
Result(c, rest) ==
    IF messages[c].status # "ok" THEN {}
    ELSE CASE calls[c].question.op = "list" -> ParseList(messages[c].body)
           [] calls[c].question.op = "root" -> UNION {GetKey(h) : h \in ToSet(messages[c].body)}
           [] OTHER -> {messages[c].body \o rest}

(* The rest of epc_consumer_lookup and epc_consumer_list. *)
Return(c) ==
    /\ calls[c].phase = "waiting"
    /\ messages[c].phase = "finished"
    /\ calls' = [calls EXCEPT ![c] =
         IF messages[c].status = "error"
         THEN [phase |-> "failed", question |-> calls[c].question]
         ELSE [phase |-> "returned", question |-> calls[c].question, result |-> Result(c, <<>>)]]
    /\ UNCHANGED <<settings, resources, disk, messages, budget>>

Next ==
    \/ \E k \in Keys : Add(k) \/ RemoveKey(k)
    \/ DiskChanges
    \/ \E c \in Clients :
         \/ Ask(c)
         \/ Unresolved(c)
         \/ Send(c)
         \/ HandleContents(c)
         \/ HandleList(c)
         \/ HandleRoot(c)
         \/ ChunkCb(c)
         \/ Finished(c)
         \/ Aborted(c)
         \/ Return(c)

Spec == Init /\ [][Next]_vars

-----------------------------------------------------------------------------
(* What is promised. *)

(* Every request arrives where it is understood: at a server that speaks the
   protocol read from the announced type, and at the handler for its question. *)
RequestsReach ==
    \A c \in Clients :
      messages[c].phase = "request" =>
        /\ messages[c].scheme = settings.protocol
        /\ Handler(messages[c].path) =
             CASE calls[c].question.op \in {"lookup", "link"} -> "contents"
               [] calls[c].question.op = "list" -> "list"
               [] OTHER -> "root"

(* A callback that gets a buffer gets its true length, and what was negotiated in
   one round lets every later part of that size be read in one call
   (epc_contents_stream_read). *)
BufferFits ==
    \A c \in Clients :
      LET s == messages[c].stream
      IN  /\ s.buffer \in {0, s.size}
          /\ s.size % Page = 0
          /\ messages[c].signal = "wrote-chunk" => s.buffer >= Size[Last(messages[c].body)]

(* What the questions of the abstract store ask for: the value of a key, with all
   its parts in order, or those keys that match of the keys that have a value. *)
AnswerOf(store, q) ==
    IF q.op \in {"lookup", "link"}
    THEN store[q.text]
    ELSE {k \in Keys : store[k] # {} /\
                       (q.op = "root" \/ q.text = <<>> \/ Match(q.text, k))}

StoreContents == [Keys -> {{}} \cup {{v} : v \in Values}]

(* A handler that returns NULL publishes nothing ("exactly the same, as if the value has
   been removed", documentation of EpcPublisher). *)
Published == [k \in Keys |-> ValueOf(resources[k])]

(* A call is bound to its answer by the handler, and has failed once its connection
   breaks. *)
CallAsAsked(c) ==
    LET asked == [phase |-> "asked", question |-> calls[c].question]
    IN  CASE calls[c].phase = "idle" -> Idle
          [] calls[c].phase = "failed" -> [phase |-> "failed"]
          [] calls[c].phase = "resolving" -> asked
          [] calls[c].phase = "returned" ->
               [phase |-> "returned", question |-> calls[c].question, answer |-> calls[c].result]
          [] messages[c].phase = "request" -> asked
          [] messages[c].status = "error" -> [phase |-> "failed"]
          [] OTHER -> [phase |-> "bound", question |-> calls[c].question,
                       answer |-> Result(c, messages[c].stream.left)]

S == INSTANCE Store WITH
       Contents <- StoreContents,
       Answer <- AnswerOf,
       store <- Published,
       calls <- [c \in Clients |-> CallAsAsked(c)]

(* Whatever the publisher changes meanwhile, whichever way a value is delivered and
   however its parts relate to the pages of the buffer: a call that succeeds returns
   all of what the store held at one moment of the call, and a listing the keys
   of one moment ("the value the publisher provides", epc_consumer_lookup;
   "Matches published keys against patterns", epc_consumer_list). *)
AsStore == S!Spec

(* A listing holds only keys that match what was asked for, jokers included ("Matches
   published keys against patterns containing '*' (wildcard) and '?' (joker)",
   epc_consumer_list). *)
ListedMatch ==
    \A c \in Clients :
      (calls[c].phase = "returned" /\ calls[c].question.op = "list") =>
        \A k \in calls[c].result :
          calls[c].question.text = <<>> \/ Match(calls[c].question.text, k)

-----------------------------------------------------------------------------
(* Liveness. *)

(* Consumers, server and network proceed. *)
Fairness ==
    \A c \in Clients :
      /\ WF_vars(Send(c)) /\ WF_vars(HandleContents(c)) /\ WF_vars(HandleList(c))
      /\ WF_vars(HandleRoot(c)) /\ WF_vars(ChunkCb(c)) /\ WF_vars(Finished(c))
      /\ WF_vars(Return(c))

FairSpec == Spec /\ Fairness

(* Every call ends; in particular the writing of a stream starts and goes on until
   the body is complete (epc_publisher_chunk_cb). *)
CallsEnd ==
    \A c \in Clients : calls[c].phase = "waiting" ~> calls[c].phase \in {"returned", "failed"}

=============================================================================

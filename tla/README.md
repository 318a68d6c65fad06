# A TLA+ model of libepc

libepc (the Easy Publish and Consume library) lets programs publish values
over HTTP(S), find each other with DNS-SD (through Avahi), and look values up.
This directory holds TLA+ modules translated from its C code, TLC runs that
check them on small instances, and theorems checked with TLAPS.

Contents: 1 inventory of the system, 2 modules and their relation to the code,
3 runs, bounds and fairness, 4 theorems, 5 what the runs found, 6 what is not
modelled.

Everything runs from this directory:

    tlc -config Dispatcher.cfg MCDispatcher.tla     # one run of PROJECT.json
    tlapm DispatcherProofs.tla                      # one module of theorems (minutes)

## 1. The system

| component | source | state | operations |
|---|---|---|---|
| Shell | `shell.c` | the one AvahiClient, the array of watches, whether a restart is allowed | get and restart the client, add and remove watches, the client's callback, factories of browsers and entry groups |
| Progress hooks | `shell.c` | the hooks with their user data | begin, update, end, replace |
| Dispatcher | `dispatcher.c` | name, cookie, collision strategy, services with their entry groups and idle handlers, a monitor of competitors | run, add service, subtype, details, reset, set name/cookie/strategy; callbacks of client, groups, monitor; idle commit |
| Publisher | `publisher.c` | resources, bookmarks, HTTP server, its loop, dispatcher, clients, settings | add/remove, auth handlers, bookmarks, run, quit, properties, expansion of names; the handlers of requests |
| Consumer | `consumer.c` | protocol, host/port/path of the publisher, credentials, one main loop, time-outs | create, resolve, lookup, list and its parser; callbacks of monitor, time-out, authentication |
| Service monitor | `service-monitor.c` | browsers, types, skip-our-own | browser and resolver callbacks, signals |
| Contents | `contents.c` | reference count, data or stream buffer | ref, unref, get data, read stream |
| TLS | `tls.c` | key and certificate files | generate a key in a thread, write both files, reuse or renew them |
| Service types, protocols | `service-type.c`, `protocol.c` | none | base/subtype, protocol of a type, URIs |
| Service info | `service-info.c` | reference count, details | ref, unref, get detail |
| Password dialog, progress window | `libepc-ui/` | widgets | answer the authentication signal, show the progress hooks |
| Examples | `src/examples/` | their own | programs that use the library |

How they interact:

* All Avahi objects hang from the **shell's** client. Dispatchers watch its state;
  when it fails the shell tells every watch, frees it (and with it every entry
  group, browser and resolver) and makes a new one. A failing entry group asks
  for the same restart.
* A **publisher** owns a dispatcher for itself and one for each resource with a
  labelled bookmark; it gets its credentials from **TLS**, in whose main loop it waits
  while keys are generated, and streams **contents** to its clients.
* A **consumer** owns a **service monitor**, or is created for a service already known.
* A dispatcher under the "unique" strategy owns a service monitor, too.

What is hard about it:

* *Re-entrance.* There is hardly a thread, but every layer calls back into the
  others while its own call is unfinished: watches that remove watches, groups
  that collide while they are filled, handlers that stop the server they answer
  for, signals whose handlers wait in a main loop.
* *Nested main loops*: key generation, `epc_publisher_run`, `epc_consumer_lookup`.
* *Things that must happen later because something else reports them*: a service
  that was suspended, reset or renamed is announced again only if some callback
  publishes it.
* *Objects freed by their owner's owner*: groups by the client, contents by a
  publisher whose clients are still being served.
* *The network*: names collide, competitors come and go, the daemon restarts,
  announcements are resolved in any order.
* *Files that outlive the process*: key and certificate are two files, written one
  after the other, by calls that may be nested and processes that may crash.
* *Values in motion*: a resource changes between request and answer, and while a
  stream is written chunk by chunk.

What makes each component correct:

* Shell: an identifier names one watch; every watch knows the client's state;
  nobody replaces the client while it is being handed out.
* Dispatcher: the idle handler never touches a missing group; no records under an
  old name; a cookie keeps our own kind from forcing a rename; every service ends
  up announced; deferring ends.
* Publisher: user data live exactly as long as they are used, except that nothing keeps
  an application from dropping them deep inside their own handler; connections known
  as busy are exactly the busy ones; what serves is announced, with the
  bookmarks there are; `run` returns after `quit`.
* Consumer: it talks to publishers of its name only, never downgrades, and every
  wait ends.
* TLS: key and certificate fit, or are made anew; waiting for a key ends.
* Contents, with publisher and consumer around it: a call returns all of a value the
  publisher held at one moment of the call, or fails; a stream ends.
* Names: every key and every service type survives the way through URIs and DNS-SD.

PROJECT.json lists the hazards line by line, each with the properties that
cover it or why none does.

## 2. The modules

Conventions. One action per callback, public function, or iteration of a loop
during which control can leave the function. What has not returned yet is data:
a loop position (`loop` in Shell), a stack of loops (`stack` in Dispatcher) or of
calls (`stack` in Publisher, Consumer). A call is enabled in the states in which
the application, a callback or the main loop can make it. `fault` records the first
use of something that is gone, after which the model stops. Things the code does
only in some environment are gated by the constant `Hazards`, so that a run names
what it leaves out. Operators whose comment starts with "Mutant:" are mistakes
the code could contain; PROJECT.json says which run detects each.

### Shell (`shell.c`)

`watches` is the array of `EpcShellWatch`; an entry keeps its identifier and the
watcher that owns it. `WatchAdd` computes the next identifier from the last entry
through a pointer taken before the array grew: `LastIds` contains the stale values
`StaleIds` if growing reallocates the block (`reserved`). `Found` is the upward search of
`epc_shell_watch_remove`, which starts at the identifier. `NotifyNext` is one iteration of the
loop of the client's callback, and between two of them whatever a callback may
call is enabled. `NewClient` is `avahi_client_new`, which calls the callback before it
returns; it may fail. The order "tell everybody, then free and restart" is
`EndNotify`.

### Dispatcher (`dispatcher.c`)

One dispatcher, its services by type. `group` is the entry group with the state the
daemon keeps; `entries` the names registered in it; `commits` the services whose
idle handler is scheduled; `signals` state changes not delivered yet. `stack` holds the
unfinished `epc_dispatcher_foreach_service` loops, since publishing can collide at once
(`HandleCollision`), and collisions suspend everything and loop again. `Visit` is one step of
the innermost loop; its order over the hash table is arbitrary. The monitor that
waits for a competitor is the part of `service-monitor.c` the dispatcher uses; it
stays connected, disconnected or dead exactly as the code leaves it; without a service
it browses all supported types (`WatchOther`). A change of the name notifies the application's handlers,
which may call everything but the main loop: the frame "notify" of the stack is such a handler, and the
loop of the change goes on when it returns (`Reentrant`). A new cookie is put into the details of a service
and its group reset before the loop comes to the next service (`SetCookie`, `MarkVisited`).

External: the daemon (`AddResults`, `Commits`, `ResetSignals`, `GroupSettles`, `GroupFails`, `ClientChanges`) and the
other publishers (`RivalAppears`, `RivalLeaves`). A rival is on this host or not and carries our
cookie or another. The last name of the model is never contested; otherwise
renaming could run out of names, which the code cannot.

### Publisher (`publisher.c`)

`resources` is the hash table and, under `Root`, the default resource; a resource has a
kind of handler, its user data, the user data of its authentication handler, whether
its bookmark has a label (and so a dispatcher of its own) and where that one
says it is. `dispatcher` is the publisher's own, with what it announces. `refs` counts
references to user data: resources and unfinished answers hold one each.
`stack` holds what the main thread has not returned from: creating the server
(key generation runs a loop), `epc_publisher_run`, an authentication handler, a
contents handler. Handlers run under the recursive lock: the thread itself may call
anything (`own`), other threads only when no handler runs (`LockFree`). When the main thread releases the
data its innermost handler was given, that handler itself has dropped them (`DropsData`); releasing the data of a handler
further out, from a handler or loop nested in it, is the hazard `nested_release`, since the
lock is recursive and keeps nobody from it. A name that is unset is computed anew if there is a dispatcher to tell,
after the handlers were installed without one (`SetServiceName`). `clients` are the
tags of `priv->clients`. Bookmark announcement (`Announced`, `Announcing`) is one step; it makes no
callbacks.

External: libsoup's connections (`Ended`, `Unhandled`), and how the credentials turn out
(`CreateEnds`: both files, none with HTTP instead, or none with HTTPS because the host name
is unknown). `epc_publisher_quit` is modelled for the main thread.

### Consumer (`consumer.c`, `service-monitor.c`)

`protocol` and `endpoint` (host, port and path of one announcement) are assigned separately,
as in the code. `met` is a history variable: the protocols over which the consumer has found its
publisher so far, which no action reads. All waits share one loop object, hence the one flag `running`; `timers`
counts time-outs, which nothing removes. `stack` holds waits, handlers of the two
signals, and messages being sent. Consumers follow each other, and the
resolvers and time-outs of an earlier one stay.

External: the network (`OfferAppears`, `OfferLeaves`), libsoup's session (`SendReturns`), and that Avahi's
event source does not recurse (`AvahiDispatching`): a main loop run inside a callback of Avahi
gets time-outs, but no further callbacks of Avahi. `SoupSession` sends synchronous messages
without running the default main context (`Dispatching`).

### Rendezvous

What a consumer promises of the publisher it contacts, without waits, resolvers, time-outs
and handlers: it looks for a name or knows a service (`Look`, `Know`), meets publishers of
the name in any order (`Meet`: endpoint and best protocol change together, the protocol
only upwards), and goes (`Leave`). `AsRendezvous` of Consumer is the refinement; a
resolver's report whose handlers have not returned is mapped to the state before it.

### Tls (`tls.c`; the progress hooks of `shell.c`; `libepc-ui/progress-window.c`)

`keyFile` and `crtFile` outlive the process, with their times in seconds. `calls` is the
stack of unfinished `epc_tls_get_server_credentials`, each with its place in the code (`pc`): `load` the
key, `begin` and `start` generating one, `wait` in the loop, `open` and `write` the file, `stat` the
certificate, `renew` it; without memory for a key the call goes from `begin` to its end, and its progress
is over as soon as it is shown (`ProgressFlashes`). The generating thread (`KeyThread`) runs against `LoopRun` and `LoopReturns`. Between
`open` and `write` the file is torn. `Crash` may come anywhere and forgets all but the files;
`KeyLost` and `CertificateLost` damage them; `Tick` lets certificates expire. `hooks`, `windows`, `pulses`
and `titles` are what the hooks' context points to: windows with the timer that moves
their bar, and the titles the default hooks copy.

`fast_thread`: a key may be ready before the loop runs. `same_second`: a key file may be
written in the second an older certificate was, so that comparing times does not tell
which is newer. `nested_progress`: an operation begins while the same hooks show another.

### Names (`service-type.c`, `protocol.c`, `service-info.c`, parts of `publisher.c`, `consumer.c`)

Operators, no state. A text is a sequence of symbols; an escape is two of them, the
percent sign and its digits. `KeyPath`, `UriPath`,
`Decode` and `GetKey` are a key's way into a request and back; `Match` is a glob pattern;
`ServiceType`, `GetBase` and `GetProtocol` are DNS-SD types; `GetDetail` reads a TXT record; `ExpandName` is
`epc_publisher_expand_name`.

### Exchange (`publisher.c`, `consumer.c`, `contents.c`) and Store

Exchange follows one question (a lookup, a listing, a browser's table of contents or a
link in it) from the call to its result: the path of the request, the handler it
reaches (`HandleContents`, `HandleList`, `HandleRoot`), and the chunks of a stream (`ChunkCb` with
`StreamRead`, the buffer that grows by pages, and the two signals that ask for the next
chunk), then the parser and the result. `Symbols` is what texts consist of. Meanwhile resources are added, replaced and
removed, a published file changes on disk, and connections break. Of a resource the
model keeps what its handler returns now (`ValueOf`): a value, the parts of a stream, what the
file holds, or nothing. Each message keeps
its own state, so one client shows what several would; the module is written for a
set of them.

Store is what this promises: an atomic store of values by key, in which a key without
a value is not there. That is what the documentation says of a handler that returns NULL ("exactly the
same, as if the value has been removed", `publisher.c:124`); the code keeps listing its key, as it does with
a file that cannot be read. The hazard `null_value` lets both happen, and TLC then refutes `AsStore`.
`link_escapes` lets a browser follow links with a percent sign, which the table of contents does not
escape; `query_chars` and `read_error` are described in section 3. `AsStore` is the refinement: a
call is *bound* to its answer when the handler takes the contents.

### Modules for TLC and for proofs

MCShell, MCDispatcher, MCPublisher, MCConsumer, MCTls and MCExchange give the constants small
values; MCExchange also compares the operators of Names with what they should give (`Match` with
cutting the text into one piece for each symbol of the pattern).
ShellProofs, DispatcherProofs, PublisherProofs, ConsumerProofs, TlsProofs, NamesProofs and
ExchangeProofs hold theorems; the last one uses the one before.

What one module needs of another is an external action of it: `RestartClient` in
the dispatcher is the shell's `EndNotify`, `CreateEnds` in the publisher is a call of Tls, `SendReturns`
in the consumer is a message of Exchange. Two pairs are joined by refinement: Consumer
implements Rendezvous and Exchange implements Store, both checked and proved.

## 3. Runs

| run | properties | bounds | states |
|---|---|---|---|
| Shell | `TypeOK`, `IdsIncrease`, `HeldIsRegistered`, `WatchersKnowState`, `ClientStaysDuringNotify`, `FailureToldBeforeFree` | 3 watchers, 2 clients, identifiers to 5, the array grows | 40 000 |
| Dispatcher | `TypeOK`, `CommitHasGroup`, `OneName`, `EventuallyAnnounced` | 2 types, renaming, rivals here and elsewhere, client fails; 5 events, 3 names | 152 000 |
| DispatcherUnique | `UniqueKeepsName` | 2 types, unique and ignore, twins and strangers; client and groups fail, services are refused, resets unreported, emptied groups committed; 5 events, 3 names | 873 000 |
| Publisher | `TypeOK`, `RefsExact`, `HandlerDataLive`, `TagsExact`, `ServingIsAnnounced`, `BookmarksServed`, `QuitEndsRun` | 1 key and the root, 2 connections, 3 user data, 2 servers, 5 calls | 253 000 |
| Consumer | `TypeOK`, `EndpointIsOurs`, `NeverDowngraded`, `ProtocolRises`, `AsRendezvous`, `TimedWaitsEnd`, `InfiniteWaitsEnd` | 3 offers, 2 consumers, 4 calls or network changes | 107 000 |
| Tls | `TypeOK`, `PairFits`, `ProgressCloses`, `CallsReturn` | 2 nested calls, certificates valid for 1 second of 3, 5 calls, losses, crashes or changes of hooks | 117 000 |
| Exchange | `TypeOK`, `RequestsReach`, `BufferFits`, `AsStore`, `CallsEnd`; the operators of Names | 2 keys, one with `/` and `%`, values of 0 and 3 parts, parts of 1 and 3 bytes, pages of 2, 4 calls or changes | 37 000 |
| DispatcherFailure, PublisherQuit, ConsumerMixed, TlsLost, ExchangeJoker | one each, section 5 | as small as shows it | |

What they show, in a sentence each, is the field `about` in PROJECT.json.

Why the bounds are enough. Three watches let an entry be removed in front of, at
and behind the loop's position and fall below the start of a search. Two services
are what an interrupted loop needs: one that collides and one that comes after
it. Three names allow two renames, the second while the first one's loop runs, and
a last one nobody contests. Five events let a service be added, run, collide, be
reset and meet a failing daemon. One key beside the root decides between a bookmark
of the publisher and one of the resource; two connections let one request be
answered within the handler of another; five calls set up a resource, start,
stop and start again. Two consumers show what the first one leaves behind; four
calls are creation, a wait, a lookup nested in it, and a change of the network.
Five events of Tls let one call make a pair, a crash or loss destroy a part of it, and
two further calls, one in the loop of the other, find what is left; three seconds let a certificate
be older than, as old as, and newer than a key, and expire. A part smaller than a page, one
larger, and a smaller one again make the stream's buffer appear, grow and be reused;
four events of Exchange publish a value, ask for it, and replace and remove it while it is
written. The operators of Names are compared for all texts of up to four symbols (and
patterns of up to three), enough for an escape, a separator and something on both sides.

`CHECK_DEADLOCK FALSE` everywhere: an event-driven library is quiet when nothing happens,
and the bounds end every behaviour.

Fairness. The main loop serves what is pending (weak fairness of callbacks, idle
handlers and loop steps), as GLib does as long as handlers return; handlers of the
application return. Avahi settles a committed group and its browsers report what is
announced. `Publisher` asks for strong fairness of `LoopEnds`: `g_main_loop_run` tests its flag after
every iteration, so a loop told to quit returns, although handlers may interrupt it
each time. `Tls` adds that the generating thread finishes and that files are written or
refused; `Exchange` that libsoup emits the signals of a message whose connection stands
and that handlers answer. Calls of the application, crashes, losses, the clock and
everything on the network are never fair.

What the passing runs assume, beyond the bounds:

* Shell: no callback being notified removes a watch, and growing the array keeps
  what was read (`StaleIds` empty). A callback that removes a watch makes the loop skip the entry
  that moves into its place; with stale reads, identifiers repeat. ShellProofs names the
  same assumptions.
* Dispatcher: every reset of a group is reported by the daemon, as the comment at
  `dispatcher.c:649` expects, and an emptied group is not committed. Without them
  (`reset_quiet`, `empty_commit`) a service renamed between publication and commit is
  announced no more: nothing reports the reset of a group that is still
  uncommitted.
* Dispatcher: no group fails (`group_failure`; DispatcherFailure shows what follows), and no service is
  refused (`add_error`), which would stay unannounced. `CommitSafe` below covers refused services.
* Dispatcher and DispatcherUnique: details are not set before there is a group (`early_details`), nor
  the name or the cookie before the dispatcher runs (`early_reset`: the service gets a group of somebody
  else's client, and nobody tells the dispatcher when that client fails). With `group_failure` or
  `early_reset` an idle handler finds no live group (`CommitHasGroup`); with `early_details` Avahi is called
  without a group at once (`NoNullGroup`). Handlers of the name's notification run no main loop.
* DispatcherUnique: details are set with the cookie in them (no `lost_cookie`).
* Publisher: nobody drops the data of a handler from a call nested in it (`nested_release`; with
  it `HandlerDataLive` fails); nobody quits during key generation (PublisherQuit shows why); the name
  of a running server is not unset (then authentication is no longer asked for,
  see the comment at `publisher.c:1060`), its contents path is not changed (it is not announced
  anew), the root has no bookmark, and the default bookmark's resource is not
  replaced once it has a label.
* Consumer: no wait without time-out within a handler or another wait, and
  services that are announced resolve. With `wait_in_handler` a wait never ends, since
  Avahi's callbacks do not nest.
* Tls: none of its hazards. TlsLost shows what `fast_thread` does; with `same_second` a pair that
  does not fit can be returned (`PairFits`); with `nested_progress` a window is orphaned and a title freed
  twice (`ProgressCloses`, `fault`).
* Exchange: no `?` or `#` in keys and patterns (ExchangeJoker shows why), no percent sign in a
  key whose link is followed (`link_escapes`), no handler that returns NULL and no published file that is not readable
  (`null_value`), and streams that end only when they are complete (`read_error`: `FALSE` from the application's
  callback means both). With each of the four `AsStore` fails.

## 4. Theorems

All proofs are checked to the leaves; there is no axiom. What they assume are the
named assumptions on the constants, and the hypotheses shown.

**ShellProofs.** `TypeCorrect`. `ClientStays`: no restart while the client is handed out, by `LoopInv` (while
the loop runs there is a client and restarts are forbidden), which is
inductive only together with the type invariant because `NewClient` starts a new loop
itself. With `StaleIds = {}`: `WatchesSafe`, no removal takes somebody else's entry. Its invariant `ArrayInv` says that
identifiers increase along the array and are positive, so
that the "0" of a watcher without watch never matches; the step of a removal is a
lemma about `RemoveAt`. With `CallbacksRemove = FALSE` in addition: `WatchersInformed` and `FailureTold`, by `KnowInv`: a watcher
knows the client's state, or the loop hands out that state and has yet to reach the
watcher's entry. A restart waits for the end of the loop, so that then everybody knows.

**DispatcherProofs.** `TypeCorrect`, with the strengthening that no loop on the stack is finished.
`CommitSafe` (none of `early_details`, `early_reset` and `group_failure`): the idle handler finds its service
announced and a *live* group. `GroupInv` relates groups, services, entries and commits; `CommitInv`
says that a scheduled service has a group; `LiveInv`, that no group is freed and no failure of one
under way; and `WatchInv`, that a dispatcher that does not watch the client yet has no groups and
nothing that would make one. The last is needed since a restart frees the groups of all, and only
who watches the client is told to let go of them first. Each action touches the groups through
`SuspendAll`, `AddService` or `RestartClient`, with one lemma for each. `OneNameAtATime` (without the unique strategy): `NameInv` allows an old name
while a loop that will reset the service is still on the stack, which is exactly the
window between `SetName` and the visits; lemmas on `Foreach` and `After` say pending resets stay pending.
`OnlyForStrangers` (one cookie, never dropped from the details): `CookieInv` traces what the monitor knows
of our own announcements and of rivals back to the cookie or to a recorded stranger.

**PublisherProofs.** `TypeCorrect`, `RefsSafe`, `HandlerDataSafe` and `TagsSafe` follow from `BaseInv`, for any keys, connections and calls,
with every hazard allowed. Its parts: `ServerOK`, types, and that starts under way do not exceed the servers there may be;
`RequestsOK`, each handler on the stack answers one open request, and the tag of
a connection is the number (0 or 1) of handlers for it; `ResourcesOK`, a datum
belongs to one resource, as its data or for its authentication; `RefsOK`, its references are this owner, if any,
and the answers being sent; `HeldOK`, what a running handler was given has an owner, or the hazard `nested_release` is allowed. The
last one is why the lock matters: other threads step only when no handler runs, the
main thread's own removal marks the innermost frame if it gave its data away, and no other frame
(`Dropping`). `HandlerDataSafe` therefore has the hypothesis that `nested_release` does not occur; the other three
have none. The proof is
in three groups of actions: those that move requests (`RequestsStep`), those that move data (`OwnersStep`), and
the server's life (`ServerStep`). `ServingAnnounced` (hypotheses: nobody quits during a start, unsets the name or moves the
contents) follows from `StartInv`: while a server is being created there is none yet and the dispatcher
runs. `BookmarksSafe` (also: no bookmark for the root, no replacing of the resource behind both
bookmarks) follows from `BookmarkInv`, which says where each label points and that the
publisher's dispatcher never announces a bookmark other than the publisher's.

**ConsumerProofs.** `TypeCorrect`, `EndpointSafe`, `DowngradeSafe` and `OnlyUpgrades`, for any announcements, nesting of
waits and number of consumers, with every hazard allowed. All four follow from `ConsumerInv`. `DowngradeSafe` compares
the protocol in use with the history: it is in `met` and the best in it, except while the handlers of the signal
that tells of a better one run. An
endpoint is ours and of a monitored type because pending resolvers of the current consumer
are for types it monitors (`ResolversInv`), and resolvers of earlier consumers carry another
consumer. The protocol only rises although it is assigned after the handlers of the signal:
`WellStacked` says that at most one such signal is on the stack, and that its service still is
better than the protocol. It rests on Avahi's source not recursing (`AvahiDispatching`); a second
callback within the handlers could end up assigning the lower protocol last. Lemmas say what
pushing, popping and trying credentials do to a stack. `ImplementsRendezvous` proves the refinement from the
same invariant: initial states map to initial states; `EmitReturns`, or a report without
handlers, is `Meet`; creation is `Look` or `Know`; disposal is `Leave`; all else stutters.

**TlsProofs.** `TypeCorrect`; `Counted` bounds the keys made by the calls there were. `PairSafe` (without `same_second`): a call that
succeeds leaves a pair that fits, whatever crashed, was lost or nested, although the code
never compares the two. Its invariant says that a readable key file and a certificate file not older than it fit (`Fit`), and
that the innermost call's key is the one in the file from the moment it was loaded or
written (`Held`); calls below the innermost may hold what is outdated, but they wait in the loop,
hold no key yet, and write theirs when they go on. `WindowsClose` (without `nested_progress`): the only window is the context of
the hooks of the innermost call, which generates a key (`WindowInv`).

**NamesProofs.** For texts of any length over any symbols. `KeyComesBack`: a key that `epc_publisher_get_path`
encodes behind a contents path, that libsoup sends and decodes, is what `epc_publisher_get_key` gets
out of the path, whatever escapes and slashes it holds (no `?` or `#`, which end a path; the
contents path has one component). `TypeIsRecognized`: the type made
for a protocol and an application is one of which `epc_service_type_get_protocol` tells the
protocol, whatever the application is called, because everything `GetBase` could take for a dot is
normalized away. `PlaceholdersExpand`: what the loop of `epc_publisher_expand_name` makes of any name, placeholder by
placeholder. `Encode` is a fold, `Decode` and `ExpandName` are instances of one recursive function
(`Rewritten`: two symbols at each mark are replaced), and the library's induction
theorems cannot be used (they take the induction hypothesis as an operator). Induction is
had from well-foundedness of `<` instead: a set of numbers that is not empty has a least member
(`LeastNumber`), so that a set of texts that holds the empty one, and with a text every longer one by
one symbol, holds all (`GrowingTexts`, and `PrefixedTexts` for growth at the other end). On these
rest that `Encode` and `Rewritten` are well defined, their equations for a symbol in front or behind
(`EncodeAppend`, `RewrittenFirst`, `RewrittenMark`), and that decoding undoes encoding (`DecodeEncode`).

**ExchangeProofs.** `TypeCorrect` and `BuffersFit`, for any texts, values, sizes of parts, pages and clients, with
every hazard allowed. They follow from `IInv`, which says of each call that the call and its message are
in one of five situations (`NotSent`, `Sent`, `BeingWritten`, `Answered`, `Over`) with the status, signal and stream
of it. That `BufferFits` is no invariant by itself shows in `BeingWritten`: after "wrote-chunk" the
buffer is at least as large as the part delivered last, because `epc_contents_stream_read` either fits it
in or grows to `Pages` of it (`ReadDelivers`, `PagesFit`), and neither signal nor stream changes without the other.
Actions are lemmas on one call (`AskEffect`, ..., `ReturnEffect`), which `CallSteps` puts together.

`RequestsArrive` (hypothesis `KnownPaths`), with every hazard allowed: also a pattern cut off at its `?`
arrives at the right handler.

`ImplementsStore` (`KnownPaths` and `OrdinaryUse`) proves the refinement. It needs, besides `IInv` and `RequestsArrive`, that a
request that arrives has the path of what was asked, whole (`AsAsked`), that only finitely
many keys are published, so that a listing is a sequence (`FinitelyMany`), and that every key in the table has a
value, so that what is listed is what the store holds (`AllHaveValues`). `Ask` is the store's `Ask`; a handler is
`Bind`, whose answer is the value or the keys of that moment; `ChunkCb` and the changes of resources
leave the bound answer alone, which is what has been written and what is left together; `Return`
and `Fail` are themselves.

`KnownPaths` and `OrdinaryUse` are hypotheses of theorems and not assumptions of the module, since the code
enforces none of them; each is needed:

* The contents path holds no escape, `?` or `#` and is not "/list", of whose requests the contents handler
  would take a part. `epc_publisher_set_contents_path` takes any path of a slash and something behind it.
* It has one component. Of a path with two, `epc_publisher_get_key` takes the second for a part of the key.
* A pattern decodes to itself: `epc_consumer_list` does not encode it, and the server decodes it.
* No key is empty: a listing has it as an item without text.
* No hazard: `query_chars`, `link_escapes`, `null_value` and `read_error`, as in section 3.

MCExchange's constants satisfy them, with a key of a slash and an escape, and the run of
ExchangeJoker, in which one fails, refutes a consequence of the refinement.

Only model-checked:

* Liveness (`EventuallyAnnounced`, `QuitEndsRun`, `TimedWaitsEnd`, `InfiniteWaitsEnd`, `CallsReturn`, `CallsEnd`): it needs fairness and
  `ENABLED`, which are out of the prover's reach.
* What `Match` should give, for short texts: it is GLib's, and the theorems on listings take
  matching to be what `Match` says.

## 5. What the runs found

Each violating run checks one property that the documentation or a comment states;
PROJECT.json quotes it.

* DispatcherFailure: a group's failure restarts the client, which frees all groups;
  services go on using them.
* PublisherQuit: quitting during key generation drops the dispatcher; the server starts
  nevertheless, unannounced.
* ConsumerMixed: after HTTPS has been found, the announcement of an HTTP publisher of the
  same name replaces host and port, and requests speak HTTPS to the HTTP port.
* TlsLost: a key that is ready before the loop runs quits a loop that does not run yet; the
  loop then waits for ever.
* ExchangeJoker: a pattern with `?` reaches the publisher cut off, since `?` begins the query of
  the request's URI, and keys that do not match are listed.

Known from the models, without a run of their own (the property is in the module
and fails when the hazard named is allowed): `epc_shell_watch_remove` does not find an entry that
earlier removals moved below the position its search starts at (`RegisteredIsHeld`); a watch removed by a callback
makes the loop skip the next one (`WatchersKnowState`, `CallbacksRemove`); data a handler still uses are freed
by a handler nested in its main loop (`HandlerDataLive`, `nested_release`); a handler that returns NULL, or
a file that cannot be read, leaves its key in listings, where the documentation says it looks
removed (`AsStore`, `null_value`); a link to a key with an escape in it asks for another key (`AsStore`,
`link_escapes`); under the unique strategy the
interrupted loop announces the remaining services under the contested name (`DeferredIsSilent`); a
competitor that leaves before the browser has reported it leaves the service waiting
for ever (`DeferredUntilGone`); details set before there is a group
(`NoNullGroup`, `early_details`); a group of a client nobody watches, committed after the client failed
(`CommitHasGroup`, `early_reset`); the cookie lost with new details (`UniqueKeepsName`, `lost_cookie`); a name set before the commit
(`EventuallyAnnounced`, `reset_quiet`); bookmarks with a label that outlive the server (`NoDeadBookmarks`); a start
refused without error (`FailureHasError`); publisher-resolved emitted before the consumer knows
(`ResolvedWhenSignalled`); an infinite wait ended by another's time-out (`InfiniteWaiting`); a time-out that fires for nobody
(`TimeoutEndsWait`); callbacks of resolvers and time-outs after the consumer is gone (`fault = "freed"`).

Observed in the code, outside the models or beyond their properties:

* Publisher: the authentication handler of the default
  resource answers only for keys without a resource, where the documentation calls it a
  fallback for all. `epc_publisher_add` on a protected key drops its authentication handler. "new-connection" and "disconnected" do not belong to the class they are
  connected to (the comment at `publisher.c:1158`), so tags start at 0 when the first request arrives, and a quit also
  closes a connection with one running handler. `epc_publisher_announce` at the end of the server's
  creation does not take the lock. A contents path of two components confuses
  `epc_publisher_get_key`.
* Streams: an error while reading, and a chunk of length zero, look like the end; a
  stream returned for two requests is split between them.
* Consumer: `epc_consumer_new` leaves the path NULL when the service has no path detail,
  so that every lookup requests "/". The empty key is listed as "(null)".
* Shell: `destroy_data` of a watch is never called. A progress begun within another frees its title
  twice.
* TLS: the validity of a certificate is in seconds where the documentation says days; two
  processes that share the files may interleave their writes.
* Password dialog: it has no reauthenticate signal, which its documentation mentions; attached
  to two consumers, one response answers both. `real_set_realm` does not keep the realm `get_realm` would return.
* Example publisher: removing an item does not schedule saving.

## 6. Not modelled

* *The example programs*: users of the library; the models let the application call in any
  order, theirs included.
* *The password dialog's own state*: it lives in GTK widgets; towards the consumer the
  dialog is a handler that runs a main loop and answers or not, the frame "ask" of Consumer.
* *Reference count of service information*: counted up and down on the main thread by
  owners without concurrency or callbacks in between.
* *The consumer's monitor meeting a restart of the client*: the browsers are freed by the restart and the
  monitor is not told, as modelled for the dispatcher's monitor, where a run shows the consequence; nothing in the
  repository says what a consumer should do then.
* *Factories of browsers and entry groups in the shell*: they keep no state; they are where they
  are used.
* *A System module* that composes shell, dispatcher and publisher step by step: each alone
  has 10^5 states at the smallest interesting bounds, and their product is out of TLC's reach. Each sees its
  neighbours as external actions, which take any outcome of the neighbour's module, except that
  `Publisher` assumes credentials to be there some time (the liveness TlsLost refutes and Tls shows
  without `fast_thread`).
* *GnuTLS, libsoup, Avahi*: they appear as external actions.

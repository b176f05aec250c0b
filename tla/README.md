# Verification of coinbase-advanced-cpp

TLA+ modules, TLC configurations and TLAPS proofs about the C++ SDK in `src/`:
the websocket client, which is where threads, queues and reconnections meet, and
the parts of the REST client whose outcomes are hard to test.

## The system

| Part | State it keeps | Operations | Talks to |
|---|---|---|---|
| `WebSocketClient` (`websocket.cpp`, `websocket.hpp`) | two sockets, producer offset, buffers | constructor, `subscribe`, `unsubscribe`, `stop`, destructor, the socket callbacks | slick-net sockets, the multiplexer, the data handler |
| `UserThreadWebsocketCallbacks` | `clients_`, `producer_types_`, one sequence number per client and feed, a reading cursor | `addClient`, `mapProducerType`, `processData` | reads the multiplexer, calls the application |
| `DataHandler` (callbacks on the I/O thread) | one sequence number per feed | `processMarketData`, `processUserData` | called by the socket callbacks, calls the application |
| Data logger | `logger_run_`, `log_cursor_`, the file, a thread | `logData`, `runDataLogger`, the join in the destructor | reads the multiplexer |
| Subscriptions | none: `product_ids_` is never filled | `subscribe`, `unsubscribe` | opens the sockets and sends on them |
| `CoinbaseRestClient` (`rest.cpp`) | base URL; the static product catalogue, filled once | orders, lists with pages, single requests | HTTP, `auth.cpp` |
| `CoinbaseAwaitableRestClient` (`rest_awaitable.cpp`) | base URL, domain, a synchronous client on the heap | copies, moves, assignments, `set_base_url`, coroutines | `CoinbaseRestClient` |
| Timestamps (`utils.cpp`), numbers (`utils.hpp`) | none | pure conversions | everybody |
| Order configurations (`order.hpp`) | none | the readers of orders in lists and in snapshots | `create_order`, whose counterpart they are |
| Authentication, logging hooks, JSON models | keys read once; none; none | | |
| slick-net (outside the repository) | sockets, `stream_buffer_multiplexer` | | modelled from its use |

With user-thread callbacks the parts interact like this: the I/O thread of a
socket commits raw frames to the client's data producer and, through
`dispatchData`, CONNECTED, DISCONNECTED and ERROR records to its control
producer. All producers of all clients fan in to one multiplexer. The
application calls `processData`, which reads record by record, finds by the
producer id which client and which feed it is for, and calls back. Without
user-thread callbacks the I/O thread calls back itself.

### What is hard, and what makes each part correct

* **Routing.** A raw frame carries no client: only its producer id leads home,
  through tables changed by the records before it. Clients come, go and come back
  at the same address. Correct: every callback is for the client and feed that
  wrote the record.
* **Sequence numbers.** One number per client and feed, kept far from the socket
  it belongs to, reset by a record in the queue. Correct: a gap is reported
  exactly when the connection has lost a frame; no connection judges the next.
* **Draining.** `processData` runs in a loop others keep feeding. Correct: it
  returns, and everything is read in the end.
* **Exceptions.** One try block per frame, application callbacks inside it.
  Correct: a frame costs only itself, unless it lacks a field that is read unasked,
  which may end the process.
* **The end of the logger.** A relaxed flag, a drain, a join. Correct: no frame is
  missing when the destructor returns.
* **Requests.** Many branches; an answer that never comes; lists that fail halfway.
  Correct: what is posted is what was asked for, what is reported done is done,
  and a list lacks no page but those that came without it, and none if nothing failed.
* **Subscriptions.** A call takes its channels one by one, tests a status that
  another thread changes, and may throw in the middle; nothing is remembered and
  nothing replayed. Correct: what is on is what was asked for on this connection,
  and the user channel has the heartbeats that keep it alive.
* **Objects with value semantics around coroutines.** A coroutine reads its object
  when it is awaited, after the object may have been renamed or assigned to.
  Correct: one owner for each synchronous client, and every request goes where its
  object points.
* **Conversions.** Doubles. Correct: no timestamp is off by more than a unit, no
  price on its increment is posted a tick away, and order is kept in both.

## Modules

| Module | Models | Extends / uses |
|---|---|---|
| `ExchangeSocket` | slick-net's socket and the exchange behind it, as the client uses them | |
| `FeedContract` | the abstract specification: what an application is told about a feed, by whichever thread | |
| `UserThreadFeed` | clients with `UserThreadWebsocketCallbacks` | `ExchangeSocket`; implements `FeedContract` |
| `DirectFeed` | clients whose callbacks run on the I/O thread | `ExchangeSocket`; implements `FeedContract` |
| `FrameDispatch` | `DataHandler`: the inside of one frame | |
| `Subscriptions` | `subscribe` and `unsubscribe`, channel by channel | `ExchangeSocket` |
| `DataLogger` | `logData`, `runDataLogger`, the destructor | |
| `OrderRequest` | `create_order`, `modify_order`, `cancel_orders` | |
| `OrderViews` | how an order's configuration is read back, from lists and from snapshots | `OrderRequest` |
| `RestCalls` | the lists with pages, the getters and the commands | |
| `RestClient` | a REST client: its constructor with the product catalogue, then its calls, one at a time | composes `OrderViews` and `RestCalls` |
| `AwaitableClient` | `CoinbaseAwaitableRestClient`: objects, their copies and moves, coroutines | |
| `Timestamps` | `timestamp_to_string`, `to_milliseconds`, `to_microseconds`, `to_nanoseconds` | |
| `Numbers` | `fix_floating_error`, `compute_number_decimals`, `to_string` | |
| `Conversions` | an application that reads timestamps and posts prices | composes `Timestamps` and `Numbers` |
| `UserThreadFeedProofs`, `DirectFeedProofs`, `FrameDispatchProofs`, `SubscriptionsProofs`, `DataLoggerProofs`, `RestClientProofs`, `AwaitableClientProofs`, `ConversionsProofs` | the theorems | the module named, `TLAPS` |
| `MCUserThreadFeed`, `MCDirectFeed`, `MCSubscriptions`, `MCAwaitableClient`, `MCConversions` | values of constants for TLC | the module named |

Definitions whose names begin or end in a mistake (`addClientShort`,
`FollowsNewer`, ...) are not part of any specification. Each stands before the
definition it spoils, says what the mistake is, and makes one property fail when
put in its place: that is how we know the property depends on the code.

### ExchangeSocket

A *feed* is one socket of one client, `<<client, "MD">>` or `<<client, "USER">>`.
`status` is `Websocket::status()`; `opened` says that the connected callback ran
and the disconnected one has not; `conn` counts connections, `sent` is the last
sequence number the exchange used. Each I/O step here (`Establish`, `Abandon`,
`Shut`, `Number`, `Unnumbered`) is conjoined with the handler the client
installed, so that a callback and what it does are one step. Numbers start at 0
for every connection, and the exchange may lose any frame. slick-net is not in
the repository; what is assumed of it is that callbacks of one socket come one at
a time, that a detached socket makes none, and that the multiplexer keeps the
order of commits.

### UserThreadFeed

`mux` is the part of the multiplexer that `processData` has not read; `left` is
what remains of `max_drain_count` in the call that is running, 0 between calls.
`clients_`, `producer_types_` and `seq_nums_` are the code's; `session`, `heard`
and `event` are history, what the application was told. One iteration of the loop
in `processData` is one step (`SkipRecord`, `HandleConnected`,
`HandleDisconnected`, `HandleError`, `HandleFrame`), so that the I/O threads
interleave between records, which is all they can do: they only append.
`Construct` is the constructor with `init`, `addClient` and `mapProducerType`;
`Destroy` the destructor. Both are taken between calls of `processData`, on the
same thread, as the examples do. `DrainedTeardown` says whether applications
destroy clients only when their feeds are down and drained; the code does not
ask for it, and what goes wrong without it is a finding below. `Throwing` names
the control records whose callback may throw: the callback runs outside any try,
so that a throw leaves `processData` with the count unspent (`Counted`), and a
disconnected callback that throws leaves before the slots and the sequence number
are reset.

### DirectFeed

The same sockets; the handler has a single sequence number per feed, and the
sequence number goes where the connection goes, unless a disconnected callback
throws (`Throwing`): the exception leaves before the number is reset. What the
other callbacks throw changes nothing in the client.

### FeedContract

Knows nothing of queues. Connections are announced one at a time and closed
before the next, frames come only in between and in order, a gap is reported with
a frame exactly if one has been missed since the first of the connection, and the
first is accepted whatever its number. Both modes are checked to implement it
(`KeepsContract`), with `up` read off the routing tables and `whole` off the
sequence numbers. That both do is what lets an application change the mode
without changing its callbacks.

### FrameDispatch

Opens the step the two modules above take whole: parse, sequence check, error,
channel, then event by event, each callback returning or throwing. `called`
records the callbacks. Channels differ in two points, and the model keeps both. For
an event of unknown type `processLevel2Update` and `processMarketTrades` read
`event["type"]` for the log line and go on; the others read `j["type"]`, which is
no type of an event, and if the log level has the arguments evaluated and it is
null or no string, `get<std::string_view>()` throws and the rest of the frame is
dropped (`SkipsUnknown`). And the number of a frame, if it has none, is missed before the
loop (`ReadsNumberFirst`) or at each event (`LacksNumberHere`).

A field of the wrong type, or one that is missing where it is read with `at()`,
throws and the catch block forgets the frame (`malformed`). A field that is missing
where it is read with `operator[]` of a const json raises no exception: a debug
build asserts, and in a release build the behaviour is undefined. For it (`missing`) the
model takes any of these: the field passes for some value and the callback is made,
the event passes for an unknown one, the read throws on rubbish, or the process ends
(`Die`). What the read may do to other memory is left out.

`OnlyOwnEventsLost` states precisely what a frame can do at worst: while the process
lives, a frame costs only events of its own, behind the one that failed; and only a frame
that lacks a field can end the process, and with it every later frame.

### Subscriptions

`call` is the call that is running: the channels still to do, and for `subscribe`
the step it has reached in one channel (`ReachSocket`, which opens a socket that is
down, `SendHeartbeats` for the user socket it opened, `SendChannel`, or `Fail` when
the token cannot be signed). The sockets are those of `ExchangeSocket`, without
frames, and move between the steps. `outbox` holds what was sent and the exchange
has not taken, `subs` what it has on; both end with the connection (`Forget`).
What the exchange will have on once it has taken the outbox is `Effective`: of the
messages about a channel the last one decides.
`held` is what the application may take for subscribed, `silenced` the user feeds
whose heartbeats it turned off itself on a connection that is up: `unsubscribe` of
HEARTBEATS sends to both sockets. Product ids are passed on unread and left out.

### DataLogger

Positions in `mux` stand for records. `DetachSockets`, `StopLogger` and `Join` are
the three parts of the destructor, in its order. The load of the flag is relaxed,
so the thread may go on in its first loop after the store, and does so in the
model.

### OrderRequest

A request is the name of its configuration and, per field, the argument it is
formatted from; a price argument is absent, a number or NaN. The exchange may do
what was asked and its answer may arrive, be lost, or be unreadable. The HTTP
status is in no guard because it decides nothing in the code: `rsp.success` is
overwritten on every path. `ProductType` is `product(id).product_type`: a product
that is not in the catalogue, because the fetch failed or because the list lacks
it (`listed`), is inserted blank, and the checks that ask for a spot product pass
everything for it. `SidesAreChecked` says what is left: a spot order on the wrong side
for its legs goes out only for such a product. A NaN limit of a stop-limit or TWAP
order is posted, as the code posts it, and no property speaks of it.

### OrderViews

The tables of fields each `from_json` looks for, and `from_snapshot`, applied to the
request `OrderRequest` built: what is posted must be shown again. The classes
inherit from each other and so do their readers, and the tables are written the
same way. Snapshots are shown for limit and stop-limit orders good until
cancelled or until a time, with prices and without sizes and end times; other
orders get no configuration.

### RestCalls

A page is its number. `Answer` is the text expected under a good status; `Error` a
bad status or no answer, which ends a list with the pages so far; `Thrown` an
exception, which is caught outside the list and returns the default value, and which
a first or only answer without the field looked for raises too;
`IncompletePage` a page of a list that lacks the list, what leads on to the next page,
or both. A later page without its list adds nothing, and the loop goes on under
that page's own `has_next` and `cursor`, so that pages <1, 3> are returned
(`bare` remembers the 2). Of the commands, some return what the
body holds, some its field `success`, some TRUE for every good status
(`Succeeded`). It is assumed that the exchange answers a command with a good status
only if it did it, except for those that have a `success` to say so.

### RestClient

`Construct` and `Constructed` are `call_once` in the constructor, around a
`list_public_products` of `RestCalls`. A fetch that fails leaves the catalogue empty
and is never repeated. One application thread makes one call at a time; several
threads share nothing but the catalogue, and that race is not modelled yet.

### AwaitableClient

The heap is explicit: `sync_client_[o]` is an address and `heap` what lies there,
so that sharing, leaking or losing a synchronous client shows. `Make` calls a method, which
makes a coroutine and does nothing else; `Start` awaits it. All coroutines have the
same shape and differ only in the method they call, so one pair of actions stands for
all. What the compiler's defaulted moves do, member by member, is `Give`. The
application is assumed to keep the discipline the code needs: nothing is called on an
object that was moved from, no object is destroyed or moved from while a coroutine
points to it, and none is moved into itself.

### Timestamps

The calendar is abstracted to the second it names. The fraction is read as a
double, multiplied and truncated, and both roundings are modelled exactly: a
fraction k/s loses its last unit if the nearest double is below it and the product
is not rounded back up (`EndsBelow`). Compared with IEEE arithmetic on every
six-digit fraction and on samples of nine digits, the closed form agrees. About
one microsecond in 90 and one nanosecond in 60 lose a unit; milliseconds never do.

### Numbers

A price is a decimal and whether the double nearest it lies below it; sums and
products of doubles come out at the number meant or just below, which is left
open (`below`), as is how ties are printed. What must not depend on it is the text posted.
Limits of the model: prices below 8 million, where doubles are closer together than
the code's epsilon, and increments that are 1, 2, 5 or 25 times a power of ten.
Outside them the code does other things, which were seen by reading it: 0.0003
has twenty decimals for `compute_number_decimals`, prices above about 8.4 million
with eight decimals may be off by a unit, and above 92 billion the cast to
`int64_t` overflows. A product that is not in the catalogue has increment 0 and its
prices are posted as whole numbers, 0.52 as 1.

## Runs

| Run | Instance | What it shows |
|---|---|---|
| `two_clients` | two clients, market feeds, two connections each, offsets 0 and 4, queue of 2, callbacks of connections and errors that throw, symmetric clients | routing (`RoutedToOwner`, `CalledForItsWriter`), `FirstFrameAccepted` and the contract while clients reconnect, are destroyed and constructed again with the other offset |
| `one_client` | the user feed of one client, two connections of numbers 0 to 3 with losses, a foreign producer, drain counts 0 and 2, callbacks that throw, under fairness | the contract where gaps happen, across a reconnection; `CallReturns`, `ConnectionAnnounced`, `ClosureAnnounced` |
| `direct` | one client with both feeds, two connections of four numbers | the same contract on the I/O thread |
| `frame_dispatch` | three frames, two events among them, frames and events together at most four; a channel that reads the number first and skips unknown events, one that reads it at each event, the user channel; numbers 5 to 7, none or a bad one | `OnceInOrder`, `OnlyOwnEventsLost`, `GapIsSticky` |
| `subscriptions` | a client with both feeds and one without URLs, lists of one or two channels, two connections, two messages under way | `HeldIsSubscribed`, `HeartbeatsKeepUser` |
| `data_logger` | five records of own data, own control producers, under fairness | `FileIsFaithful`, `CompleteAtJoin`, `DestructorReturns` |
| `rest_client` | a catalogue that loads or not, products that it has or lacks; every combination of the arguments that `create_order` tells apart; up to two cancels; lists of up to three pages | orders: `SidesAreChecked`, `LegsAreKept`, `ReadsBack`, `ReportsAreTrue`, `EveryIdAnswered`; other calls: `OnlyBarePagesMissing`, `WholeUnlessFailed`, `CommandsAreTrue`, `CallEnds` |
| `awaitable_client` | three objects, four addresses, two URLs, two coroutines waiting per object, symmetric objects and addresses | `Ownership`, `CallsReachOwnUrl` |
| `conversions` | the fractions around two that lose a unit and the ends of the range; prices on, beside and between seven increments and without one | `RoundTrip`, `WithinOneUnit`, `OrderKept`; `PriceKept`, `PriceNear`, `PriceOrderKept` |
| `abrupt_teardown` | one client, `DrainedTeardown` FALSE | **finding**, below |
| `errors` | one client | **finding**, below |
| `stop_limit` | as `rest_client`, one page | **finding**, below |

### Bounds, and why they are enough

* Two clients: a wrong route needs two owners; a third adds no kind of owner. The
  theorem has any number. No run has both feeds of one client on the user thread,
  which is too large beside everything else; the theorems have every choice of
  feeds, and the two runs cover one kind of feed each.
* Two connections per feed: stale state needs one to leave it and one to find it.
* Numbers 0 to 3: a first frame, one in order, one missed, one after the gap.
* A queue of 2: one record that changes the tables and one that depends on them;
  it refills while it is read.
* Offsets {0, 4}: adjacent ranges, where an off-by-one lands in the neighbour's.
  {0, 8} with a foreign producer at 5 in `one_client`: a gap between ranges, with an
  id inside the vectors that belongs to no client.
* Drain counts: 0 (which reads one record, since the code tests after reading) and
  2; the other runs use 1, which lets every interleaving between records happen.
* `FrameDispatch`: three frames are the fewest that show a gap, a frame after it
  and the late one that heals it; four frames and events together (`MaxTotal`) leave room
  for a frame of two events before another, or one event beside a gap that is
  healed. The theorems have no bound.
* `Subscriptions`: two messages under way are a subscription and what overtakes
  it or undoes it; the lists hold the user channel, before another that may find
  its socket down, and heartbeats on either socket and on both.
* `DataLogger`: five records cover one before the logger, one in each loop, one
  that is not logged and one to spare; no other producers, see below.
* `RestClient`: three pages are a first, one in the middle, whose cursor came with
  an answer and leads to another, and a last; two ids make an order.
* `AwaitableClient`: three objects are the source, the target and a bystander that
  copied from one of them; an assignment needs one address more than objects.

### Fairness

`UserThreadFeed!FairSpec` assumes weak fairness of `processData` alone: README.md
of the SDK says the mode "requires calling `processData()` regularly". Nothing is
assumed of sockets, the exchange or foreign producers, which may stop or write for
ever. `DataLogger!FairSpec` assumes that both threads are scheduled and that the
store to the flag is seen in the end. `DestructorReturns` also needs the other
producers of a shared multiplexer to pause: the drain ends at the first empty
read and nothing in the code bounds it otherwise. In the run they have nothing to
write. `RestClient!Spec` assumes that every request gets an answer or an error in
the end; the HTTP library is trusted for it, since the client sets no limit of its
own.

### Assumptions about what lies outside

`open()` on a socket that is closing does nothing; `send()` on one that is connecting
is kept until the connection stands, and lost on one that is down. One application
thread constructs, subscribes, unsubscribes and calls `processData`. Keys are read
once per process, so that signing always works or never does.

## Findings

1. **A destroyed client's sequence number judges the next one** (`abrupt_teardown`).
   The changelog says teardown clears the per-client sequence state; the
   destructor detaches the sockets, no DISCONNECTED record is written, and the
   entry stays. A client constructed at the same address has all its frames
   reported as gaps.
2. **Errors before the connection are dropped** (`errors`). `processData` looks the
   client up in a table that is empty until CONNECTED is read. A failed connection
   attempt is never reported in user-thread mode; in direct mode it is.
3. **A stop-limit order good until a time has no stop price** (`stop_limit`).

Remarks from reading the code, which no run shows:

* A timestamp's fraction may lose its last unit, where
  `tests/timestamp_parsing_tests.cpp` speaks of an exact one; `WithinOneUnit` says
  it is never more.
* `created_time` of an order is in milliseconds or nanoseconds depending on the field
  the exchange sent (`order.hpp:527`, `617`), where CHANGELOG.md:74 has nanoseconds
  everywhere; `end_time` is written from milliseconds and read as nanoseconds.
* FUTURES_BALANCE_SUMMARY is subscribed on the market socket, whose handler has no
  branch for it.
* Unsubscribing from HEARTBEATS stops those of the user socket as well, and a client
  that has only a user socket cannot stop its own.
* The awaitable client lacks `get_taker_fee_rate` and `get_maker_fee_rate`, where
  README.md:138 has it mirror every method.
* The product catalogue is fetched from the base URL of the first client of the process and
  serves the others, whatever theirs.

## Proofs

Checked by tlapm for every value of the constants, under the named assumptions
only (`SocketAssumption`, `UserThreadAssumption`, `LoggerAssumption` and the like:
producer ranges of four ids that do not overlap, bounds and ids that are natural
numbers).

* **`UserThreadFeedProofs`**: `TypeCorrect`; `RoutingCorrect` and
  `CalledForItsWriterCorrect`, for applications that drain a client before they
  destroy it and whose disconnected callbacks do not throw; both hypotheses are needed,
  as the finding and the note on `Throwing` show. `RoutedToOwner` is not
  inductive: that a CONNECTED record fills the right slots depends on who wrote
  it, and that its client is still alive when it is read. `RoutingInv` adds: live
  clients have different ranges (`OffsetsDiffer`), inside the vectors
  (`RangesCovered`) and mapped to their types (`PidsMapped`); destroyed clients
  have no open socket (`DeadIsDown`); every record in the queue is in a producer of
  its writer, who is alive (`QueueFromWriters`); and every announced connection, or
  one whose CONNECTED record is queued, is open or has its DISCONNECTED record
  behind it (`ConnectionsEnd`), which is why a drained client owns no slot. One
  lemma per kind of step keeps it.
  On top of it, under the same two hypotheses, `UserThreadKeepsContract`: the
  user-thread mode implements `FeedContract`, however many records lie in the queue
  between the socket and the application. `ContractInv` adds to `RoutingInv`: the
  records of a feed in the queue stand in the order of its connections and numbers
  (`QueueInOrder`), the reader with what it knows before all of them (`IsNews`), the
  socket behind (`IsPast`, `KnownIsPast`); whatever is written while a connection
  stands is read after its CONNECTED record (`RecordsAnnounced`); and the number
  `seq_nums_` keeps is the last one heard before the first gap (`NumberKept`). One
  lemma each for writing (`ContractAppend`), reading (`ContractRead`) and steps of the
  sockets alone (`ContractSocket`). `FirstFrameAcceptedCorrect` follows from the same
  invariant: a frame read with nothing heard before is read with `seq_nums_` reset,
  because its CONNECTED record was read before it. The run
  `abrupt_teardown` refutes it for clients that are not drained: the first hypothesis
  is what the code needs.
* **`DirectFeedProofs`**: `TypeCorrect`; and, for disconnected callbacks that do not
  throw, `SequenceCorrect` and `DirectKeepsContract`:
  the I/O-thread mode implements `FeedContract`, step by step, from an invariant that
  ties the handler's number to the connection.
* **`FrameDispatchProofs`**: `TypeCorrect`, and the three properties. For
  `OnceInOrder` the handler's place must be known: what was called is behind it
  (`Behind`). For `GapIsSticky`, that while the number a gap waits for has not come the
  number kept is the one before it (`GapHolds`). For `OnlyOwnEventsLost`, that in the
  frame that is open every event already passed was called (`OwnInv`), and that it
  lacks a field if the process has ended; what excuses a
  frame goes on excusing it (`Monotone`).
* **`SubscriptionsProofs`**: `TypeCorrect`, which has each channel on its own socket,
  and `HeartbeatsKeepUserCorrect`. The property speaks of what the exchange has on; the invariant
  `BeatInv` of what is on its way to it too: no message for the user channel is ahead
  of one for the heartbeats (`Kept`), and a socket that is up has them on or under
  way unless the running call still owes them (`Ready`). `HeldIsSubscribedCorrect`,
  from `HeldInv`: the property itself, that a socket that is down has nothing under way,
  on or held, and that `call.sound` says whether the socket of a call between two steps is
  still up, so that what the call adds to `held` is what it sends. `EffectiveSend`,
  `EffectiveTake` and their like say what one message more or less does to `Effective`.
* **`DataLoggerProofs`**: `TypeCorrect`, `FileCorrect` and `JoinCorrect`. `LoggerInv`
  adds that the file holds only positions read (`FileIsRead`) and how far the
  destructor must have got for the thread to be where it is (`StopOrder`): once the
  thread drains, the sockets are gone, so that what it finds empty stays empty of
  the client's frames.
* **`RestClientProofs`**: the eight safety properties of the `rest_client` run, each for every set
  of ids and number of pages. Three invariants: `RequestInv` (what is posted was not refused
  and is what `create_order` builds of its arguments, and the catalogue was set once, before any
  order), from which `SidesAreChecked`, `LegsAreKept` and `ReadsBack` follow by
  cases on the type of the order; `ReportInv` (reports name the ids asked about and claim
  only what was carried out); `CallInv` (the pages so far are, in order, the first ones without those
  that came bare (`Gathered`), and where the list stands while a page is asked for).
* **`AwaitableClientProofs`**: `OwnershipCorrect` and `CallsReachOwnUrlCorrect`, from
  `Ownership` with `UrlsAgree`: a synchronous client has the URL and domain its object shows.

* **`ConversionsProofs`**: the six properties of timestamps and prices, for every
  second, every fraction of nine digits, every price below the limit and every
  increment of the forms in `NumbersAssumption`. The two invariants (`TimestampsInv`,
  `NumbersInv`) say that the value is what the last text or price is converted to; the work
  is in the arithmetic. The recursive functions are unfolded by induction on a set of
  numbers (`SetInduction`, from the library's theorem that `<` is well founded), which
  gives what powers and repeated doubling modulo a unit are (`PowerOf2Sum`,
  `PowerOf10Step`, `DoubledModIs`) and that the exponents of `EndsBelow` exist
  (`DoublingsIs`, `BitsBelowIs`). `ThousandthsExact` is why milliseconds are exact: of an
  even number 1000 + 2i, times 2^52, the rest by 1000 is 0 or, for i up to 36, more than
  half; and above 1073 there is no power of two between half the spacing of the doubles
  and half a unit (`RestOfThousand`, `NoPowerBetween`). `FractionGrows` is why order is kept: a
  unit is lost only where there is no rest, so that a lesser fraction has fewer units. For
  prices, `FixedIs` and `RoundedNear` bound the two roundings, and `FixedGrows` and
  `RoundedGrows` keep the order.

What is proved about `EndsBelow` is about the closed form that stands for the
doubles; that it is what IEEE arithmetic does was compared and not proved (see
Timestamps).

Model-checked only: `CallReturns`, `ConnectionAnnounced`, `ClosureAnnounced`,
`DestructorReturns` and `CallEnds`, which are liveness under fairness and out of the
prover's reach. Every other property of a passing run has its theorem.

## Not modelled, and why

* Ring overwrite, shared memory and the second reading process: decided inside
  slick-net.
* Object lifetime: a client destroyed inside its own callback, the owner of the
  multiplexer destroyed before its readers, `logData` called twice.
* Two threads in one `UserThreadWebsocketCallbacks`, or in `product()` of the static
  catalogue: undefined behaviour of a vector and a map with no outcome to choose
  from; documented as one thread.
* The fields of answers other than an order's configuration: the readers of accounts, products,
  positions and the like have no state and no order to get wrong, and a field that fails
  to parse keeps its default.
* Zone offsets in timestamps: every text of the exchange ends in Z.
* Authentication, logging hooks: calls to libraries, no state but keys read once.

## Plan

Done, in this order: `ExchangeSocket`, `FeedContract`, `UserThreadFeed`,
`DirectFeed`, their proofs; `DataLogger` with proofs; `Timestamps`;
`FrameDispatch`; `OrderRequest`, `RestCalls` and `RestClient`; callbacks that throw;
`Subscriptions`; `Numbers` and `Conversions`; `OrderViews`; `AwaitableClient` with
proofs; proofs of `FrameDispatch`, `RestClient` and `Subscriptions`;
the proofs that the user-thread mode implements `FeedContract` and accepts the first
frame of a connection; `HeldIsSubscribed` and the six properties of `Conversions`.

Left:

1. An abstract specification of a list (whole, with pages missing, or nothing)
   implemented by `RestCalls`.
2. `Subscriptions` composed with `UserThreadFeed`: what a reconnection loses, told
   through the callbacks.

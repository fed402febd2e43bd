# Verification of the exchange matching engine

TLA+ models of the exchange in `src/`, checked with TLC and, where they hold
for every size, proved with TLAPS. Line numbers refer to the sources as they
are in the repository; `PROJECT.json` maps each definition to its lines.

    tlc -workers 2 -config <cfg> <module>     a run (the table below names both)
    tlapm RingBufferProofs.tla                the proofs
    tlapm OrderBookProofs.tla
    tlapm PriceTimeBookProofs.tla
    tlapm OrderBookFeedProofs.tla
    tlapm ConnParserProofs.tla
    tlapm ServerProofs.tla
    tlapm ExchangeProofs.tla
    tlapm ClientProofs.tla

## 1. The system and its parts

A server process of three threads, and any number of client processes:

    client --TCP--> kqueue thread --MessageSink--> engine thread --EventSink--> sender thread --TCP--> clients
                    setup_server                    consume_messages             run_sender
                    ClientState, parser             OrderBook::process           fd_to_state (mutex)

A client is a process of three threads as well:

    stdin --> main thread --TCP--> server --TCP--> receiving thread --EventSink--> printing thread --> stdout
              read_message, run_sender             run_parser                      consume_events

| Part | State | Operations | Hard behaviour |
|---|---|---|---|
| Ring buffer (`include/common/ring_buffer.*`), used for both sinks | `buffer_`, `head_`, `tail_`, `item_available_` | `push`, `pop`, `wait_pop` | lock-free, two threads, outdated loads, wrap-around, lost wakeups |
| Matching engine (`include/orderbook`, `orderbook`) | `bids_`, `asks_` (price levels with their order lists and totals), `order_look_up_`, `next_order_id_`, `trades_` | `process` of AddOrder, ModifyOrder, CancelOrder | four structures kept in step; sweeps over several levels; modify re-enters the matching; exceptions |
| Events (`order_event.h`) | the sequence pushed to EventSink | private ones (routed), public ones (broadcast) | a client has nothing else to know the book and its orders by |
| Connection reader (`client_state.cpp`, `msg_parser.cpp`, `recv_nb_til_limit`, the client branch of `tcp.cpp`) | the buffer and its cursors, parse state, pending header | one wakeup: compact, read, parse up to 4 messages | messages cut anywhere; buffer full; unknown messages; end of stream |
| Accept loop and connection map (`tcp.cpp`) | `fd_to_state`, the listening socket | accept, disconnect, shut down | map shared with the sender; fd numbers re-used |
| Sender (`event_sender.*`) | none of its own | route a private event by fd, broadcast a public one | non-blocking sockets, partial sends, peers that are gone |
| Server main (`multi_server_kqueue.cpp`) | `running` | start and join the threads | draining at shutdown |
| Client (`client.cpp`, `event_parser.cpp`, `input_handler.cpp`, `event_consumer.cpp`) | its socket, `running`, an EventSink | read and send orders, receive and print events, quit | three threads and one flag; the end or a reset of the connection, quit while blocked in `recv`; broken input |
| Wire protocol (`protocol.h`) | none | (de)serialise packed structs | fields in another order than the prompt has; enums cut to a byte; both ends must agree on every size |

What makes each part correct:

- **Ring**: everything accepted is handed out once, in order; the two threads
  never touch the same slot; in block mode permits and items agree.
- **Engine**: the look-up and the level lists describe the same orders; totals
  are the sums of their orders; the book is not crossed; fill-or-kill is all or
  nothing; price-time priority; every message is answered.
- **Events**: depth, trades and the fate of the orders, as a client concludes
  them from the events, are those of the book.
- **Reader**: the known messages of the stream, each once and in order, however
  the stream is cut; the reader never stops reading.
- **Accept loop, sender, main**: the map is never changed during a broadcast and
  follows the open descriptors; a client's answers come in the order of its
  messages; a broadcast reaches everyone who is connected; a private event
  reaches the client that caused it and no other; every thread ends.
- **Client**: the events received are those sent and the orders sent those
  typed, field by field; every event accepted is printed; the end of the
  connection ends both threads, and the quit command the process.

The hazards of each part, at their lines, are listed in `PROJECT.json`.

## 2. The modules

| Module | Models | Depends on |
|---|---|---|
| `Fifo` | abstract: a bounded queue, as the histories of what was accepted and handed out | |
| `RingBuffer` | the ring, one step per atomic operation | `Fifo` (refined) |
| `MCRingBuffer` | instance; compares `NextSlot` and `Distance` with the masks of the code | `Bitwise` |
| `RingBufferProofs` | theorems | `RingBuffer` |
| `Orders` | the vocabulary of the engine: orders, requests, events | |
| `PriceTimeBook` | abstract: a set of resting orders, of which the best on price and then the oldest trades first, with the events of every step | `Orders` |
| `OrderBook` | the engine | `Orders`, `PriceTimeBook` (refined) |
| `OrderBookProofs` | theorems: types, the look-up, no crossing, totals, fill-or-kill | `OrderBook` |
| `PriceTimeBookProofs` | theorem: the engine implements `PriceTimeBook` | `OrderBookProofs` |
| `OrderBookFeed` | `OrderBook` with observers of its events | `OrderBook` |
| `MCOrderBookFeed` | instance; symmetry of the connections | |
| `OrderBookFeedProofs` | theorems: what clients conclude, price-time priority | `OrderBookFeed`, `PriceTimeBookProofs` |
| `EventLists` | `OrderBook` with the events of a whole message, against the lists of `README.md` | `OrderBook` |
| `ConnParser` | one connection's reader, with its peer | |
| `MCConnParser` | instance; sizes and streams | |
| `ConnParserProofs` | theorems | `ConnParser` |
| `Exchange` | abstract: the server as its clients see it, one mailbox of events with one set of members | |
| `Server` | the three threads of the server, its two rings, the connection map and its mutex, the clients and the kernel's descriptors | `Exchange` (refined); stands on what `Fifo`, `OrderBook` and `ConnParser` say of its parts |
| `ServerProofs` | theorems: types, the map and its mutex, where private events go, what broadcasts reach, the order of a client's answers | `Server` |
| `ExchangeProofs` | theorem: the server implements `Exchange` | `ServerProofs` |
| `Wire` | the frames of events and orders: layouts, serialise, deserialise | |
| `Client` | the three threads of the client, its ring and its flag, the user, the connection | `Wire`; its ring stands on `Fifo` |
| `MCClient` | instance; streams of events, sessions of entries | `Client` |
| `ClientProofs` | theorems | `Client` |

Operators named after a fault (`PushPublishUnmasked`, `EraseKeepsLevel`, ...)
and commented "Seeded fault" are used by no specification: each is a variant of
the definition after it, with a bug that code could plausibly have, and
`PROJECT.json` pairs it with the property that has to detect it.

### RingBuffer

`buffer`, `head`, `tail`, `sem` are the members of the class. `ppc` and `cpc`
say which operation of `push` or `pop` a thread does next:

| Step | Code (`ring_buffer.tpp`) |
|---|---|
| `PushLoad` / `PushFull` | 27-33: loads, the test for a full ring, passed or not |
| `PushWrite`, `PushPublish`, `PushRelease` | 34, 35, 36 |
| `Acquire` | 57: `try_acquire_for` succeeds (a timeout changes nothing) |
| `PopLoad` / `PopEmpty` | 42-48: loads, the test for an empty ring |
| `PopRead`, `PopAdvance` | 50, 51-52 |

A thread's load of the *other* index is an acquire load of a variable with one
writer: it may return any value between the last one it has seen (`seenTail`,
`seenHead`) and the current one. `Views` is that set. So the model covers what
the memory orders of the code allow, not only sequential consistency.
A successful acquire of the semaphore synchronises with the releases before
it; `Acquire` therefore sees at least `ReleasedHead`. `pushed` and `popped` are
histories; `MaxPushes` bounds them. `waitMode` is what `WAIT_MODE` chose at the start.

### OrderBook

`levels`, `queue`, `total` are the keys, the lists and the totals of the two
maps; `resting` holds the orders behind the list iterators, `lookup` is
`order_look_up_`. A message is several steps, so that what has been announced
part-way through a sweep is seen:

| Step | Code |
|---|---|
| `ProcessAdd` | `process(AddOrder)`, `Order::Order`, the head of `add_limit_order` with the fill-or-kill test |
| `ProcessModify`, `ModifyThrows`, `ModifyUnknown` | `modify_order`: replacement built, old order cancelled, replacement entered |
| `ProcessCancel`, `CancelUnknown` | `process(CancelOrder)`, `cancel_order`, `cancel_order_side` |
| `ExecuteTrade` | one iteration of a matching loop: `execute_trade`, `fill_front_order`, the erasure of an empty level |
| `Settle` | return without resting |
| `Rest`, `RestThrows` | `add_order_to_side`; the constructor of `PriceLevel` throws |
| `Reply` | the `switch` of `process(AddOrder)`, the end of `process(ModifyOrder)` |

`emitted` holds the events pushed by the last step. An exception leaves
`process()` and the thread; the model stops in `phase = "terminated"`.
Prices and quantities are integers without a width. Fields that are only carried
along (client order id, sequence number) and the `trades_` vector, which only
tests read, are left out. A byte of a message that is no member of its enum
(the parser casts without a check) is not modelled.

### PriceTimeBook

What the engine promises, without its data structures: `book` is the set of resting
orders, `ahead` the pairs of orders at one price of a side of which the first came first.
No levels, no look-up, no running totals, no iterators, no status, no per-level erasure.
A depth is what the orders at a price have left together; the maker of a trade
is an order that `GoesBefore` every other of its side; a fill-or-kill order is
entered for matching only if the orders `Within` its price have enough; the answer to a new order is
read off what is left of it (`Outcome`), where the engine goes by the status of
`AddOrderResult::from_match`. The events are part of the promise, each step with its own:
those the code pushes and its tests expect (`test/test_event_pipeline.cpp:93-94`), which are not
those of the worked example in `README.md:252-273` (section 4).

`OrderBook` is mapped to it by `Ideal`: the orders of the look-up (`Book`), the pairs
within the lists (`Ahead`), the ids below `next_order_id_` as `used`, and the order being
matched as `taker`; `request`, `phase` and `emitted` are the same in both. Every step
of the engine is one step of `PriceTimeBook`, so the grain of a message's steps is the same.
What the engine does at its edges is there too and is not smoothed over: a
price or quantity of 0 or below ends it, a modified order enters again as the last at its
price, and the answers are those of the findings in section 4.

### OrderBookFeed

Adds observers that follow `emitted`: `mirror` applies the book updates, `told`
keeps what an owner knows of its order, `placed` and `traded` add up the trades,
`older` holds the pairs of resting orders of which the first has been at rest for
longer. It restricts nothing: the observers are functions of the step. `untracked` names the orders
whose owner the engine does not keep informed: modified ones, market orders
(section 4) and those another connection cancelled. That the owner of a modified order is not
told of its fills is what the code does (`order_book.tpp:289`); no document says otherwise.

### EventLists

One observer, `said`: the events of the message at work, or else of the last one, in order. The
worked example of `README.md:252-273` lists them for five messages; three of its lists (an
order that comes to rest, twice, and a cancel) are what the engine pushes, the other two are not
(section 4).

### ConnParser

A byte is its offset in the stream the peer sends, so that the buffer shows
which bytes it holds; a header is the number of the frame it starts. The frames of
a stream name the offset they start at (`start`). A wakeup is
`WakeupReads` (`pre_check`, the budget, `recv_nb_til_limit`) or `WakeupCloses`,
then one step per call of `parse_message`. Readiness is level-triggered
(`EV_ADD` without `EV_CLEAR`). The peer sends any number of bytes at a time and
may end with FIN or RST at any moment. The loop's own test of `running`, other
connections and a full MessageSink are not part of this module.

### Server

| Step | Code |
|---|---|
| `KqTest` | 106: the loop tests `running`, when all events are served: on to `kevent()`, or to the shutdown |
| `KqWait` | 107-114: `kevent()` returns the batch of what is ready, none after 100 ms; it is served also if `running` was cleared during the wait |
| `KqAccept`, `KqAcceptFails`, then `KqLock`, `KqInsert` | 119-151; the kernel hands out the lowest free number |
| `KqRead`, then `KqPush` per message | 153-166, `stamp_message`, `sink.push` |
| `KqClose`, then `KqLock`, `KqErase` | 159-163: close first, erase under the mutex after it |
| `KqLock`, `KqClear` | 171-181 |
| `EnginePop`, `EngineStop` | `consume_messages`; with the pop, an order that is modified or cancelled leaves the book (`cancel_order`) |
| `EngineTrade`, any number of times | `execute_trade` |
| `EngineFinish` | the end of `process`: what is left of the order comes to rest or not, and the answer |
| `EnginePush` per event | `add_private_event`, `add_public_event` |
| `SenderPop`, `SendPrivate` | `run_sender`, `send_event_private` |
| `SenderLock`, `Broadcast` per fd, `SenderUnlock`, `SenderStop` | `send_event_public` |
| `SendTo` | `send_all`: written, EBADF, EAGAIN before or within the frame, a peer that is gone |
| `Connect`, `Send`, `Leave` | the client processes; external |
| `Stop` | `running = false`: the tests' teardown; `main` itself never does it |

The parts that have modules of their own appear as what those promise. A ring is
a bounded sequence whose push fails when it is full (`Fifo`). A wakeup delivers
the first of the messages sent so far, none to all of them, in order (`ConnParser`,
whose limits and cuts between reads decide how many). The engine (`OrderBook`) works on a
message (`taken`) by matching an `order`: the message's own or none (`EnginePop`, first case), or
one that rests, by anybody, which the message modifies or cancels and which leaves the book with
a book update (second case). It then trades with any number of resting orders, one after the other: trade,
book update, and an event to the owner of the resting order, which is filled or not, in the
order of `execute_trade`. Last, what is left of `order` comes to rest with a book
update or does not, and the answer goes to the connection of the message, also
where the order is another client's. Which of these happens is left open: prices and
quantities are those of `OrderBook`. The engine's pushes are steps of their own
(`pending`), and the other threads run between any two. A frame carries the client it concerns, for the
properties; the code routes by `fd` alone, and so does the model. What is written to
a client's socket is kept as two histories: `delivered`, the private frames and
those that were cut, and `heard`, the numbers of the public events.

A consumer's test of `running` and of its ring is one step, though the code reads
them one after the other: `running` never becomes true again, so that the
outcome is that of the second read. After a send to a peer that has left,
`alive` may become false (SIGPIPE). `accepted`, `refused`, `lost`, `broadcasts`
and `joined` are histories.

### Exchange

What the server is to its clients, without its threads, rings, descriptors, readiness,
batches and mutex. `inbox` is the set of messages sent and not yet processed or dropped,
`mail` the sequence of events made and not yet dealt with. Messages are processed one after the
other, each client's in the order it sent them: `Take` removes one from the inbox, with the order it
replaces or cancels, if any, from those that rest; each `Trade` puts its two public events and the
word to the owner of the resting order into the mail; `Finish` the answer, with the book update
of an order that comes to rest. The
first event of `mail` goes to the client it concerns (`Deliver`), or to those who
are `members` when its turn comes, one by one (`StartCast`, `CastTo`, `EndCast`);
nobody becomes a member in between.

`Server` is mapped to it by `Ideal`: the inbox is what lies in the sockets, in the wakeup's
hands (`parsing`) and in MessageSink (`Inbox`); the mail is the event in the sender's hands,
EventSink and what the engine has still to push (`Mail`); the members are the clients at the
end of the descriptors in `fd_to_state` that are open (`AtEnd`), so that a closed connection
that is still in the map is none; `stage`, `taken` and `order` are the engine's. Waiting, reading, locking and erasing in the kqueue thread,
a push that succeeds, and the sender's pop are steps nobody sees.

What the code loses is lost in `Exchange` too, and only there. `Refuse`: a message,
where at least `SinkSize` others are in the inbox. `Lose`: an event behind at least `SinkSize`
others. `Close`: what a client that has left had sent and nobody has read. `GivenUp`: a frame, or the
rest of one, at a full socket. `Killed`: the process, by SIGPIPE, while somebody has left
whom it still sends to. `Deliver` sends an event to another client than the one it concerns only if the
connection of the latter is closed.

### Wire and Client

A stream is a sequence of fields: the two of the header, then those of the packed
struct. A field of several bytes is copied as it is (both ends run on hosts of
the same byte order), so it is one unit, and `Len` counts units, not bytes. What is
kept is what could be wrong: which field is where in which struct, the tags, the
two conversions of the sides, and the byte to which the wire cuts an enum of an order.

| Step | Code |
|---|---|
| `ReadMessage` | `read_message`: the fields in the order of the prompt. After a word that is no number, `operator>>` stores 0 (or the limit, for a number too large) and assigns none of the fields behind it: they have any value of `Junk` |
| `SendMessage` | `run_sender`, `send_msg`, `send_all`: sent; after a FIN, answered with an RST or not; after an RST, an error or SIGPIPE |
| `Quit`, `JoinReceiver`, `JoinPrinter` | `client.cpp:40`, 42, 43-44 |
| `RecvLoop` | `event_parser.cpp:27`: the test of `running` |
| `RecvHeader`, `RecvEnd`, `RecvFails` | 28-45: a header, the end (clears `running`), an error (does not) |
| `RecvPayload`, `PayloadFails` | `recv_payload`, `deserialise`, `sink.push`, whose result is ignored |
| `Consume`, `ConsumerEnds` | `consume_events` |
| `ServerSends`, `ServerCloses`, `ServerResets` | the server and the network; external |

What arrives is whole frames: a header or payload that is not complete makes
`recv_all` wait, as an empty stream does. An end in the middle of a frame is the same to
the code as one before it, except that a payload cut short by an *error* is
reported like any other. A reset may drop what has arrived and not been read.
The user types entries: a command with its numbers, of which the first `good` are
numbers; answers to the prompt that are no command change nothing. `sent`, `received`,
`printed`, `entries` and `posted` are histories.

The test `running || !sink.empty()` is one step: `running` never becomes true
again, so that the loop goes on or ends by what the second read finds. In block
mode a `wait_pop` ends after 50 ms without an event, so that both modes repeat the test.

## 3. Runs

| Run | Module, cfg | Question |
|---|---|---|
| `ring` | `MCRingBuffer`, `RingBuffer` | bounded FIFO, no race, permits against items, all delivered; in both wait modes |
| `engine` | `OrderBook`, `OrderBook` | consistency of the book at every step and where exceptions end a message; every message ends; the engine implements `PriceTimeBook` |
| `feed` | `MCOrderBookFeed`, `OrderBookFeed` | events against the book; price-time priority |
| `feed_market` | `OrderBookFeed`, `OrderBookFeed_market` | finding |
| `event_lists` | `EventLists`, `EventLists` | finding |
| `reader` | `MCConnParser`, `ConnParser` | framing, order of the bytes, progress |
| `reader_burst` | `MCConnParser` | finding |
| `server` | `Server`, `Server` | map, descriptors, broadcasts and order of the answers while clients come and go and rings fill up; the server implements `Exchange` |
| `server_live` | `Server`, `Server_live` | while the server may stop: map and broadcast apart; every accepted message is answered; the three threads end |
| `server_reuse`, `server_slow` | `Server` | findings |
| `client` | `MCClient`, `Client` | fields of events and orders on their way, nothing accepted unprinted, the threads' end |

**Bounds and why they suffice.**

- Ring: capacity 4 and 6 pushes: both indices wrap around, the ring fills up
  (3 items) and empties again, with two distinct items, so that a lost, repeated
  or reordered one shows. The safety properties are proved for all sizes.
- Engine: 3 orders, 3 prices, 2 quantities, and 0 for both, one connection (the engine compares
  no connections): a sweep over two levels with a partial fill, a cancel from the
  middle of a level, a modify that crosses, orders re-entering at the back,
  fill-or-kill with too little depth inside the limit and enough beyond it.
  Modifies and cancels are not bounded.
- Feed: 2 connections (symmetric), 3 orders, 2 prices: two makers at one price
  and a taker, a cancel of another's order. Prices and quantities are positive here: what an
  exception leaves behind is in `engine`.
- Reader: a buffer of 8 bytes, budget 6, header 1, payloads of 1, 3, 0 and 7
  bytes, 2 messages per wakeup, every stream of 3 of these frames. As in the code
  (header 3, payloads 8, 24, 27, budget 256, buffer 1024, 4 messages), a read
  can bring more than the limit lets through, and a full buffer can end in the
  middle of a message. The 7-byte frame fills the whole buffer, the largest
  that fits.

- Server. `server`: rings of 2 items, so that EventSink overflows and MessageSink is
  filled; 2 clients and 2 descriptors, of which the second client gets either, the first again
  once its owner has left; one client sends two messages, which are read in one wakeup or in
  two, and trade with, replace or cancel each other, and may leave; the other's socket may be
  full. `server_live`: rings of 1 item, so that both overflow; 2 clients on 1 descriptor, for
  want of which `accept` fails; they send one message each and trade with each other; one may
  leave; the server may stop at any moment. The safety properties are proved for every
  number of clients, descriptors and messages and every size of the rings.
- Client: a ring of 1 event, so that it is full while the next event comes in; four
  streams of three events that hold every kind, both sides and the largest reason,
  every field with a number of its own; four sessions of two entries with all
  commands, input broken off after one or two numbers, and an enum beyond a byte.
  The connection may end or be reset, and the user quit, between any two steps.
  All but liveness is proved for every stream, session and ring.

**Deadlock** is checked in `feed`. It is not where the system may really stop:
`ring` (once the bounded pushes are consumed, a waiting consumer sleeps), `engine`
(an exception has ended the process), the readers (the peer has closed, or has
nothing more to send), the server (the clients have sent everything, or the
process has ended), the client (it has ended, or nobody types or sends).

**Fairness.** Ring: a push that has begun ends, the consumer's loop goes on, and
a repeated load returns the current value in the end (a store becomes visible in
finite time). Nobody has to push. Engine: the thread goes on with the message it
has begun; no message has to arrive. Reader: the kqueue loop goes on; the peer
owes nothing, not even the rest of a message. Server: each of the three threads
goes on; clients owe nothing and nobody has to stop the server. Client: a message
that has been read is sent, a join returns when its thread has ended, the receiving
and the printing thread go on; the user types and the server sends what they like. The fairness of
a thread is weak also where it waits for the mutex: the messages are bounded,
so the other thread takes the mutex finitely often. On an unbounded load the
progress of the waiting thread would need a fair mutex, which `std::mutex` does not
promise.

**What the passing runs show.** The book's structures agree after every trade of
a sweep; what clients are told adds up to what happened; the reader delivers
exactly the messages of the stream, in order. The server keeps its map in step
with the descriptors and its broadcasts complete while clients come and go;
as long as a connection is open its private events go nowhere else; and whatever the
interleaving of its threads, clients see what one mailbox would do. A client's
bytes arrive as what they were sent as, in both directions, and the three threads
of a client end in an orderly way when the server closes the connection. `OwnerKnowsOpenQuantity` and
`DepthFeedIsBook` assume that no event is lost, which the code does not
guarantee (`push` results are ignored: section 4).

## 4. Findings

Each of these is a run in which TLC finds the violation.

| Run | What the code does |
|---|---|
| `feed_market` | a partly filled market order with GoodTillCancel is announced as resting with its remainder, though market orders never rest (`order_book.tpp:267`; `test/data_driven.cpp:368`, `:373`) |
| `event_lists` | of an order that is filled against a larger one `README.md:257-259` lists `TradeExecuted`, `BookUpdate{Buy,100,5}`, `OrderFilled{order_id=2}`, `BookUpdate{Ask,100,0}`; the engine never pushes the last, the filled order having no depth of its own, and pushes `OrderRested` to the owner of the larger order before `OrderFilled` (`order_book.tpp:184`). The tests expect what the engine does (`test/test_event_pipeline.cpp:93-94`) |
| `reader_burst` | messages left over by the limit of 4 per wakeup wait until the same client sends again (`msg_parser.cpp:132`; `README.md:70`) |
| `server_reuse` | an event for a client that has left goes to the client that got its descriptor number (`event_sender.cpp:14`; `README.md:207`) |
| `server_slow` | EAGAIN makes `send_all` give up, possibly within a frame; the connection goes on, misframed (`socket_utils.h:24`; `event_sender.cpp:27`) |

Further disagreements are stated at the end of their modules and are no regular
runs: named as an INVARIANT in a cfg of its module (with the constants given
here), each is violated too.

| Predicate | What the code does |
|---|---|
| `EngineSurvives` (`OrderBook`) | a quantity or price of 0 or below ends the server with an uncaught exception (`order.cpp:22`, `price_level.cpp:6`); the reason InvalidParams exists (`order_event.h:16`) and is unused |
| `ModifyAsListed` (`EventLists`) | for a modify that trades with nothing `README.md:266-267` lists `OrderModified` alone; the engine pushes two `BookUpdate`s before it, of the level the order leaves and of the one it comes to rest at (`order_book.tpp:222`, `:224`) |
| `UnknownIsDrained` (`MCConnParser`, streams `Oversize`) | an unknown message longer than the 1024-byte buffer stops its connection for good (`msg_parser.cpp:107`; `README.md:91`) |
| `EndLosesNothing` (`MCConnParser`, streams `Burst`) | messages that arrive together with the end of the stream are dropped (`socket_utils.h:70`; `README.md:70`) |
| `CompletedIsPushed` (`Server`) | a message is dropped without an answer when MessageSink is full (`msg_parser.cpp:119`; `README.md:70`) |
| `EveryPublicIsBroadcast` (`Server`, two senders of two messages) | a trade or book update is dropped when EventSink is full (`order_book.tpp:318`; `README.md:220`) |
| `ServerSurvives` (`Server`, with leavers) | SIGPIPE, which nothing handles, ends the server when it sends to a client that has left (`socket_utils.h:22`; `event_sender.cpp:35`) |
| `SinksDrained` (`Server`, `MayStop`) | a consumer ends before its producer and leaves items in its ring (`event_sender.cpp:6`; `README.md:71`, `:72`) |
| `QuitEndsAlone` (`MCClient`) | quit waits in `join` until the server sends something or closes the connection (`client.cpp:42`; `README.md:273`) |
| `BadInputIsNotSent` (`MCClient`) | a command with a word that is no number is sent, with indeterminate fields (`input_handler.cpp:25`; `input_handler.h:5`, `README.md:75`) |
| `ServerResetSeen` (`MCClient`) | after an error of `recv`, unlike after the end of the stream, `running` stays set and the printing thread goes on (`event_parser.cpp:31`) |
| `AllPrinted` (`MCClient`) | an event is dropped without a word when the ring is full (`event_parser.cpp:48`; `README.md:77`) |

## 5. Proofs

All theorems are of the form `Spec => ...` and hold for every value of the
constants that satisfies the named assumptions.

**RingBufferProofs** (`CapacityAssumption`: the capacity is a power of two, as
the `static_assert` of the class demands, up to 2^30; `OtherAssumption`).

- `TypeCorrect`, `FifoCorrect`, `RaceFree`, `PermitsCorrect`: invariants.
- `PermitsUsed`: the action property `PermitNeverWasted`.
- `ImplementsFifo`: the ring refines `Fifo`. `FifoOrder`, the invariant behind it, is no
  property of a run of its own: it compares the slots with the histories `Fifo` is stated in,
  and what breaks it breaks `QueueSpec`.

The inductive invariant `Inv` adds to the properties what the threads may rely
on. `ViewsLag`: the consumer's view of `head_` lies between `tail_` and `head_`,
the producer's view of `tail_` behind it. `ProducerPassed`, `ConsumerPassed`: a
thread beyond its test has a view that passes it. Together they give the free
slot (`FreeSlot`): the slot about to be written is none of the occupied ones,
however outdated the view. `PermitSeen` says the same of a consumer that has
taken a permit. `RaceFree` is a consequence of `ConsumerPassed`: a consumer
that reads has the ring non-empty, so `head` and `tail` differ.

**OrderBookProofs** (`BookAssumption`: prices and quantities are integers; 0 and
negative ones included).

- `TypeCorrect`, `LookupCorrect`, `NeverCrossed`, `IdsUnique`. The last, that the look-up
  insertion never fails (`NeverFailed`), is no property of a run of its own: a step that
  answers a failed insertion is none of `PriceTimeBook`, so `BookSpec` has it in the run.

`IInv` is the conjunction of these with `RestingInv` (an order in the look-up has
its data, under its own id) and `IdInv` (ids from `next_order_id_` on are unused,
and an order being matched is not in the book). Types alone are not inductive:
that the front of a level is a real order needs the agreement of list and
look-up. `Uncrossed` rests on `MatchingDone` when an order comes to rest: no price of
the opposite side crosses any more. The lemmas `AppendList`, `RemoveList` and
`TailList` say what the three ways to change a list do to its elements; every
action's step cites them.

- `TotalsCorrect`: a total is a fold over a set, and a fold is a recursive function on
  sets. What a sum is (`SumRec`, `SumSplit`, `SumSame`) is proved without an induction
  theorem: the sets that lack a property have, if there are any, a least one
  (`LeastSet`: strict inclusion of finite sets is well-founded), and that one leads to a
  contradiction. `SumMoves` says how a sum moves when one order comes, goes or
  changes; `TotalsStep` turns that into the step of a total, and the cancel, the
  resting and the trade are its instances.
- `FillOrKillAtomic`: `KillInv` says that while a fill-or-kill order is matched, the
  depth it can reach is at least what it has left (`DepthSuffices`). A trade lowers both by
  the same quantity (`TradeDepth`). When it erases a level, the depth loses that level's
  total, which is then 0 only because totals are those of the orders
  (`TotalsMatchOrders`). When the loop ends nothing is reachable, so nothing is left.
  `NoKillRests` is needed for modify, which would otherwise enter one without the test.

**PriceTimeBookProofs**

- `ImplementsPriceTimeBook`: the engine refines `PriceTimeBook` (`InitIdeal`, `NextIdeal`).

The invariant is `EngineInv`: `IInv`, `TotalsMatchOrders` and `KillInv` with two more.
`PlaceInv`: an order rests at the price its location says. `RoundInv` relates
what `process` carries from step to step to the order itself: nothing is held between
messages (`IdleInv`), what was executed and what remains are what the message asked for
(`QuantityInv`), and each status of the result means one state of the order and of
the other side (`StatusInv`). The totals are needed because an announced depth
is a total of the engine and a sum over orders of `PriceTimeBook`; `StatusInv`,
because the answer is chosen by status in the one and by quantity in the other.

From these, `Shape` reads the two variables of `PriceTimeBook` off the engine:
the depth of a price is the sum over its orders (`DepthIs`), and the orders ahead of
each other are those of one list (`AheadIs`). Then there is one lemma per way the
engine changes the book (`EraseLeaves`, `TradeBook`, the resting in `RestIdeal`) and one per action
(`AddIdeal`, ..., `ReplyIdeal`) that names the step it is. How the three changes of a list
move the order in it is `RemoveOrder`, `TailOrder`, `AppendOrder`.
Three arguments carry the rest:

- `ReachIs`: the fill-or-kill test. The engine adds up totals of levels, `PriceTimeBook`
  quantities of orders; `SumGroups` says that a sum over a set is the sum of the sums over its
  groups, again by a least counterexample (`LeastSet`), with `SumUnion` for its step.
- `HeadIsFirst`: the front of the best level goes before every other order of its side.
- `AnswerIsOutcome`: the switch over the statuses says what `Outcome` says.

**OrderBookFeedProofs**

The inductive invariant `FeedInv` is the engine's (`IInv`, `TotalsMatchOrders`,
`KillInv`) with the properties and what they rest on:

- `DepthCorrect`: every step changes one level at most and announces that level, with the
  quantity it then has (`LevelAnnounced`). For a level that goes, that the
  announced quantity is 0 needs the totals.
- `FillsCorrect`: `MatchedInv` has the account of the order being matched: what was
  traded of it is `executed`, and with what remains it is what was placed.
- `AnswersCorrect`: `AnswerInv` says what each status means for the order when
  `process` comes to answer it: rejected is unexecuted, filled has nothing left, and
  the order is in the book if, and only if, it should rest.
- `OwnersKnow`: `OwnerInv` adds that the connection an order carries is its owner's.
- `PriorityCorrect`: an action property, from `AgeInv` (the order within a list is the
  order of age, pair by pair) and `PlaceInv` (an order is at the price its location
  says). `OrderSteps` says that no step of the engine puts an order before one that was
  there, whatever it removes; `HeadFirst`, that the maker is before all others.

**ConnParserProofs** (`ParserAssumption`: sizes and limits are positive, every known
message fits the buffer, a peer announces the sizes of known messages as they
are, and the frames of a stream lie one behind the other).

- `TypeCorrect`, `BufferCorrect`, `FramingCorrect`. The three properties are inductive
  together and not one by one: that the header parsed is the next frame's
  (`HeaderIsNext`) needs the byte at the cursor (`BufferHoldsStream`) and the place
  the parser has come to (`Framing`); that the cursors stay ordered after a frame
  needs that header. `PreCheckKeeps` says that `pre_check` moves the bytes that wait
  and changes none, `Take` that consuming a prefix leaves the rest in place.
  `UnknownIsDrained` is not among them: an unknown message of any size is allowed
  for, and one larger than the buffer stops the connection (section 4).

**ServerProofs** (`ServerAssumption`: descriptors are positive numbers, 0 stands
for the listening socket, `Nobody` is no client).

- `MapIsGuarded`: from `MutexInv`, the holder of the mutex is the thread within a
  critical section.
- `MapFollowsDescriptors`: `HandInv` adds to the property which descriptor is in
  the hands of the kqueue thread (open while it accepts, closed while it closes)
  and that no event is left to serve once the shutdown begins. That the batch
  is part of the map is kept because `accept` hands out a number that is free,
  and each reported number is served before `kevent` is called again.
- `TypeCorrect`: rings stay within `SinkSize` and hold what their consumer
  expects. `BusyInv` adds that the heads the threads take exist and that a
  broadcast has a public event in hand; that a connection's descriptor is in
  `Fds` when it enters the map comes from `HandInv`.
- `MisroutingNeedsClosing`: `RouteInv` says of every message and event on its way
  that it is `Aimed`: its fd belongs to the client it concerns, or that client's
  connection is closed. This is stable (`AimedStable`) because `accept` hands out
  a number that is free, one is freed only by closing its client, and what is
  closed stays closed. `NetInv` (every open descriptor has a client of its
  own) makes "its client" unique. `RouteInv` follows a message through the rings and the
  book: a maker's fill carries the fd its order came with (`EngineCarried`).
- `BroadcastsReach`: holds between broadcasts only; `CastInv` says in addition how far
  the loop has come (`Due`: an entry of the map that is no longer a target has this
  event too), and that a client that is not in the map yet has heard nothing.
  The loop is over the map as it was when it began; that it is still the map at
  its end is `MutexInv`. An insertion happens between two broadcasts for the same
  reason, so that nothing of the one before and all of the one after is due.
- `AnswersInOrder`: `QueueInv` orders a client's messages from the socket over `parsing` to
  MessageSink. `OrderInv` follows the events: what the engine has made, queued or
  delivered is about messages it has taken (`Past`), so every answer still to be
  made is about a later one. While it is at work on a message, so are the order it matches and
  those that rest (`WorkInv`): a fill made before the answer that is announced
  (`Announced`), if it is for the same client, is about an earlier message. A modified order that comes
  to rest again keeps its own number. The same holds between `pending`, EventSink, the
  event in the sender's hands and what has been delivered (`Ahead`). A push that
  fails or a frame that is not sent leaves a gap and disturbs no order.

**ExchangeProofs**

- `ImplementsExchange`: the server refines `Exchange` (`InitIdeal`, `NextIdeal`).

The invariant is `ServerInv`: the types, the map and the mutex (`Known`), `NetInv`, `RouteInv`,
`CastInv`, `QueueInv` and `OrderInv` of `ServerProofs`, with `MailInv`: `parsing` is
empty but while the kqueue thread is at work on it, no message rests twice, and the one whose
order is matched does not rest. The inbox is finite (`InboxFinite`), which `Refuse` needs to count.

There is one lemma per action (`SendIdeal`, `InsertIdeal`, ..., `PrivateIdeal`,
`BroadcastIdeal`) that names the step of `Exchange` it is, or that it is none (`Unseen`).
What they rest on:

- The mail is a concatenation, mapped to frames event by event. `FramesJoin`, `FramesHead` and
  `FramesWithout` say what adding events, taking the first and dropping one
  in the middle do to the frames; `MoveHead`, that a push which succeeds moves an
  event from `pending` to EventSink and nothing in the mail.
- `FullInbox`: when a push to MessageSink fails, the ring's `SinkSize` messages are so many
  *different* members of the inbox besides the one refused. That they differ is the order of `QueueInv`;
  that so many are counted, an injection from the ring's indices. `PushLost` is the same
  for events, where positions in a sequence need no counting.
- `PopIdeal`: the first message of MessageSink is its client's first in the inbox, from `QueueInv`.
- `TradeIdeal`, `PopIdeal`: the book holds each message once (`RestsWithout`), so that removing a
  resting order removes it from the mapped book. `FinishIdeal` puts one back that is not in it.
- `PrivateIdeal`: the client at the end of the event's descriptor is the one it concerns,
  or that one's connection is closed (`RouteInv`, the argument of `MisroutingNeedsClosing`); where the descriptor is
  not open, that client has left or is closed.
- `BroadcastIdeal` and the steps of the kqueue thread: an entry of the map changes
  only outside a broadcast (`MutexInv`), but a connection may close during one; its client then is
  neither a member nor due, and the sender's later send to the closed descriptor is a
  step nobody sees.

**ClientProofs** (`ClientAssumption`: streams and sessions are sequences of events
and entries; the ring has room for one).

- `EventRoundTrip`: `deserialise` undoes `serialise`, for every event of every kind.
- `TypeCorrect`: that the receiving thread puts events into the ring needs that
  the type in hand is known when a payload is read (`TypeInv`), whatever arrives.
- `ReceivedCorrect`: `StreamInv` says what the bytes in flight are: the frames of
  the events sent and not received, one behind the other (`Framed`), the first
  of them without its header while the receiving thread waits for the payload;
  or nothing, once a reset has dropped them. Each end of the stream has its lemma
  (`FramedMore`: a frame is added, `FramedLess`, `FramedNext`: one is taken), and
  `EventRoundTrip` turns the frame at the front into its event.
- `PostedCorrect`: `InHand` adds what has been read and not been sent.
- `NothingLeftBehind`: `EndInv` adds that `running` is cleared by the quit command, or
  by the receiving thread as the last thing it does.

**Only model-checked.** Liveness (`AcceptedIsDelivered`, `Answered`, the
reader's progress, `AcceptedIsAnswered`, `AllThreadsEnd`, `AcceptedIsPrinted`,
`QuitEnds`, `ServerEndSeen`): fairness is beyond the prover. Every
invariant and every action property of the runs is proved.

## 6. Not modelled, and the plan

Not modelled: text output, stale sources (`main.cpp`, `server/server.cpp`,
`string_*.h`), byte order and alignment of the wire structs (both ends copy
packed structs), overflow of the 64-bit totals, enum values the engine does not
know, the set-up of the sockets, a terminal that blocks the client, the end of
stdin (at which `read_message` repeats its prompt for ever).

What remains open: an abstract specification of the reader (a stream of frames, delivered one by
one) and of the client (a list of events to print, a list of orders to post) that `ConnParser` and
`Client` implement, as `Server` does `Exchange`; and `Exchange` with `PriceTimeBook` in the place of
its engine, whose steps (an order leaves the book, trades, comes to rest) are already
those of `OrderBook`, with the data left open.

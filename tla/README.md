# Specifications of the trading exercises

TLA+ models of the parts of this repository that carry logic worth checking, with
TLC configurations and TLAPS proofs. The repository is a course's worth of C++
programs (`hw_1` ... `hw_7`, `phase_1` ... `phase_6`); each directory is a program of
its own, so the project is a set of independent specifications.

Run them inside this directory:

    tlc -config PipelineSafety.cfg MCOrderPipeline
    tlapm OrderPipelineProofs.tla

## Inventory

| part | state | operations | hard behaviour | what makes it correct |
|---|---|---|---|---|
| `hw_7` ConcurrentQueue | two atomic indices, a ring of slots | `push_back`, `pop`, `size`, iteration | lock-free claim by compare-exchange, slot written after it is published, spurious failures, wrap | a slot is claimed by one thread; what is popped was pushed; false only when full / empty |
| `hw_7` pipeline | two queues, order book, its mutex, start latch | producers, consumers, `main` | 50 producers and 40 consumers on the same queues, exit decided by a count | every order is booked and completed once; consumers leave last; the program ends; the report agrees with the book |
| `phase_3` snapshot | levels per side | `update` | events about best prices | each change of a best price is reported |
| `phase_3` order manager | live orders, next id | `place_order`, `handle_fill` (`cancel` is never called) | fills for unknown or finished orders, overfill | a live order is open; ids are unique |
| `phase_3` strategy loop | own best prices, one live order per trigger | one step per feed event | three copies of the market that must agree, re-arming on completion | no duplicate trade; prices are not stale; sales at the right price |
| `phase_6` server | current challenge under a mutex, TCP sessions | broadcast, answer | answers race with each other and with the next challenge; asynchronous writes | at most one winner for each challenge, while it is current |
| `phase_6` clients | a datagram buffer, pointers into it | backward scan, answer | datagrams lost or reordered, bytes of an old datagram behind the new one | the parts of an answer are of one challenge |
| `phase_2` server | clients, time of every price, prices already hit | broadcast, client threads | first hit, sockets closed while they are being sent to, coalesced messages | each price is hit once, by a client that was sent it |
| `phase_2` client | last price, direction | receive, respond | flat prices, momentum after a flip | no order goes against the movement before it |
| `phase_4` matching | two price-ordered books, order states, trade log | create, match, fill, cancel | erasing while iterating, partial fills, empty sides | the best orders trade; states and books agree; the book is never left crossed |
| `phase_5` order books | levels by price and index by id, a memory pool | add, modify, delete | an order stored twice and moved, emptied levels, full pool | both indices hold the same orders (`benchmark.cpp:61`); no null pointer is stored |
| `hw_5` containers | Robin Hood table, binary heap, order book, moving averages | insert, remove, lookup, pop, best bid and ask | removal that shifts probe sequences, wrap at the end of the table, empty levels, odd remainders | lookups agree with a map, pops with a sorted order, the best order is the oldest at the best price |
| `hw_2` engine | price windows, running sums, orders | four signals per tick | sums kept by adding and subtracting | the sums are those of the window |
| `phase_1`, `hw_1` kernels | none | matrix products, sums | unrolled loops with different bounds, pointers that run on between rows | every product of the definition, once, and none outside the arrays |
| `hw_4`, `hw_3` | little or none | templates, an owning pointer | none that steps or interleavings reach | |

Within a program the parts interact as follows. `hw_7`: threads share the two queues,
the book, its mutex and the latch; `main` joins. `phase_3`: one thread; `main` calls the
order manager, acts as the strategy, then calls the snapshot, for each event. `phase_6`: a
broadcast thread and an asio thread share the challenge; UDP multicast goes out, TCP lines
come back. `phase_2`: a price thread and a thread per client share three containers under
two mutexes. `phase_4`: the engine walks the books that the order manager erases from.

`PROJECT.json` lists the components with their status, and under `hazards` each place where the
code can go wrong in a way a test would hardly reach.

## What is modelled now

### hw_7: the order pipeline

- `ConcurrentQueue` models one queue. A call is a sequence of steps, each one access to a
  shared location: `PushLoadTail` (line 27), `PushLoadHead` (29), `PushCas` or `PushRetry` (32),
  `PushWrite` (38); `PopLoadHead` (47), `PopLoadTail` (48), `PopCas` or `PopRetry` (52), `PopRead`
  (58). `op[t]` is a thread's place in its call and the index it has loaded. `PushRetry` and
  `PopRetry` need no reason, as the weak compare-exchange may fail spuriously. The slot access is a
  data race when the push of the slot is still under way; `Readable` returns the old item, the
  new one, or any field-by-field mixture.
- `OrderPipeline` uses it twice, as `OQ` (orderQueue) and `CQ` (completedOrders), and adds
  the control of the producer (161-176), the consumer (178-212) and `main` (262-289). `pc[t]` is the
  place outside the queue calls, `mainAt` that of the main thread. The update of the book is
  two steps, so that the mutex has something to protect. `size()` is one step: nothing pops
  from completedOrders, so only one of its two loads can change. An order keeps the fields other
  state depends on: id, symbol, quantity, side. Prices, time stamps, `sleep_for`, `yield` and
  printing are left out, and of `runAnalytics` the arithmetic; its reading of every slot is `report`.
- `OrderFlow` is the abstract specification: three counts, pushed, popped, completed, each at
  most the one before, and consumers that leave after the last completion. `FollowsOrderFlow` is
  the refinement: the counts are the indices `qTail`, `qHead`, `cTail`.
- `MCOrderPipeline` adds the symmetry of the consumers.

### phase_3: the trading loop

- `MarketSnapshot` models `update()` (market_snapshot.cpp 3-33): levels are functions from
  prices to quantities, the maps' order is the order of the numbers, and `bookEvent` is the
  returned event.
- `OrderManager` models `place_order` and `handle_fill`; the three outcomes of the latter
  are three operators. Orders keep price, quantity, filled quantity and status; the side is always
  Sell in this program.
- `TradingLoop` extends both. One step is one iteration of the loop (main.cpp 34-93) with the
  calls it makes: order manager, strategy, snapshot. The feed is any sequence of BID and ASK events
  with a positive price and a quantity of 0 or more, and EXECUTION events with any quantity, as the parser
  (feed_parser.cpp:33) takes 0 and negative ones as well: an execution of 0 makes an order partially filled
  that has no fill. Prices are whole cents, so the test `abs(difference - 0.02) < 1e-9` is an equality. A bid that
  improves by three cents triggers nothing, although phase_3/README.md:21 says "two cents or more".

### phase_6: the challenge game

- `ChallengeServer` models main_server.cpp: the broadcast thread as `Generate` (lines 35-75),
  `Publish` (90-93) and `Sent` (95-114); `Listen` and `Accept`, the acceptor; and `ProcessOrder` (129-198),
  what the handler of one line does. Handlers of all sessions run on one thread, so each is one
  step; `challenge_mutex` makes `Publish` and the test of `Wins` atomic against each other.
- `ChallengeClient` models client.cpp: the connection attempts, and `Scan`, what one datagram does to the client's buffer
  and pointers and makes it send. `buffer[c]` is the set of datagrams that still have bytes in the buffer; `Shows` says which of
  them a byte belongs to. `targetSec[c]` and `challengeId[c]` are the pointers of lines 86-88, byte positions that
  outlive the datagram they were set in. The scan starts at the byte behind the datagram (line 119). When an old
  target left its S there, the scan sees a line of prices and jumps over target and id (`FalsePrices`), so that the pointers stay where an
  earlier datagram put them; when it left the last T of "TARGET:", the scan sets them from there (`FalseTarget`). `FoundId` is
  the look-back of line 138, which takes an id of five digits for one of negative length. The lines of prices are then compared with
  the four bytes the target pointer shows (`TickerAt`), and `Answer` is what the server makes of the bytes at the
  id pointer: perhaps the id, perhaps its last digits (`ReadId`), perhaps nothing that it can parse. The first
  line of a datagram is never found, as no newline precedes it (`Answers`).
- `ChallengeGame` composes them with the network, and states the properties. A datagram may reach a client at any
  time after it was sent, in any order, any number of times, or never. TCP lines arrive in order and once.
- `ChallengeRounds` is the abstract specification: rounds, each with at most one winner while it
  lasts. `FollowsRounds` is the refinement.

Abstractions: prices are identified by the id of their challenge (no two challenges agree within
the tolerance of line 173, and six printed digits are within it); a challenge fits one
datagram (at most about 400 bytes against 1400); all lines the server rejects are one,
`Malformed`, and the pieces of a line after its first newline are rejected with it; a winner is the
connection it came from, since every client has the same name. Bytes are numbered from the end of the shortest
datagram (`extra` is how much longer one is), and datagrams differ in length by at most 11 bytes, which
their prices (each price line has three numbers, of which the last digits vary) and their id account for; with that, what stays behind a datagram is
a part of the last lines of a longer one. A line of prices is at least as long as the scan jumps when it meets one (30 bytes,
line 131). The bytes of the buffer that no datagram has written are taken not to look like a line start.

### phase_2: the price market

- `PriceServer` models hft_server.cpp. The price thread is `NextPrice` (lines 41-44), `Stamp` (46-49),
  `LockClients`, one `SendToEntry` for each entry (53-55), `UnlockClients`; the main thread is `Accept`
  (164-178) and `Register` (180-191); the thread of a client is `Handle` (68-128). The lookup and the
  insertion of a price are two steps, `Accepts` and `Hit`, with `priceMutex` held between them;
  `clientsMutex` is held while `broadcaster = "send"`.
- `MomentumClient` models hft_client.cpp: `Connect`, `Stop` (the process ends, by its user or by line 30),
  and `ReceiveAndRespond`, a price received and what it makes the client do.
- `PriceMarket` composes them, with a TCP connection for each client, and states the properties. Bytes
  arrive in order and once, but not by messages: one `recv()` returns any number of the messages that have
  arrived. The server reads orders that arrive together as one number, their digits one behind the
  other (`Joined`); the client reads prices that arrive together as the first of them (`GetNextPrice`).
- `PriceBoard` is the abstract specification: prices published in order, each open until one client
  wins it, for good. `ImplementsPriceBoard` is the refinement: what is published is what has a time
  stamp, `priceAlreadyHit` takes from it what is no longer open, the awards are the reported hits.

The kernel is part of the model. `connection[s]` is who is connected to descriptor s; `accept` returns the
lowest free one. An entry of `clients` is never removed, so after its `close` the entry names a
descriptor that is free, or that is another client's: that client is then sent every price twice. A send
to a free descriptor fails without a signal; to a client that has left, the first send makes it answer with a
reset and the second raises SIGPIPE, which ends the server (`running`).

Abstractions: a message is not split over two calls of `recv()`, as on the loopback interface it is
far shorter than a segment (line 40 of the client, the retry, is then not reached); bytes a client has sent
are delivered even if its connection is reset, although the kernel may drop them; prices are ordered numbers;
the time of a price is only whether it has one; latencies, sleeps and printing with its mutex are left out. The
thread object of line 191 is not used after it was moved.

### phase_4: the matching engine

- `LimitBook` models OrderBook.hpp: the two multimaps as sequences in the order of their iterators, and adding,
  deleting and reducing an order by its id. `OrderBookNewPtrs` has the same text as `OrderBook` and differs in who
  owns an order.
- `MatchingEngine` models runBaseline of main.cpp (42-58) with the order manager and the trade log. `CreateOrder`
  is a tick and its order, followed by the iterations of matchOrders (38-61), an action for each of their three cases,
  and `Flush` is the end. The iterators are the ids of the orders they refer to. The order manager erases the orders behind
  the engine's back, so each case advances the iterators first.

The loop condition (line 38) compares what iterators refer to, where it means the iterators, and so reads the
header of a multimap as if it were an order; with libstdc++ that is never equal to an order, and is equal to itself, so
that the test is the intended one. Line 40 compares pairs of a price and a pointer. At equal prices the addresses
decide, which the allocator may choose as it likes: `CreateOrder` gives an order any address that no order of the
book has, and `BookIsNotCrossed` allows a bid and an ask at one price to stay.

main.cpp creates orders of quantity 100 only, while the engine handles any; the model takes any
quantity. When quantities differ the partial fill goes to the order that was filled and erased a line earlier, so that it
changes a state (Filled becomes Partial) and no quantity: the larger order stays as large as it was. The model
does the same. phase_4/README.md:11 says that partial fills are managed: `FillsAreManaged` states that for the
states of the orders, and the run `partial_fill` shows that it fails. `StatesMatchBook` leaves open whether an order
that rests has traded. No property claims that quantities are conserved. `cancelOrder` has no caller. The
flat variant, which main.cpp does not run, compares addresses in place of prices, and is left out.

### hw_5: the hash table

`RobinHoodTable` models hash_table.hpp. `hash` is any function from keys to slots. A step is one iteration: `Place` or
`Probe` for insert (35-50); `Found`, `SearchOn` or `KeyNotFound` for the search of remove (56-72); `Shift` or
`Erase` for its backward shift (60-68). `stored` is the history of the calls: the entries inserted
and not removed. A key can be inserted twice, as the code does not look for it; an entry is
not inserted again while it is stored. No key is `K()`, which marks an empty slot. The exceptions that leave the
table as it is are no steps, and that of line 51 is a call that does not return.

### phase_5 and hw_5: order books with two indices

- `BookSpec` is the abstract specification: one order per id, as last added or modified, until it is deleted.
  `BookTypes` holds the constants.
- `LevelBook` models OrderBook.cpp of phase_5. The nested map `orderLevels` is the set of its entries (level, id,
  order) and `levelPrices`, the keys of the outer map, since a level can be there and be empty: `operator[]` makes one,
  and lines 14 and 23 take it out again. `LevelsImplementBook` is the refinement, with the book that a walk over the
  levels shows; the lookup table plays no part in it, so that both indices are checked.
- `PooledBook` models PooledOrderBook.cpp and MemoryPool.h. A pointer is the number of a slot, and `NULL` is 0.
- `HybridBook` models order_book.hpp of hw_5: ids in the order of arrival at each price of each side. `arrived` is
  history. `HybridImplementsBook` is the refinement, with the book that a walk over both sides shows.
- `OrderBooks` puts the three programs side by side: a behaviour is one of them. `MCOrderBooks` adds the symmetry of the ids.

The callers in benchmark.cpp and main_order_book.cpp are the environment. phase_5 adds only ids that are not in the book,
which `LevelNext` and `PoolNext` have as guards: an id that was added again at another price would stay in the level of its
first price, and nothing in the program does that. hw_5 refuses such an id itself, so `HybridNext` adds any.

### phase_1, hw_1, hw_2, hw_5: sequential routines

- `UnrolledLoops` has the loops: `Upto`, `Strides`, `Sweep`, the form of all unrolled loops here, which takes several
  offsets at a time under a condition and the rest singly, and `Nest`, the turns of a loop inside a loop.
- `MatrixKernels` has each kernel of phase_1/src.cpp as the sequence of the products it accumulates: which element of
  the first array times which of the second goes to which cell. Two kernels compute the same when they list the same products.
  The bounds are the code's: `<` in `vector_dot` (line 11) and in the row of B (149, 192), `<=` in lines 77 and 247.
- `MovingAverages` has both functions of time_series.hpp as their stores.
- `HeapQueue` is the heap of queue.hpp, with bids that compare by price only, under any sequence of `insert` and `popMax`: an
  action for each call up to its loop, one for each turn of the loop (`Rise`, `Sink`), one for its end.
- `TradeEngine` is the engine of hw_2. A step of `process` is one tick of the feed; `arrived` is history.
- `KernelCalls` makes the calls, any routine with any arguments of the bounds. A routine over arrays is one
  step, whose `trace` is what its loops did; the heap and the engine run on from there. It states the
  properties of the loops.

Abstractions: elements and prices are exact numbers, and the comparisons of hw_2 with averages and deviations are multiplied out
(the running sums of the code also gather rounding errors); the grouping of a sum into accumulators is left out. `add` of hw_1 narrows
its running sum to int, which the sum, at most 4096 * 4096 * 100 in absolute value, fits. `multiply_mv_row_major` is declared (src.h:3),
tested and benchmarked, and defined nowhere in the repository.

## Runs

| run | instance | shows |
|---|---|---|
| `pipeline_safety` | 2 producers with 1 order, 2 consumers; 428 thousand states | all safety properties of the pipeline, refinement of `OrderFlow` |
| `pipeline_liveness` | 1 producer with 2 orders, 2 consumers; 140 thousand states | `ProgramEnds` under `FairSpec` |
| `pop_unwritten` | as `pipeline_safety` | the comment on `pop` (main.cpp:44) does not hold |
| `trading_loop` | 3 prices, 3 orders; 543 thousand states | the properties of the loop |
| `game` | 2 clients, 2 tickers, 3 challenges, the third with an id that is too long, 2 lines on the way; 505 thousand states | the safety properties of the game, refinement of `ChallengeRounds`, and `PendingAnswerDecides` under `FairSpec` |
| `answer_format` | 2 challenges, the second with an id that is too long | README.md:3 of phase_6 does not hold |
| `market_safety` | 2 clients, 3 prices, 4 broadcasts; 685 thousand states | the safety properties of the market, refinement of `PriceBoard` |
| `matching` | 5 orders, 3 prices, 2 quantities; 1.1 million states | the safety properties of the matching engine |
| `partial_fill` | 2 orders, 2 prices, 2 quantities | README.md:11 of phase_4 does not hold |
| `robin_hood` | 4 slots, 3 keys, 2 values, 64 hash functions; 151 thousand states | `LookupAgreesWithStored`, and `CallsReturn` under `FairSpec` |
| `kernels` | the arguments below; 172 thousand states | the properties of the sequential routines |
| `order_books` | 3 ids, 3 prices, 2 quantities, both sides; 4 thousand states up to symmetry | both indices of each book agree, refinement of `BookSpec` by two of them, the pool, the best order |

Bounds. Two producers race for a slot, two consumers for an order, and both queues have a
compare-exchange that fails because of the other thread; a consumer can find the queue
empty while the other still works, and leave before it. One order per producer is
enough for every race between producers; several orders of one producer, the retry loop and
reuse of a thread's variables are in the liveness run. The queue's capacity follows from the
number of orders, as in the code, so it is 3. With 50 and 40 threads nothing else can happen
that the proofs do not cover. Three prices give a level below, at and above the best, and
improvements by one and by two cents; fills of 0, 30 and 50 give empty, partial, exact and
excess fills of the quantities 50 and 100. Three orders let each trigger fire again after it was
re-armed. The feed is finite, so `trading_loop` may stop (`CHECK_DEADLOCK FALSE`): at
the bound `MaxOrders` a step that would place another order is disabled. The pipeline's
runs check deadlock; `Terminated` is the ended program.

In the game, two clients compete for a challenge, an answer can be a challenge late, and one that is refused for that
can have one behind it that wins: the ids 1 and 2 are short. Ids are printed in `Base`, 10 in the code and 3 in the run, and
`MAX_CHALLENGE_ID_DIGITS` is 2 for 5, so that id 3 has the digits that are too many. With lengths that differ by 8 bytes (`ExtraLengths`) a datagram
leaves the S of its target behind a shorter one, where the scan starts; the pointers stay, and the line that
follows has the target of the older datagram or cannot be parsed. Other lengths, which leave the T there or a pointer within the new
datagram's id, multiply the states beyond a run's time. `{0, 1, 9}`, with which a stale pointer gives the right
answer or a part of the id, and `{0, 2, 10}`, with which the T is met, hold with one client; the theorems cover all
lengths. `MaxAttempts` is 1 for 10 (a failure ends the program; the proofs hold for any
number), `MaxPending` bounds the lines that are not handled, on one connection or both. At `MaxChallenges` the broadcast thread stops, and
nothing need ever be received, so the game may stop (`CHECK_DEADLOCK FALSE`).

In the market, a second client can connect while the first is still served, after it has left and before
its descriptor is closed, and after that, with the first one's descriptor. Four broadcasts give a client the two
prices of its burn-in and two to trade on; three prices let them rise twice, fall twice, turn or stay.
`Base` is the base of the digits of an id, 10 in the code and 2 in the run, so that two
digits exist; the orders that can be joined there, 2 and 3, give 11 (1011), which is no price. `MaxUnread` keeps
the server from running ahead of the clients by more than two prices, where the code's five seconds
between prices keep it from running ahead at all. After `MaxPrices` nothing is sent (`CHECK_DEADLOCK FALSE`).

In the matching engine, three bids meet two asks, at better, equal and worse prices; a batch of two trades
(ten in the code) is filled, printed, and left half full at the end. In the hash table the four slots can all be taken, by
entries with one home slot, with different ones, and with runs that wrap.

The sequential routines get every combination around their bounds: row and column counts of 0, below, at and just above
the steps of four and eight, up to two steps and a rest; series and windows with one, an even and an odd number of
averages; up to seven bids, inserted and taken out in any order, which fill three levels of the heap and leave every shape of the last one; feeds whose windows are empty, half full,
full and have moved on by more than their length before they vary. Three ids of an order book share a level, or a side, or neither, in
every order; with three prices a side has a best level, one behind it and one an order moves to.
A deadlock is not checked for the routines and the books: a call ends, and a pool is used up.

Fairness of the pipeline's `FairSpec`. Weak fairness for each thread: the operating system runs every
thread. Strong fairness for the three compare-exchanges: a thread that finds the
index unmoved again and again succeeds at last, that is, spurious failures do not go on
for ever; they come from interrupted reservations, not from the algorithm. The code has no
other wait than the latch, the joins and the mutex of the book, whose holder is never
blocked.

Fairness of the game's `FairSpec`. Weak fairness for accepting a connection and for handling a line:
`io_context.run` calls every handler that is ready, and the acceptor and the sessions start their
next operation in each handler. Nothing is assumed of the network or the clients. The hash table's `FairSpec` says that
a call under way runs on.

Disagreements with the documentation and the tests are in `PROJECT.json` under `findings`. The
most serious one is `pop_unwritten`: since the tail moves before the slot is written, a
consumer can book and complete an order that nobody pushed, while the real one is overwritten into a slot
that nobody reads again. The safety properties above hold nevertheless: they
speak of what the consumers have processed, and none assumes that it was pushed.
`CompletedOnce` speaks of orders with an id for the same reason. `partial_fill` is about the engine of phase_4: of two
orders of different quantities that trade, the one that is gone ends as Partial and the one that rests in the book stays New.
`StatesMatchBook` holds of this code and would of one that marked the right order.

Three more disagreements have no run. `multiply_mm_naive_opt` ends its rows at `colsA * rowsB` (src.cpp:182), which is right for a square A, as
the benchmarks use it and `LoopsMissNothing` states; the test of 2x3 by 3x2 (tests/test_src.cpp:91) makes it read a third row behind
A and write one behind the result. A second ask above the best one makes the strategy of phase_3 sell (main.cpp:66) while the better
level is still quoted, where phase_3/README.md:21 says that the price got worse. And the client of phase_2 takes a price that does not
move for a turn (hft_client.cpp:103), so that it may order after one movement where phase_2/README.md:6 says two;
`OrdersFollowMovements` states what it does.

## Proofs

`OrderPipelineProofs` proves, for any number of producers, orders and consumers
(`ConstantsAssumption`: at least one of each, and finitely many), `Spec => []IInv` and from it `TypeOK`,
`SlotClaimedOnce`, `CompletedNeverDrops` and `LeavesOnlyWhenComplete`, and that the pipeline implements
`OrderFlow`.

The properties are not inductive by themselves: that the unchecked push never
finds completedOrders full depends on how many orders there can be, which depends
on where each thread is. `IInv` adds

- `ControlInv`: a thread's place outside the calls agrees with its place inside;
- `IndexInv`: an index a thread has loaded is not ahead of the one it was loaded from,
  and behind it once it is claimed;
- `CountInv`: the tail of orderQueue is the number of orders whose push has claimed a slot, and
  its head is the tail of completedOrders plus the number of consumers in flight;
- `LeaveInv`: a consumer that left saw all orders complete.

From `CountInv` no index exceeds `totalOrders`, so with one slot more the modulus never wraps,
indices only grow, and a compare-exchange that succeeds cannot have been fooled by an index
that came back (the ABA problem). The proof has one lemma per action. For a claim it shows
that the set it counts gains or loses one element, with the cardinality theorems of
`FiniteSetTheorems`.

What the book and the report say is a second induction on top of `IInv`. `VolumeInv` adds to `BookHoldsWhatWasProcessed`
that the consumer between reading and storing an entry holds `bookMutex` and that the entry is still what it read
(`MutexInv`: without it an update could be lost), and that a slot of completedOrders is blank until its claimant writes it
(`BlankInv`: without it the write could replace an order that counts). From it `NoUpdateIsLost` and `ReportIsComplete` follow. The
properties speak of sums over slots and over consumers. A sum is a fold, so what a change of one member does to it
cannot be shown by the library's induction rules; the lemmas argue by the smallest counterexample instead, which
the well-foundedness of the natural numbers gives.

That no order is completed twice (`NoOrderCompletesTwice`) is a third: `OnceInv` says that a producer's order is in one slot of
orderQueue at most, that what a consumer holds or has completed was read from a slot that is read
no more, and that no two of these agree. The theorem assumes `ordersPerProducer <= 1000`: the ids are
`p * 1000 + i` (main.cpp:165) and repeat beyond that. The program has 100 orders for each producer.

`TradingLoopProofs` proves the invariant of the loop for any prices and quantities, any integers as fills
and any `MaxOrders`: `TypeOK`, `TriggersOwnTheirOrders`, `LiveOrdersAreOpen`, `StrategyPricesAreQuoted`,
whose conjunction is inductive, and from it the action properties `IdsAreNotReused`, `SalesArePricedToTrade` and
`BestChangesAreReported`. For the last, each of the steps is compared with what it does to the first level of a side.
Lemmas about one operation of the snapshot or the order manager (`SnapshotBidStep`,
`PlaceOrderStep`, ...) come first; one lemma per action of the loop follows.

`ChallengeGameProofs` proves, for any number of clients, tickers, challenges and attempts to
connect, for any base and length of the ids and any lengths of the datagrams within 11 bytes, `Spec => []IInv`, the four
safety properties, and that the game implements `ChallengeRounds`. The invariant has one part for the broadcast
thread (`BroadcastInv`: at each of its places, how the id of the current challenge compares with the number of
datagrams sent), one for the datagrams (`DatagramInv`: datagram i is challenge i), one for the pointers of a client (`PointerInv`) and one for the
lines (`LineInv`: a line is malformed, or names the target and the prices of one challenge and the end of its id).

`PointerInv` is why answers are consistent. The id pointer and the target pointer are set together or not at all, and
what they span ends 11 bytes before the target, or has a negative length, whatever datagram they were set in. So if the id
pointer spans digits of the newest datagram's id, the target pointer is not behind that datagram's target, and since the newest
datagram overwrites everything up to its end, a ticker that is found at the target pointer is the one of the newest datagram
(`AnswerIsReadable`). In any other case no line is sent, or one the server cannot parse. Early answers are excluded since
the datagrams never outnumber the published challenges; a win concerns a readable challenge because the
line that wins is readable and the id in it is the whole id. The lemmas handle one action each, with the library's theorems about
`Append`, `\o` and `Tail`.

`PriceMarketProofs` proves, for any number of clients and prices, `Spec => []IInv` and from it
`TypeOK`, `HitOnce`, `HandlersOwnTheirSockets`, `EndsByAnOpenSocketOnly` and the action property
`OrdersFollowMovements`. `MutexInv` says that the handler between lookup and insertion holds `priceMutex` and that what
it found still holds; `DescriptorInv` that a descriptor in use belongs to the client whose entry names it and
whose handler has not ended, which is why a close and a send reach the client they are meant for or one that
is connected; `LastMovementInv` that `goingSign` is the direction of the last movement when there was one.
From the last, an order needs a movement that agrees with the one before, unless that price stayed.

Three properties of the same module are about what is under way. For `StreamsAreComplete` and
`NoPriceIsOrderedTwice` the invariant is `DeliveryInv`. `StreamInv` says where a client's stream is for each place of the price
thread: up to the last price; or up to the one before, while the loop of line 53 has yet to come to an entry with
the client's descriptor (`ToBeSent`). Such an entry stays there as long as the client is connected (`Fed`), whatever others there are
(`DescriptorInv`). `Follows` adds that a price that comes twice is the same both times; with it `OrderInv` shows that a
client does not order again what it receives again: it has taken that price for its last one, so nothing has moved.
For `HitsAreOrdered` it is `OriginInv`: what the server has yet to read from a connection is the name and all orders or the orders from one
on, so that each `recv()` returns consecutive orders (`ReceiveInv`). The proof takes nothing from what
`Joined` does with them.

The module also proves that the market implements `PriceBoard`. `Stamp` is the step that publishes: the price it
opens has no hit yet, since `HitOnce` and `HitsAreOrdered` together confine `priceAlreadyHit` to stamped prices. `Hit` is the step
that wins: `MutexInv` says that what the handler found at its lookup, a step earlier, is still open. Every other step leaves the
board as it is. `HitOnce` follows from the refinement and is part of the invariant it rests on; no run checks it apart.

`OrderBooksProofs` proves, for any finite set of ids and any prices and quantities (`IdsAreFinite`; `AbsentIsNoValue` keeps the
mark for no order apart from orders and slots), that the two indices of `LevelBook` agree, that `totalOrders` is the size
of the lookup table, that the levels implement `BookSpec`, and that the pool of `PooledBook` never runs out. The first
is inductive with the type of the lookup. The last needs that the pool has given out one slot for each order added
(`used = Cardinality(Added)` in `PoolInv`): while an id is missing there is a slot left. The refinement rests on a lemma that the
orders on the levels are those of the lookup table, so that each operation maps to one of the abstract book or to a stutter.

The same module proves that the book of hw_5 names the oldest order at the best price
(`BestOrderIsOldest`) and implements `BookSpec` (`HybridFollowsBook`), for any finite set of ids and any integer prices
(`PricesAreNumbers`; without an order on prices there is no best one). `HybridInv` says that the ids at a price are those
the table has there, each once and in the order of arrival, and that a price is a key just while its level is not empty. A lemma
shows that a finite set of numbers that is not empty has a largest one.

`MatchingEngineProofs` proves, for any number of ticks and any prices and quantities, `BookIsNotCrossed`, `StatesMatchBook`,
`EveryFillIsPrinted` and `BestOrdersTrade`. `Sound` says that each side is ordered by price and then by age and
holds just the orders that are New, since the order that goes is the one the code marks (`StatesMatchBook` needs less); `IteratorsAtBegin`, that at each test of the loop both iterators are at the first orders, in spite of
what was erased in the iteration before. The book is not crossed after the loop because the two first
orders did not cross and the sides are ordered; inside the loop it may be, so `Uncrossed` holds between calls only.
`Logged` says that no two trades in the log are of the same pair, as one of the pair left the book with the first.

`RobinHoodProofs` proves `LookupAgreesWithStored` for any keys, capacity and hash function, that `insert` always finds a slot (the exception of
line 51 is not reached) and that `remove` misses no entry that is stored. The heart is `PathInv`: every slot between an
entry's home and its place is taken by an entry that is at least as far from its own home as this one would be there. It
is what lets `lookup` and `remove` stop early, and what the shift of `remove` has to restore. During a call it is
joined by what the call has seen: `InsertInv`, for the entry in hand, `RemoveInv`, for the slots passed, and `Hole`, the
slot whose entry is there twice while the shift goes on. `StoredInv` ties the pool to the history.

The theorems about types, and `LiveOrdersAreOpen`, `IdsAreNotReused` and the inductive invariants of the market and the
game, are not repeated by the runs.

`KernelProofs` proves the four properties of the sequential routines, for any dimensions, series, batches, bids and feeds.

- The loops. `TurnsAreFrom` is the induction for all of them: a function that is right where a loop ends, and kept right by
  a turn, is right everywhere. `SweepIsPlain` follows: a loop that takes u offsets at a time visits every offset once and in
  order, provided its bound leaves room for u of them; so both the strict and the inclusive bounds of phase_1 are right, and
  they differ only in what is left for the second loop. `NestLists` says that two nested loops make every pair of turns
  once, and `FlatOnce` that a row and a column have an offset of their own. A kernel then lists the products of
  the definition, once each, since the cell and the element of the first array determine the three indices
  (`MmByCells`, `MmByRows`). `TransposedPlace` computes where the copying loops of the benchmark put an element;
  `StridesAreRows` is the pointer of `multiply_mm_naive_opt`, for square matrices.
- The averages. `PrefixesAreClosed` gives the prefix sums, `AveragesAreAll` that both functions make the same stores.
- The heap. `HeapInv` says that every element but one is at most its parent (`Ordered`): the one that rises, or the children of the one
  that sinks, and that around the exception grandparent and grandchildren are still in order (`Bridged`), without which one
  swap would not restore it. At rest every element is at most its parent, and so at most the root (`RootIsGreatest`).
- The engine. `HistoryUpdated` is one price: the window stays the last ten, the sums stay theirs (`SumsShift`).

`Counting`, which takes the place of the library's induction rules in this module, says that a set of numbers with 0 that is closed
under successor has all; it follows from the well-foundedness of the natural numbers. It takes a set, where those rules take an
operator, and so is within the provers' reach. The recursive definitions of the models are functions for this reason.

Every safety property that a run checks is so proved, and every refinement. Only model-checked are `ProgramEnds`,
`PendingAnswerDecides` and `CallsReturn`: liveness under fairness is out of the prover's reach, and so is `ENABLED`.

## Not modelled

Of modelled programs: memory orders weaker than sequential consistency; the arithmetic of
`runAnalytics`; `OrderManager::cancel`, which nothing calls; floating-point rounding;
replies of the challenge server (always INCORRECT, line 200, and read by no client), its send errors, and the
client variants that `phase_6/CMakeLists.txt` does not build; of phase_2, messages split over two `recv()` calls and
the sleep after an order; of phase_4, `cancelOrder` and the flat variant; `OptimizedOrderBook::addOrder` of phase_5, `atPrice` and
`getMax` of hw_5, which have no callers.

Whole parts: the feed parser, configuration and logger of phase_3, which read and write files before and after the loop; hw_4, a bounds check
under one lock and compile-time templates; hw_3, an owning pointer in a main function of three lines; timing and plotting.

## Plan

1. An abstract map for the hash table, with the lookup in the middle of a call left open.
2. The flat book of phase_4 against `LimitBook`.

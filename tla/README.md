# Verification of the UDP multicast receiver

TLA+ models of the market-data receive path in `include/feed/` and `src/main.cpp`,
the TLC runs that check them on small instances, and TLAPS proofs, for instances
of every size, of every safety property that the passing runs check: of the
sequencer, the arbitrator, the receive loop, recovery, the books, the engine, the
capture files and the recorders.

## 1. The system

```
kernel socket -> MulticastReceiver -> GapBuffer -> MultiSymbolBook -> OrderBook -> DecisionEngine
   (line A, B)        or FeedArbitrator (two lines into one GapBuffer)
   pcap file  ->  PcapReader      ^        |
      ^                           |        v on_retransmit
   gen_pcap / PcapWriter    answers <- retransmission server (external)
```

Everything on this path runs in one receive thread by synchronous calls and
callbacks; only the latency histogram may be read by another thread.  Concurrency comes from outside: the network loses, duplicates,
reorders and re-frames datagrams; two lines run at different speeds; the kernel
queues and drops; two clocks are read; a signal clears the loop's flag.

| Component | State | Operations | What makes it correct |
|---|---|---|---|
| `GapBuffer` (gap_buffer.hpp) | `next_expected_`, sync flag, gap tracker (start, detected at, last request), ring of `kCapacity` slots, counters | `ingest`, `tick`; calls back `on_message`, `on_gap`, `on_retransmit` | in-order exactly-once delivery; one event per gap; rate-limited requests for what is missing only; nothing received is left behind |
| `FeedArbitrator` (feed_arbitrator.hpp) | per-line counters and time of the last win | `ingest_a`, `ingest_b`, `tick` | either line suffices; each message credited once |
| `MulticastReceiver` (receiver.hpp), `main` | descriptor, counters, `last_tick` | `open`, `close`, `recv_one`, `run` | queue drained, ticks keep coming, one time base |
| `OrderBook`, `MultiSymbolBook` (order_book.hpp) | orders, price levels, last told top; books by symbol, routing index, wired symbols | `apply_*`, `ingest`, `set_on_top_change` | books equal the exchange's; levels are aggregates; every order routable; callback up to date |
| `DecisionEngine` (decision_engine.hpp) | counters, latency samples | `on_top_of_book` | quotes inside the current spread |
| `PcapWriter`, `gen_pcap` | file, `packets_written_`; next number, stamp and count | `write_packet`, `write_heartbeat`, `write_mold_packet`; the generator's loop | what is written is read back; the gap asked for is the gap found |
| `PcapReader` (pcap_replay.hpp) | position, pacing origin, `ReplayStats` | `replay` | frames for us in order, counters account for every record, the replay ends |
| `LatencyHistogram`, `SampleRecorder`, `ThroughputTracker` (stats.hpp) | buckets and totals; samples; ring of windows | `record`, `percentile`, `summarize`, `msgs_per_sec` | a percentile is a true bound at rest, and bracketed when read concurrently; the rate is exact |
| retransmission server (external) | answers on their way | answers `on_retransmit` | losses are made good |
| wire format, measuring tools, arguments | none that the path depends on | parsing, measuring, printing | decoded fields only (section 8) |

Hard behaviours: overlap of differently framed datagrams, several holes open at
once, collisions in the ring, a retry racing the late original, a line that is
merely slow, stamps from two clocks, joining mid-session, partial fills and
replaces, answers lost or late, 16-bit lengths and unsigned waits that wrap, a disk
that fills up, a percentile read while samples are recorded.  `PROJECT.json` lists them under `hazards` at the line where they bite.

## 2. Modules

| Module | Models | Extends |
|---|---|---|
| `InOrderFeed` | abstract specification: a consumer sees an unbroken run of arrived numbers | |
| `GapBuffer` | `feed::GapBuffer`; instantiates `InOrderFeed` | |
| `Arithmetic` | lemmas the proofs share: least and greatest naturals, division, induction over finite subsets, sums over a set | |
| `GapBufferProofs` | theorems about it: the inductive invariant, single calls, uniform framing | `GapBuffer`, `Arithmetic` |
| `FeedArbitrator` | `feed::FeedArbitrator` | `GapBuffer` |
| `TwoLines` | the arbitrator between two lossy lines of one stream | `FeedArbitrator` |
| `TwoLinesProofs` | theorems about it | `TwoLines`, `GapBufferProofs` |
| `Receiver` | `feed::MulticastReceiver` and `main`, with kernel queue and clocks | `GapBuffer` |
| `ReceiverProofs` | theorems about it | `Receiver`, `GapBufferProofs` |
| `OrderBook` | `feed::OrderBook` as operators on a book value | |
| `MultiSymbolBook` | `feed::MultiSymbolBook` | `OrderBook` |
| `DecisionEngine` | `feed::DecisionEngine` | |
| `TickToTrade` | exchange, books and engine composed | `MultiSymbolBook`, `DecisionEngine` |
| `TickToTradeProofs` | theorems about books, index, levels, callback and quotes | `TickToTrade`, `Arithmetic` |
| `Recovery` | the sequencer between a lossy line and a retransmission server | `GapBuffer` |
| `RecoveryProofs` | theorems about it | `Recovery`, `GapBufferProofs` |
| `PcapReplay` | `gen_pcap`, `PcapWriter`, `PcapReader` and the sequencer they fill | `GapBuffer` |
| `PcapReplayProofs` | theorems about it | `PcapReplay`, `GapBufferProofs` |
| `Stats` | the three recorders of stats.hpp, with a concurrent reader | |
| `StatsProofs` | theorems about them | `Stats`, `Arithmetic` |
| `MC*` | constants for TLC | |

A definition whose comment begins with "Mutant" is a deliberately wrong variant
of the definition that follows it; `PROJECT.json` pairs it with the property that
notices the error.  No specification uses one.

### How the models correspond to the code

*GapBuffer.*  One action is one whole call.  `ingest` is split by outcome:
`IngestHeartbeat`, `IngestDuplicate`, `IngestGap` (handle_gap, buffer_packet,
check_gap_timeout), `IngestInOrder` (deliver_packet, flush_buffer, clearing of the
tracker); `Tick` is `tick`.  A datagram is its header plus two numbers: how many of
its announced blocks can be walked (`blocks`) and how many of those fit in a slot
(`kept`, 1500 bytes).  `flush_buffer`'s loop is a least fixed point (`Flushed`): the
smallest set of buffered datagrams closed under "starts where the previous one
ends".  `check_gap_timeout`'s counting loop is the least count with a buffered
number behind it (`MissingCount`).  Timestamp subtraction wraps (`% TimeMod`).
Sequence numbers do not wrap (2^64 messages).  `on_gap_` is set, as in main.cpp;
`on_retx_` may be absent (`OnRetxSet`).  `received`, `delivered`, `gap_events`,
`requests`, `synced_at` and `clock` record what happened and are read by no action
except to bound the run.  The session name is not modelled: no code compares it.

*FeedArbitrator, TwoLines.*  `Attribute` is the bookkeeping after the shared
`ingest` returned.  A line carries the exchange's stream in order and may lose any
datagram; arrivals interleave freely, which gives every skew.  Both lines are read
by one thread, as the class requires (it has no lock).  `line_looks_dark` is an
operator on the same state, asked at every instant from the last call on.

*Recovery.*  Only `TickNext` (the loop's tick) and what it extends are code; the
line, the exchange and the server are what docs/loss-handling.md section 2 puts
around them.  Every request is answered with the datagrams that hold what was asked
for, framed as on the line (re-framing is `stranded_message`), each answer lost or
delayed: `answers` counts the copies of a datagram on their way, so an answer may
come after later retries and beside their answers, while fewer than `MaxInFlight`
copies of a datagram are on their way.  The clock is cyclic, so behaviours are infinite and retries need no bound.

*PcapReplay.*  One behaviour writes a file and replays it.  A record is its two
converted fields, the bytes that really are in the file and the frame; a frame is
the header fields `extract_udp` looks at and the datagram it carries.  `Generate` is
one turn of gen_pcap's loop; `Capture` adds frames of other traffic (VLAN tags, IP
options, other protocols and ports, lengths below every bound); `DiskFull` cuts the
last record, after which writes are lost and still counted.  The reader takes one
step up to the pacing loop and one after it, with the clock in between.  Lengths
wrap at `U16`, the wait at `TimeMod`; byte swapping is an involution that makes a
small number large.  A datagram whose wrapped length leaves no header is `Bad`; of
one longer than a ring slot (`kMaxPacketBytes`) only the whole blocks that fit are
`kept` when it has to wait.  Two inputs are excluded, because the code has no
meaning there: bodies of 65514 to 65535 bytes (`total`, pcap_replay.hpp:138, wraps to
a few bytes, passes the check at :139 although the comment at :132 says it
"Returns false if payload would exceed a UDP datagram", and the copy at :150 runs
past the buffer) and `msgs_per_pkt` = 0 (gen_pcap writes empty packets for ever).

*Stats.*  Every atomic addition and load of `LatencyHistogram` is a step.  Samples
are kept as the vector they are; the k-th of the sorted ones is found by counting
how many lie below.  `p * n` is exact where the code rounds a double.  `ThroughputTracker` and `SampleRecorder` belong to one thread and are
updated when a sample begins to be recorded; stamps may come out of order, but not
by a whole turn of the ring.

*Receiver.*  `pc` separates `recv_one` from the tick test in `run`, so arrivals,
the clock and the signal fall between them.  `open` fails at any of its calls and
leaves the descriptor as the code does.  An error of `recvmsg` returns 0, like an
empty queue, because `report_error` returns `false`.  `KernelStamp` is
CLOCK_REALTIME (`mono + ClockOffset`); without SO_TIMESTAMPING, `recv_one` falls
back to CLOCK_MONOTONIC.

*OrderBook, MultiSymbolBook.*  A book is a record; each method is an operator that
returns the next book.  A level absent from `bids_`/`asks_` is the zero aggregate:
the code erases a level exactly when both its numbers are zero.  The five
operation counters are one sum (`applied`); `stat_unknown_order_`,
`stat_duplicate_add_` and `stat_unrouted_` are kept.

*TickToTrade.*  The exchange keeps its own book, numbers orders once and publishes
every change, executions with price ('C') included; `untold` keeps what those took
from orders that the consumer still holds.  The consumer joins at any message, as a session synced mid-stream
does, and from there on hears everything, which is what `DeliveryCorrect` proves of
`GapBuffer`.

## 3. Runs

| Run | Shows |
|---|---|
| `gap_mixed` | delivery in order and exactly once, preserved arrival times, complete flushes, tracker at the head, requests only for what is missing, the inductive invariant and refinement of `InOrderFeed`, with overlapping, truncated and oversized datagrams |
| `two_lines` | attribution, redundancy, no needless request, events only for a real loss, a lit line while messages flow, over two lossy, skewed lines; and, since both frame the stream alike and the clock is monotone, one event per gap, rate limit, nothing stranded, no stale slot, overflow only with a far-ahead datagram |
| `tick_to_trade` | books mirror the exchange but for 'C' executions, levels aggregate, orders routable, callback current, index entries left behind harmless, quotes inside the spread, a late join harmless to the books |
| `receiver` | the receive loop: accounting, debounce in real time, and liveness |
| `recovery` | a tracked gap is filled over lost answers and answers that later retries overtake; a single loss is always made good; no request beyond what was shown to exist |
| `pcap_replay` | what was written is read back in either byte order, among other traffic and from a cut file; counters agree; the gap asked for is found; the replay ends |
| `stats` | histogram percentiles bound the exact ones; a concurrent read lies between what the samples at its start and at its end allow; the sliding rate is exact |

Five runs state what a comment or document says and the code does not do; each has
an entry under `findings`:

| Run | Claim | What happens |
|---|---|---|
| `stalled_gap` | a gap larger than the cap "is requested in multiple rounds" (loss-handling.md:41) | the answer to the first round clears the tracker; although everything asked for is answered, the second round is never asked for |
| `stranded_message` | each in-order delivery flushes "any already-received out-of-order messages" (gap_buffer.hpp:23-24) | a retransmission 2-4 passes the start of the buffered 4-5; message 5 is not delivered, its slot stays taken and no counter moves; it is asked for again only once a later datagram reopens the gap |
| `late_join` | Cancels and Deletes about orders from before the join "show up as `stat_unknown_order`" (loss-handling.md:101-103) | no book sees them: the router counts `stat_unrouted`, as `OnlyEarlierOrdersAreUnrouted` says |
| `zero_heartbeat` | `on_gap` once per gap (gap_buffer.hpp:92) | a file opened by `write_heartbeat`, whose number is 0, reports the gap with every datagram and delivers nothing |
| `kernel_stamps` | `now_ns` is CLOCK_MONOTONIC, first request after the debounce (gap_buffer.hpp:99, :124) | with kernel stamps, the default, the first tick asks at once |

The passing runs state the conditions under which the same or a weaker property
does hold: `OneLossIsRecovered` and `TrackedGapIsFilled` in `recovery`,
`NothingIsStranded` and `OneEventPerGap` in `two_lines`, `DebounceHolds` in
`receiver` with the fallback clock, `OnlyEarlierOrdersAreUnrouted` in
`tick_to_trade`.  Further places where a text says more than the
code does are stated as the property that does hold:

- docs/loss-handling.md:69-75 says that a loss the other line covers raises no gap
  event.  It does, when the faster line passes the hole; `EventMeansALineLostIt`
  says that it is at least about a real loss.  The range reported may also include
  numbers that already wait in the ring (:27 says "the missing range").
- order_book.hpp:282 says that only messages that do not affect the book are ignored,
  but 'C' executions are.  `BooksMirrorExchange` says exactly what stays in the book:
  the shares so executed, until the order is deleted or replaced.
- feed_arbitrator.hpp:100 says "while the other line has been active", which the code
  does not look at.  `DeliveryKeepsALineLit` says what can be relied on.
- pcap_replay.hpp:132 suggests that any UDP payload can be written; payloads of 65494
  to 65507 bytes are accepted and cannot be read back.  `RoundTrip` excludes them; longer bodies are
  not modelled at all (section 2).
- stats.hpp:9 calls a percentile "a true statement about the data".  Read while
  samples are being recorded it need not bound the samples counted when the call
  began: a low sample recorded after the load of `total_` counts in the place of one
  of them.  `ConcurrentReadIsSound` gives the bracket that holds: the result is the
  end of a bucket with a sample in it, more samples than the target, recorded by the
  end of the call, are below it, and it is not above what the samples counted at the
  start would give.
- gen_pcap.cpp:9 introduces a gap "starting at sequence S": `GapAsAsked` needs packets
  that do not straddle S and whose length fits its field, a complete file to which
  nobody added messages of the stream, and a session that no heartbeat opened
  (`zero_heartbeat`).

### Bounds

- `gap_mixed`: ring of 2, seven datagrams over numbers 1..6, five arrivals, two
  instants.  Two slots and starts of both parities give chains of two, collisions
  and overwrites; five arrivals are enough for sync, two buffered, the filler and a
  duplicate.
- `two_lines`: messages 1, 2, 3-4 and 5 in four datagrams, up to two losses on each
  line, ring of 2, so that 5 collides with 3-4 while 2 is awaited; three instants
  against debounce 1 and retry 1, so that requests too early, in time and repeated
  occur.
- `tick_to_trade`: three orders of up to two shares, two prices four ticks apart,
  two interchangeable symbols: two orders at a price, both sides, and a replace.
- `recovery`: five messages in four datagrams, two losses, one delayed datagram, one
  lost answer; a cap of 2, so that a gap of three needs two rounds; up to two copies
  of an answer on their way, so that a retry overtakes one; two instants round the
  clock against a debounce and a retry interval of 1.  `stalled_gap` has three
  instants.
- `pcap_replay`: six command lines (duplicates, gaps between and inside packets, more
  messages than a frame and than a length field hold, and so many that the wrapped
  length leaves no header), slots for one message of gen_pcap, one extra record of a dozen
  kinds, four configurations, five kinds of header; a `uint16_t` of 8 bits.
- `stats`: four buckets, three samples from {0, 2, 3, 9} (2 and 3 share a
  bucket, 9 is in the last), three percentiles; three windows of two instants, ten instants.
- `receiver`: three datagrams plus heartbeat and unparsable one, queue of 2, three
  arrivals, four instants, one socket error, two calls of `open`.

`MaxPackets`, `MaxHeartbeats`, `MaxRequests`, `MaxArrivals`, `MaxTime`, `MaxOpens`,
`MaxErrors`, `MaxBad`, `MaxLost`, `MaxLate`, `MaxAnswersLost`, `MaxInFlight`, `MaxExtra`, `MaxStart`,
`MaxSamples`, `MaxNow` and `MaxShares` bound the runs.  Behaviours end
when they are used up, so deadlock is not checked.

### Fairness

`Receiver`: the receive thread spins and never blocks (`MSG_DONTWAIT`), so `Loop` and
`LeaveRun` are weakly fair, and time passes (`ClockAdvance`).  Nothing is assumed of
the network, of `open`, or of the signal.  `StallIsRequested` speaks of gaps detected
early enough before `MaxTime`.

`Recovery`: the loop keeps ticking (`TickNext`), the exchange goes on to the end of its
stream, and every datagram that is not lost arrives: weak fairness of each arrival,
none of any loss.  Losses are bounded, so that some answer gets through; a tick at
which a retry is due waits while `MaxInFlight` copies are on their way.

`PcapReplay`: generator and reader are loops that wait for nobody, and the clock the
pacing loop reads goes on.  `ReplayEnds` speaks of files whose waits do not wrap.

## 4. Proofs

Every theorem holds for every value of the constants that the named assumptions of
its module allow, in particular every capacity, configuration, set of datagrams,
stream, number of symbols, orders and prices.

| Module | Theorem | States |
|---|---|---|
| `GapBufferProofs` | `Invariance` | `Spec => []IInv` |
| | `TypeCorrect` | `Spec => []TypeOK` |
| | `DeliveryCorrect` | `Spec => []InOrderExactlyOnce` |
| | `ArrivalTimeCorrect` | `Spec => []ArrivalTimePreserved` |
| | `FlushComplete` | `Spec => []NothingDeliverableWaits` |
| | `TrackerCorrect` | `Spec => []TrackerAtHead` |
| | `RefinesInOrderFeed` | `Spec => ImplementsInOrderFeed` |
| | `RequestsCorrect` | `Spec => RequestsOnlyMissing` |
| | `OnGapOncePerGap` | `Spec => [](synced_at # 0 => OneEventPerGap)` |
| | `RequestsAreRateLimited` | `~ClockMayStepBack => (Spec => []RateLimited)` |
| | `SlotsStayFresh` | `Uniform(Packets) => (Spec => []NoStaleSlot)` |
| | `NothingIsLeftBehind` | `Uniform(Packets) => (Spec => []NothingIsStranded)` |
| | `OverflowIsFarAhead` | `Uniform(Packets) => (Spec => OverflowMeansFarAhead)` |
| `TwoLinesProofs` | `ArbitratorUsesTheBuffer` | `SpecLines => Spec` |
| | `OneCopyIsEnough` | `SpecLines => []EitherLineSuffices` |
| | `RequestsOnlyForHoles` | `SpecLines => NothingThatCameIsRequested` |
| | `EventsOnlyForHoles` | `SpecLines => EventMeansALineLostIt` |
| | `CreditIsExact` | `SpecLines => []AttributionExact` |
| | `ALineStaysLit` | `~ClockMayStepBack => (SpecLines => []DeliveryKeepsALineLit)` |
| `ReceiverProofs` | `ReceiverUsesTheBuffer` | `SpecReceiver => Spec` |
| | `CountersAlwaysAgree` | `SpecReceiver => []CountersAgree` |
| | `DebounceIsReal` | `~ClockMayStepBack /\ ~enable_software_timestamps => (SpecReceiver => DebounceHolds)` |
| `RecoveryProofs` | `RecoveryUsesTheBuffer` | `SpecRecovery => Spec` |
| | `RequestsWereShown` | `SpecRecovery => []AsksForWhatWasShown` |
| `PcapReplayProofs` | `ReplayUsesTheBuffer` | `SpecPcap => Spec` |
| | `ReplayCountersCorrect` | `SpecPcap => []ReplayCountersAgree` |
| | `RoundTripCorrect` | `SpecPcap => []RoundTrip` |
| | `GapAsAskedCorrect` | `SpecPcap => []GapAsAsked` |
| `StatsProofs` | `ConcurrentReadCorrect` | `SpecStats => []ConcurrentReadIsSound` |
| | `PercentileCorrect` | `SpecStats => []PercentileIsUpperBound` |
| | `RateCorrect` | `SpecStats => []RateIsExact` |
| `TickToTradeProofs` | `BooksTypeCorrect` | `SpecTrade => []BooksTypeOK` |
| | `RoutingCorrect` | `SpecTrade => []EveryOrderIsRoutable` |
| | `BooksAreTheExchanges` | `SpecTrade => []BooksMirrorExchange` |
| | `UnroutedAreEarlier` | `SpecTrade => []OnlyEarlierOrdersAreUnrouted` |
| | `IndexIsSafe` | `SpecTrade => []StaleEntriesAreSafe` |
| | `LevelsCorrect` | `SpecTrade => []LevelsAreAggregates` |
| | `TopIsTold` | `SpecTrade => []CallbackKnowsTheTop` |
| | `QuotesAreInside` | `SpecTrade => QuoteInsideSpread` |

### Assumptions and hypotheses

*On constants* (each an `ASSUME` that TLC evaluates in every run): the capacity is
positive, a datagram has no more walkable blocks than it announces and no more
stored than walkable, stamps are positive and below the wrap; a stream
(`StreamAssumption` of `TwoLines`, `RecoveryAssumption`) is a sequence of whole
datagrams, each starting where the one before ends; prices are below the modulus of
the engine's arithmetic, as a `uint32_t` is, and the smallest spread to quote in, as
that arithmetic computes it, is at least a tick (`EngineAssumption`; with
`min_spread_ticks` 0, or a product that wraps, the engine may quote at or through the
ask); symbols differ from the "no symbol" of
the index; the stamps a command line or a captured frame can give, in nanoseconds,
are stamps below the wrap, `frame_buf` holds any frame whose length a `uint16_t`
can give, a body is short enough for `total` not to wrap and a packet has a message,
an IP header has at least 20 bytes, and a captured frame counts as a UDP
datagram exactly if it has all its headers and fits `frame_buf` (`PcapAssumption`);
percentiles are ratios below 1 (`StatsAssumption`).  `PowersOfTwo` says that the
powers of two up to the number of buckets are naturals and increase, arithmetic the
provers do not know.

*On a theorem.*  Four theorem groups need a condition, and in each case a run or a finding
shows what happens without it:

- `synced_at # 0`: a session opened by a datagram numbered 0 reports its gap again
  and again (`zero_heartbeat`);
- `~ClockMayStepBack`: the differences are unsigned, so a stamp earlier than the last
  looks like a wait of centuries (`kernel_stamps`, where two clocks are mixed);
- `Uniform(Packets)`: all sources cut the stream alike, as both lines of a MoldUDP64
  session do; a re-framed answer strands a message (`stranded_message`).  `TwoLines` and
  `Recovery` satisfy it by their streams, so their theorems do not state it;
- `~enable_software_timestamps`: with kernel stamps the debounce is measured from
  another clock (`kernel_stamps`).

The other theorems about the buffer hold for any clock and any framing.

### Argument

*The buffer.*  In-order delivery is not inductive alone.  A flush hands out what slots
hold, so each slot in use must lie at its own index (`TypeOK`) and hold part of a
datagram that was received (`SlotsAreReceived`); the order of hand-overs is by call
number, so past calls must have smaller numbers (`CallsArePast`); and the first call
needs a blank state (`UnsyncedIsBlank`).  The tracker stays at the head because
delivery past it clears it, and because no other action moves `next_expected_`.
`IInv` is the conjunction, and `gap_mixed` checks it too.  One lemma per action
shows that it is preserved.  The flush is the hard part: `FlushChain` shows that the
fixed point is one unbroken run from `n` up to `AfterFlush`, by taking the least
counterexample (well-founded order on the naturals) instead of induction; then
`FlushEmittedFacts` gives what is handed out and `DrainedFacts` what stays.

*Single calls.*  A call either resolves (moves `next_expected_`, `Resolving`) or checks
(`Checking`, at most one event and one request).  `EventInv` adds that events are
about numbers already passed or now tracked; `RateInv` that the tracker's times and
all requests lie in the past.

*Uniform framing.*  If datagrams overlap only when equal, a slot can never be overtaken
in the middle, so in-order delivery frees exactly the slots it passes
(`FramedInv`: no stale slot, everything received is kept).  Two datagrams collide only
if their numbers differ by a multiple of the ring.

*Compositions.*  Arbitrator, receive loop, recovery loop and replay are each shown to
implement `Spec`, with the line's, queue's, network's or file's own invariant
(`LineInv`, `QueueInv`, `NetInv`: what is on its way is part of the stream; `FileInv`:
every record holds a stamp of the generator or of a frame, swapped as the file is,
and the reader is inside the file) supplying the inputs; so the
theorems above carry over.  On top: `LineInv` ties each line's position and losses
to what was received, `AttributionInv` adds the types of the counters, `LitInv` says
that every delivered message arrived no later than some line's last win,
`DebounceInv` that the tracker's time is a reading of the monotonic clock, `ShownInv`
that an open gap has a datagram waiting behind it.  For `ReplayCountersAgree`, adding
the counters' types and that `seen` is a sequence is enough (`CountInv`), once
`DeliveredGrows` has shown that what `ingest` returns is what `next_expected_` moves
by.

*Books.*  `TradeInv` has three parts.  `ExchangeInv`: numbers are given once, and what
`untold` keeps is about orders heard of and no smaller than what rests.  `IndexInv`:
the index only knows orders heard of.  `BookInv`: the run's invariants together.  A
book's content is compared with `View`, the order it ought to hold; each kind of
message is shown to make one book follow the view (`Taken`, `OneBook`,
`BooksFollow`).  `Aggregated` adds to `LevelsAreAggregates` that finitely many orders
rest at a level.  The sum in it is a fold over a set in an order the library chooses;
`AnyOrder` shows, by induction over the subsets of a finite set
(`SubsetInduction`, from the least cardinality of a counterexample), that any element
can be taken out first, which is what an order that joins, shrinks or leaves needs.

*Capture files.*  `RoundTrip` compares what was handed over with what was written,
and both grow by different steps.  `LinkInv` ties the records to the datagrams
expected of them: the n-th record that shows a datagram shows the n-th expected
one, counting positions instead of filtering (`Subsequence`), so that no recursive
definition is needed; unless the disk was full, every record is whole and shows all
that is expected.  `SeenInv` says that what was handed over are the datagrams for us
among the records already read.  For
`GapAsAsked`, `StreamInv` is about what is written: a datagram lies before the gap or
behind it, the first one behind starts right at its end, each starts where one
before it ends, and the generator is not past the gap without having written
something behind it.  `HeardInv` is about what the sequencer has made of the
part read: before the gap is shown everything was delivered and no event reported;
from then on it waits at `gap_at` with the one event, and the ring holds only what
lies behind.

*Recorders.*  `HistIInv`: a bucket holds the number of samples that fall into it, less
the one whose `record` has not added it yet, and `total_` is at most one behind them
(`HistInv`); a reader's sum is at most the samples in the buckets it
has passed, and with what is left to read it reaches the total it loaded
(`ReadInv`); and the sum is at least the number of the first n samples, those that were
in the buckets when it loaded `total_`, in the buckets it has passed (`FirstInv`).  From this follow the bracket of `ConcurrentReadIsSound` and, at rest, by counting ranks, the bound on the nearest-rank sample
(`PercentileIsUpperBound`).  `RingInv`: a ring bucket holds the newest window of its
residue with the number of messages in it, so that the buckets still in the window
partition the messages; the sum over a set from `Arithmetic` then counts them.

### Only model-checked

Liveness (`QueueIsDrained`, `StallIsRequested`, `TrackedGapIsFilled`,
`OneLossIsRecovered`, `ReplayEnds`): fairness and ENABLED are out of the prover's
reach.  Every other property of a passing run is stated by a theorem, some of
them under the conditions listed above.

## 5. Plan

Done: models of every stateful component, and proofs of all their safety
properties.  Left: the receiver joined to `TickToTrade`, so that latency samples see
the real clocks.

## 6. Reading the hazards without a property

The session name is stored and never compared, so a second session numbered from 1
is dropped as duplicates; a failed `open` keeps its descriptor, which a second `open`
would leak (`main` does not call it again); with kernel stamps the engine's guard
skips every latency sample; a frame cut by a snap length is parsed into the bytes of
an earlier record.  Books created before `set_on_top_change` never call back.
The loss of the last datagrams before a quiet stretch is not noticed from heartbeats,
whose number is not compared with `next_expected_`.  A body of 65514 bytes or more
overruns `write_mold_packet`'s buffer.

The additions and loads of `LatencyHistogram` are `memory_order_relaxed`; `Stats` takes
them in program order, one at a time.  That is how x86 orders locked additions, and
loads among themselves; the language would also allow a reader to see `total_` before
the bucket.

## 7. Running

```
tlc -config GapBufferMixed.cfg MCGapBuffer        # any cfg with its MC module
tlapm GapBufferProofs.tla                         # any *Proofs module
```

## 8. Not modelled

Byte layouts (`wire_format.hpp`) are pinned by golden vectors in the tests and appear
only as decoded fields.  Of `stats.hpp` the sums behind the means are left out.  Of
`pcap_replay.hpp`, captures cut by a snap length: what is parsed then depends on the
bytes of earlier records.  `tick_to_trade_bench` drives the modelled classes with one
fixed random sequence and prints times; `timestamp_validate` compares kernel clocks.
Argument parsing, the per-type message counts of `main.cpp` and printing are I/O.
Calling one `GapBuffer` from two threads is a data race that the classes exclude by
contract.

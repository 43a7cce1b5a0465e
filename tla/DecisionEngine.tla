--------------------------- MODULE DecisionEngine ---------------------------
(***************************************************************************)
(* feed::DecisionEngine (include/feed/decision_engine.hpp): called back by *)
(* the books with a new top of book, it emits a quote one tick above the   *)
(* bid when the spread is wide enough.                                     *)
(***************************************************************************)
EXTENDS Integers

CONSTANTS min_spread_ticks, tick_size,
          PriceMod    \* prices are uint32_t: 2^32

\* Both settings are any uint32_t and so is their product.  A tick of 0, or a
\* threshold of less than a tick (min_spread_ticks = 0, or a product that
\* wraps), is possible in the code and would quote at the bid, or at or through
\* the ask; the defaults are 2 ticks of 100.
ASSUME EngineAssumption ==
    /\ PriceMod \in Nat \ {0}
    /\ min_spread_ticks \in 0 .. PriceMod - 1 /\ tick_size \in 1 .. PriceMod - 1
    /\ tick_size <= (min_spread_ticks * tick_size) % PriceMod

VARIABLE engine   \* top_changes_seen_, decisions_emitted_, what latency_ has
                  \* recorded, and the decision last emitted (not a field)

NoDecision == [symbol |-> "none", price |-> 0]
InitEngine ==
    engine = [seen |-> 0, emitted |-> 0, recorded |-> 0, decision |-> NoDecision]

\* Mutant: a crossed book is as good as a wide one.
SpreadCrossed(top) ==
    IF top.ask.price > top.bid.price THEN top.ask.price - top.bid.price
    ELSE top.bid.price - top.ask.price
Spread(top) == IF top.ask.price > top.bid.price THEN top.ask.price - top.bid.price ELSE 0

\* hasBoth: top.bid && top.ask.  The latency is recorded only when the clock
\* read at the decision is past the arrival time of the message.
on_top_of_book(symbol, top, hasBoth, recv_ns, decided_ns) ==
    LET quote == hasBoth /\ Spread(top) > (min_spread_ticks * tick_size) % PriceMod IN
    engine' =
      [seen     |-> engine.seen + 1,
       emitted  |-> engine.emitted + IF quote THEN 1 ELSE 0,
       recorded |-> engine.recorded + IF quote /\ decided_ns > recv_ns THEN 1 ELSE 0,
       decision |-> IF quote THEN [symbol |-> symbol,
                                   price |-> (top.bid.price + tick_size) % PriceMod]
                    ELSE engine.decision]

=============================================================================

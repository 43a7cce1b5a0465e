---------------------------- MODULE TickToTrade ----------------------------
(***************************************************************************)
(* The path from the exchange's book to a quote: the exchange's own order  *)
(* book (external), the in-order stream of ITCH messages it publishes,     *)
(* MultiSymbolBook, and DecisionEngine called back by the books.  The feed *)
(* is gap-free from the datagram that synced the session on (GapBuffer's   *)
(* theorem DeliveryCorrect), so the consumer joins at any message and sees *)
(* every later one; orders resting when it joined are unknown to it.       *)
(***************************************************************************)
EXTENDS MultiSymbolBook, DecisionEngine

CONSTANTS
    MaxShares,   \* bound on the size of an order
    recv_ns,     \* arrival stamp of a message, and the clock at the
    decided_ns   \* decision it causes: only their order matters

ASSUME StreamAssumption ==
    /\ MaxShares \in Nat \ {0}
    /\ recv_ns \in Nat /\ decided_ns \in Nat
    /\ Prices \subseteq 0 .. PriceMod - 1

VARIABLES
    resting,   \* the exchange's orders
    next_ref,  \* order reference numbers are given out once, in order
    joined,    \* has the consumer joined the stream?
    heard,     \* the orders whose whole life the consumer has heard of
    missed,    \* how many messages it heard about other orders
    untold     \* what executions with price took from the orders heard of,
               \* as long as the consumer keeps them

exchangeVars == <<resting, next_ref, joined, heard, missed, untold>>
tradeVars == <<bookVars, engine, exchangeVars>>

NotResting == [symbol |-> NoSymbol, order |-> NoOrder]
IsResting(r) == resting[r] # NotResting

InitTrade ==
    /\ InitBooks /\ InitEngine
    /\ resting = [r \in OrderRefs |-> NotResting]
    /\ next_ref = 1 /\ joined = FALSE /\ heard = {} /\ missed = 0
    /\ untold = [r \in OrderRefs |-> NotResting]

-----------------------------------------------------------------------------
(* The consumer's side of a message.                                       *)

Told(s) == <<books'[s].last_top, books'[s].last_top_valid>>
             # <<books[s].last_top, books[s].last_top_valid>>
\* The books call the engine back when they tell a new top.
Callback ==
    \/ (\A s \in Symbols : ~Told(s)) /\ UNCHANGED engine
    \/ \E s \in Symbols :
         LET top == books'[s].last_top IN
         /\ Told(s)
         /\ on_top_of_book(s, top, top.bid # NoQuote /\ top.ask # NoQuote, recv_ns, decided_ns)

\* Before it joins, the consumer hears nothing.
Hear(Ingest) ==
    \/ joined /\ Ingest /\ Callback
    \/ ~joined /\ UNCHANGED <<bookVars, engine>>
Missed(r) == missed' = IF joined /\ r \notin heard THEN missed + 1 ELSE missed

-----------------------------------------------------------------------------
(* The exchange.                                                           *)

Shrunk(r, n) ==
    IF resting[r].order.shares = n THEN NotResting
    ELSE [resting[r] EXCEPT !.order.shares = @ - n]

Add(s, side, price, shares) ==
    LET o == [side |-> side, price |-> price, shares |-> shares] IN
    /\ next_ref \in OrderRefs /\ next_ref' = next_ref + 1
    /\ resting' = [resting EXCEPT ![next_ref] = [symbol |-> s, order |-> o]]
    /\ heard' = IF joined THEN heard \cup {next_ref} ELSE heard
    /\ Hear(IngestAdd(next_ref, s, o))
    /\ UNCHANGED <<joined, missed, untold>>

Delete(r) ==
    /\ IsResting(r)
    /\ resting' = [resting EXCEPT ![r] = NotResting]
    /\ untold' = [untold EXCEPT ![r] = NotResting]
    /\ Hear(IngestDelete(r)) /\ Missed(r)
    /\ UNCHANGED <<next_ref, joined, heard>>

Cancel(r, n) ==
    /\ IsResting(r) /\ n <= resting[r].order.shares
    /\ resting' = [resting EXCEPT ![r] = Shrunk(r, n)]
    /\ Hear(IngestCancel(r, n)) /\ Missed(r)
    /\ UNCHANGED <<next_ref, joined, heard, untold>>

Execute(r, n) ==
    /\ IsResting(r) /\ n <= resting[r].order.shares
    /\ resting' = [resting EXCEPT ![r] = Shrunk(r, n)]
    /\ Hear(IngestExecuted(r, n)) /\ Missed(r)
    /\ UNCHANGED <<next_ref, joined, heard, untold>>

\* An execution at a price other than the order's: message 'C', which the
\* switch in MultiSymbolBook::ingest does not list.
ExecuteWithPrice(r, n) ==
    /\ IsResting(r) /\ n <= resting[r].order.shares
    /\ resting' = [resting EXCEPT ![r] = Shrunk(r, n)]
    /\ untold' = IF r \notin heard THEN untold
                 ELSE [untold EXCEPT ![r] = [resting[r] EXCEPT !.order.shares =
                         n + IF untold[r] = NotResting THEN 0 ELSE untold[r].order.shares]]
    /\ UNCHANGED <<next_ref, joined, heard, missed, bookVars, engine>>

Replace(r, price, shares) ==
    LET o == [side |-> resting[r].order.side, price |-> price, shares |-> shares] IN
    /\ IsResting(r)
    /\ next_ref \in OrderRefs /\ next_ref' = next_ref + 1
    /\ resting' = [resting EXCEPT ![r] = NotResting,
                                  ![next_ref] = [symbol |-> resting[r].symbol, order |-> o]]
    /\ heard' = IF joined /\ r \in heard THEN heard \cup {next_ref} ELSE heard
    /\ untold' = [untold EXCEPT ![r] = NotResting]
    /\ Hear(IngestReplace(r, next_ref, price, shares)) /\ Missed(r)
    /\ UNCHANGED joined

Join ==
    /\ ~joined /\ joined' = TRUE
    /\ UNCHANGED <<resting, next_ref, heard, missed, untold, bookVars, engine>>

SetCallback == set_on_top_change /\ UNCHANGED <<engine, exchangeVars>>

NextTrade ==
    \/ Join \/ SetCallback
    \/ \E s \in Symbols, side \in Side, price \in Prices, n \in 1 .. MaxShares :
         Add(s, side, price, n)
    \/ \E r \in OrderRefs :
         \/ Delete(r)
         \/ \E n \in 1 .. MaxShares :
              \/ Cancel(r, n) \/ Execute(r, n) \/ ExecuteWithPrice(r, n)
              \/ \E price \in Prices : Replace(r, price, n)

SpecTrade == InitTrade /\ [][NextTrade]_tradeVars

-----------------------------------------------------------------------------
(* Properties.                                                             *)

\* The exchange's order r with the shares that were executed with price.
AsPublished(r) ==
    IF untold[r] = NotResting THEN resting[r]
    ELSE IF ~IsResting(r) THEN untold[r]
    ELSE [resting[r] EXCEPT !.order.shares = @ + untold[r].order.shares]

\* "reconstruct standing state: for every resting order, where it sits"
\* (order_book.hpp:9): each order heard of from its Add on rests in the book
\* of its symbol exactly as it does at the exchange and in no other book, and
\* no book holds an order that is gone or that predates the join; but for the
\* shares executed with price, which stay in the book until the order is
\* deleted or replaced (ingest() "returns false if the message type isn't a
\* book-affecting ITCH opcode", order_book.hpp:282, and ignores 'C' too).
BooksMirrorExchange ==
    \A s \in Symbols : \A r \in OrderRefs :
        books[s].orders[r] = IF r \in heard /\ AsPublished(r).symbol = s
                               THEN AsPublished(r).order ELSE NoOrder

\* "shouldn't happen on a correctly gap-free stream" (order_book.hpp:105): on
\* the stream of one session no book counts an unknown or a duplicate order;
\* what MultiSymbolBook counts as unrouted (order_book.hpp:310) is exactly what
\* concerns orders from before the join (or that replaced such an order).  The
\* document names another counter for these messages: the next property.
OnlyEarlierOrdersAreUnrouted ==
    /\ stat_unrouted = missed
    /\ \A s \in Symbols : books[s].unknown_order = 0 /\ books[s].duplicate_add = 0

\* "`Cancel`/`Delete` messages referencing those pre-existing orders show up as
\* `stat_unknown_order`" (docs/loss-handling.md:101): a Cancel or a Delete that
\* the consumer hears about an order added before it joined is counted as an
\* unknown order by some book.  The code does not do this.
EarlierOrdersCountAsUnknown ==
    [][\A r \in OrderRefs \ heard :
          joined /\ (Delete(r) \/ \E n \in 1 .. MaxShares : Cancel(r, n)) =>
              \E s \in Symbols : books'[s].unknown_order > books[s].unknown_order]_tradeVars

\* "the routing index cleanup here is best-effort bookkeeping and safe to skip
\* [...] rather than corrupting book state" (order_book.hpp:371): Cancel and
\* Executed leave the index entry of an order they used up behind; whenever the
\* entry of an order outlives its place in the book, the exchange is done with
\* the order too, so that no later message is routed by the entry.
StaleEntriesAreSafe ==
    \A r \in OrderRefs :
        Routed(r) /\ ~Resting(books[order_symbol[r]], r) => r \in heard /\ ~IsResting(r)

\* A quote is for the book as it is when the quote is emitted: above the best
\* bid and below the best ask, so it neither joins nor crosses the spread.
QuoteInsideSpread ==
    [][engine'.emitted > engine.emitted =>
          LET d   == engine'.decision
              top == Top(books'[d.symbol].levels)
          IN  /\ top.bid # NoQuote /\ top.ask # NoQuote
              /\ top.bid.price < d.price /\ d.price < top.ask.price]_tradeVars

=============================================================================

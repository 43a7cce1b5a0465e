----------------------------- MODULE OrderBook -----------------------------
(***************************************************************************)
(* feed::OrderBook (include/feed/order_book.hpp): the resting orders of    *)
(* one symbol, the aggregate size at every price and the top of book last  *)
(* told to the callback.  A book is a value; each operator below is one    *)
(* method and returns the book it leaves behind.                           *)
(*                                                                         *)
(* A level is erased from bids_/asks_ exactly when its shares and its      *)
(* order_count are both zero, so an absent level is the zero aggregate.    *)
(***************************************************************************)
EXTENDS Integers, FiniteSets, FiniteSetsExt

CONSTANTS OrderRefs, Prices

ASSUME BookAssumption == OrderRefs \subseteq Nat /\ Prices \subseteq Nat

Side == {"B", "S"}
OrderRecord == [side : Side, price : Prices, shares : Nat]
NoOrder == [side |-> "none", price |-> 0, shares |-> 0]

LevelAgg == [shares : Nat, order_count : Nat]
NoLevel == [shares |-> 0, order_count |-> 0]

\* A side of TopOfBook; std::nullopt is NoQuote.
PriceLevel == [price : Prices, shares : Nat, orders : Nat]
NoQuote == [price |-> 0, shares |-> 0, orders |-> 0]
TopOfBook == [bid : PriceLevel \cup {NoQuote}, ask : PriceLevel \cup {NoQuote}]

BookType ==
    [orders : [OrderRefs -> OrderRecord \cup {NoOrder}],
     levels : [Side -> [Prices -> LevelAgg]],     \* bids_ and asks_
     attached : BOOLEAN,                          \* is on_top_change_ set?
     last_top : TopOfBook, last_top_valid : BOOLEAN,
     applied : Nat, unknown_order : Nat, duplicate_add : Nat]

\* applied is the sum of stat_adds_, stat_deletes_, ... stat_replaces_.
EmptyBook ==
    [orders |-> [r \in OrderRefs |-> NoOrder],
     levels |-> [d \in Side |-> [p \in Prices |-> NoLevel]],
     attached |-> FALSE,
     last_top |-> [bid |-> NoQuote, ask |-> NoQuote], last_top_valid |-> FALSE,
     applied |-> 0, unknown_order |-> 0, duplicate_add |-> 0]

Resting(b, ref) == b.orders[ref] # NoOrder

-----------------------------------------------------------------------------
(* Price levels.                                                           *)

SetLevel(lv, side, price, l) == [lv EXCEPT ![side] = [lv[side] EXCEPT ![price] = l]]
AddToLevel(lv, side, price, shares) ==
    LET l == lv[side][price] IN
    SetLevel(lv, side, price,
             [shares |-> l.shares + shares, order_count |-> l.order_count + 1])
ReduceLevelShares(lv, side, price, shares) ==
    LET l == lv[side][price] IN
    SetLevel(lv, side, price,
             [shares |-> l.shares - Min({shares, l.shares}), order_count |-> l.order_count])
RemoveOrderFromLevel(lv, side, price) ==
    LET l == lv[side][price] IN
    SetLevel(lv, side, price,
             [shares |-> l.shares,
              order_count |-> IF l.order_count > 0 THEN l.order_count - 1 ELSE 0])

-----------------------------------------------------------------------------
(* Top of book.                                                            *)

Quoted(lv, side) == {p \in Prices : lv[side][p] # NoLevel}
Quote(lv, side, price) ==
    [price |-> price, shares |-> lv[side][price].shares, orders |-> lv[side][price].order_count]
Top(lv) ==
    [bid |-> IF Quoted(lv, "B") = {} THEN NoQuote ELSE Quote(lv, "B", Max(Quoted(lv, "B"))),
     ask |-> IF Quoted(lv, "S") = {} THEN NoQuote ELSE Quote(lv, "S", Min(Quoted(lv, "S")))]

\* Mutant: a change of size at the best price is not a change.
SameQuotePrice(q, r) == (q = NoQuote) = (r = NoQuote) /\ q.price = r.price

\* notify_if_top_changed looks at presence, price and shares, not at orders.
SameQuote(q, r) ==
    /\ (q = NoQuote) = (r = NoQuote)
    /\ q.price = r.price /\ q.shares = r.shares
SameTop(t, u) == SameQuote(t.bid, u.bid) /\ SameQuote(t.ask, u.ask)

NotifyIfTopChanged(b) ==
    IF b.attached /\ (~b.last_top_valid \/ ~SameTop(Top(b.levels), b.last_top))
      THEN [b EXCEPT !.last_top = Top(b.levels), !.last_top_valid = TRUE]
      ELSE b

-----------------------------------------------------------------------------
(* Messages.                                                               *)

\* The order leaves its level and the table.
WithoutOrder(b, ref) ==
    LET o == b.orders[ref] IN
    [b EXCEPT !.orders[ref] = NoOrder,
              !.levels = RemoveOrderFromLevel(
                           ReduceLevelShares(@, o.side, o.price, o.shares), o.side, o.price)]
WithOrder(b, ref, o) ==
    [b EXCEPT !.orders[ref] = o, !.levels = AddToLevel(@, o.side, o.price, o.shares)]
Applied(b) == NotifyIfTopChanged([b EXCEPT !.applied = @ + 1])
Unknown(b) == [b EXCEPT !.unknown_order = @ + 1]

apply_add(b, ref, o) ==
    IF Resting(b, ref) THEN [b EXCEPT !.duplicate_add = @ + 1]
    ELSE Applied(WithOrder(b, ref, o))

apply_delete(b, ref) ==
    IF ~Resting(b, ref) THEN Unknown(b) ELSE Applied(WithoutOrder(b, ref))

\* Mutants: a partial reduction takes the order off its level, or out of the
\* book; a full one leaves it in the table.
ReducedGone(b, ref, shares) == WithoutOrder(b, ref)
ReducedUncounted(b, ref, shares) ==
    LET o == b.orders[ref]
        n == Min({shares, o.shares})
    IN  IF n = o.shares THEN WithoutOrder(b, ref)
        ELSE [b EXCEPT !.orders[ref].shares = @ - n,
                       !.levels = RemoveOrderFromLevel(
                                    ReduceLevelShares(@, o.side, o.price, n), o.side, o.price)]
ReducedKept(b, ref, shares) ==
    LET o == b.orders[ref]
        n == Min({shares, o.shares})
    IN  [b EXCEPT !.orders[ref].shares = @ - n,
                  !.levels = ReduceLevelShares(@, o.side, o.price, n)]

\* apply_cancel and apply_executed are the same code under two names.
Reduced(b, ref, shares) ==
    LET o == b.orders[ref]
        n == Min({shares, o.shares})
    IN  IF n = o.shares THEN WithoutOrder(b, ref)
        ELSE [b EXCEPT !.orders[ref].shares = @ - n,
                       !.levels = ReduceLevelShares(@, o.side, o.price, n)]
apply_cancel(b, ref, shares) ==
    IF ~Resting(b, ref) THEN Unknown(b) ELSE Applied(Reduced(b, ref, shares))
apply_executed(b, ref, shares) ==
    IF ~Resting(b, ref) THEN Unknown(b) ELSE Applied(Reduced(b, ref, shares))

\* new_ref is not looked up: an order already resting under it is overwritten.
apply_replace(b, orig, new_ref, price, shares) ==
    IF ~Resting(b, orig) THEN Unknown(b)
    ELSE Applied(WithOrder(WithoutOrder(b, orig), new_ref,
                   [side |-> b.orders[orig].side, price |-> price, shares |-> shares]))

-----------------------------------------------------------------------------
(* What a book has to satisfy, stated once for every book.                 *)

OrdersAt(b, side, price) ==
    {r \in OrderRefs : Resting(b, r) /\ b.orders[r].side = side /\ b.orders[r].price = price}

\* Every level is the aggregate of the orders resting at it.
LevelsAggregate(b) ==
    \A side \in Side : \A price \in Prices :
        LET at == OrdersAt(b, side, price) IN
        b.levels[side][price] =
            [shares |-> MapThenSumSet(LAMBDA r : b.orders[r].shares, at),
             order_count |-> Cardinality(at)]

\* What the callback was last told has the prices and sizes the book has now.
ToldTheTop(b) ==
    LET now == Top(b.levels) IN
    b.attached /\ b.applied > 0 =>
        /\ <<now.bid.price, now.bid.shares>> = <<b.last_top.bid.price, b.last_top.bid.shares>>
        /\ <<now.ask.price, now.ask.shares>> = <<b.last_top.ask.price, b.last_top.ask.shares>>

=============================================================================

-------------------------- MODULE MultiSymbolBook --------------------------
(***************************************************************************)
(* feed::MultiSymbolBook (include/feed/order_book.hpp): routes the decoded *)
(* ITCH stream to one OrderBook per symbol.  Only an Add names its symbol; *)
(* every other message is routed by the index order_symbol_.  Each action  *)
(* is one whole call of ingest() with a message that parses; a message     *)
(* that does not, or whose type is not in the switch, changes nothing.     *)
(***************************************************************************)
EXTENDS OrderBook

CONSTANTS Symbols, NoSymbol

ASSUME SymbolAssumption == NoSymbol \notin Symbols

VARIABLES
    books,          \* books_; the symbols that have a book are those in wired
    order_symbol,   \* order_symbol_: the routing index
    wired,          \* wired_
    on_top_change,  \* has set_on_top_change been called?
    stat_unrouted

bookVars == <<books, order_symbol, wired, on_top_change, stat_unrouted>>

InitBooks ==
    /\ books = [s \in Symbols |-> EmptyBook]
    /\ order_symbol = [r \in OrderRefs |-> NoSymbol]
    /\ wired = {} /\ on_top_change = FALSE /\ stat_unrouted = 0

set_on_top_change ==
    /\ ~on_top_change /\ on_top_change' = TRUE
    /\ UNCHANGED <<books, order_symbol, wired, stat_unrouted>>

\* wire_book: the callback is attached, if there is one, when the book is made.
Wired(s) ==
    IF s \in wired THEN books[s] ELSE [books[s] EXCEPT !.attached = on_top_change]

\* Mutant: the symbol is not remembered as wired.
IngestAddUnwired(ref, s, o) ==
    /\ order_symbol' = [order_symbol EXCEPT ![ref] = s]
    /\ books' = [books EXCEPT ![s] = apply_add(Wired(s), ref, o)]
    /\ UNCHANGED <<wired, on_top_change, stat_unrouted>>
IngestAdd(ref, s, o) ==
    /\ order_symbol' = [order_symbol EXCEPT ![ref] = s]
    /\ wired' = wired \cup {s}
    /\ books' = [books EXCEPT ![s] = apply_add(Wired(s), ref, o)]
    /\ UNCHANGED <<on_top_change, stat_unrouted>>

Routed(ref) == order_symbol[ref] # NoSymbol

\* A message that finds no book is counted and dropped.
Unrouted(ref) ==
    /\ ~Routed(ref)
    /\ stat_unrouted' = stat_unrouted + 1
    /\ UNCHANGED <<books, order_symbol, wired, on_top_change>>

IngestDelete(ref) ==
    \/ Unrouted(ref)
    \/ /\ Routed(ref)
       /\ books' = [books EXCEPT ![order_symbol[ref]] = apply_delete(@, ref)]
       /\ order_symbol' = [order_symbol EXCEPT ![ref] = NoSymbol]
       /\ UNCHANGED <<wired, on_top_change, stat_unrouted>>

IngestCancel(ref, shares) ==
    \/ Unrouted(ref)
    \/ /\ Routed(ref)
       /\ books' = [books EXCEPT ![order_symbol[ref]] = apply_cancel(@, ref, shares)]
       /\ UNCHANGED <<order_symbol, wired, on_top_change, stat_unrouted>>

\* Mutant: every executed order is taken for gone.
BookOrderAlwaysGone(b, ref) == TRUE

\* book_order_gone always answers no.
book_order_gone(b, ref) == FALSE
IngestExecuted(ref, shares) ==
    \/ Unrouted(ref)
    \/ LET s == order_symbol[ref]
           b == apply_executed(books[s], ref, shares)
       IN  /\ Routed(ref)
           /\ books' = [books EXCEPT ![s] = b]
           /\ order_symbol' = IF book_order_gone(b, ref)
                                THEN [order_symbol EXCEPT ![ref] = NoSymbol] ELSE order_symbol
           /\ UNCHANGED <<wired, on_top_change, stat_unrouted>>

\* Mutant: the new number is not indexed.
IngestReplaceUnindexed(orig, new_ref, price, shares) ==
    \/ Unrouted(orig)
    \/ LET s == order_symbol[orig] IN
       /\ Routed(orig)
       /\ books' = [books EXCEPT ![s] = apply_replace(@, orig, new_ref, price, shares)]
       /\ order_symbol' = [order_symbol EXCEPT ![orig] = NoSymbol]
       /\ UNCHANGED <<wired, on_top_change, stat_unrouted>>

\* The new number is indexed whether or not the book knew the old one.
IngestReplace(orig, new_ref, price, shares) ==
    \/ Unrouted(orig)
    \/ LET s == order_symbol[orig] IN
       /\ Routed(orig)
       /\ books' = [books EXCEPT ![s] = apply_replace(@, orig, new_ref, price, shares)]
       /\ order_symbol' = [order_symbol EXCEPT ![orig] = NoSymbol, ![new_ref] = s]
       /\ UNCHANGED <<wired, on_top_change, stat_unrouted>>

-----------------------------------------------------------------------------
(* Properties.                                                             *)

\* The fields keep their types, and a symbol that has not been wired has no
\* book: nothing has been applied, indexed or told for it.
BooksTypeOK ==
    /\ books \in [Symbols -> BookType]
    /\ order_symbol \in [OrderRefs -> Symbols \cup {NoSymbol}]
    /\ wired \subseteq Symbols /\ on_top_change \in BOOLEAN /\ stat_unrouted \in Nat
    /\ \A s \in Symbols \ wired : books[s] = EmptyBook

\* Every order resting in a book is routed to that book, so the next Cancel,
\* Delete, Executed or Replace about it finds it ("must maintain its own
\* order_ref -> symbol index to route those messages to the right per-symbol
\* book", order_book.hpp:40), and no order rests in two books.
EveryOrderIsRoutable ==
    \A s \in Symbols : \A r \in OrderRefs :
        Resting(books[s], r) => order_symbol[r] = s /\ s \in wired

\* "Does NOT touch order_count ..., a level is only ever erased once it has
\* both zero shares and zero resting orders" (order_book.hpp:203): in every
\* book, through partial and full cancels, fills and replaces, the size and
\* the count at a price are those of the orders resting there.
LevelsAreAggregates == \A s \in Symbols : LevelsAggregate(books[s])

\* A book's callback has been told, with the price and size the book has now,
\* every change of the best bid or ask: a consumer never acts on an old top.
CallbackKnowsTheTop == \A s \in Symbols : ToldTheTop(books[s])

=============================================================================

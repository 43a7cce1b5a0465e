------------------------- MODULE TickToTradeProofs -------------------------
(***************************************************************************)
(* Theorems about the path from the exchange's book to a quote, for any    *)
(* number of symbols, orders and prices and any order of messages: the     *)
(* books mirror the exchange, every order finds its book, levels are the   *)
(* aggregates of their orders, the callback knows the top and a quote lies *)
(* inside the spread.                                                      *)
(***************************************************************************)
EXTENDS TickToTrade, Arithmetic

-----------------------------------------------------------------------------
(* Arithmetic.                                                             *)

\* The greatest of some prices is one of them.
LEMMA BestFacts ==
    ASSUME NEW S \in SUBSET Prices, S # {}
    PROVE  Max(S) \in S /\ \A y \in S : y <= Max(S)
<1>1. PriceMod \in Nat /\ \A x \in S : x \in Nat /\ x <= PriceMod
  BY StreamAssumption, EngineAssumption
<1>2. QED BY <1>1, MaxFacts

\* What is taken from an order or a level.
LEMMA MinOfTwo ==
    ASSUME NEW a \in Nat, NEW b \in Nat
    PROVE  /\ Min({a, b}) \in Nat /\ Min({a, b}) <= b
           /\ Min({a, b}) = IF a <= b THEN a ELSE b
BY MinFacts

-----------------------------------------------------------------------------
(* One book.                                                               *)

LevelsType == [Side -> [Prices -> LevelAgg]]

\* The operations on levels leave levels.
LEMMA LevelOps ==
    ASSUME NEW lv \in LevelsType, NEW side \in Side, NEW price \in Prices, NEW n \in Nat
    PROVE  /\ AddToLevel(lv, side, price, n) \in LevelsType
           /\ ReduceLevelShares(lv, side, price, n) \in LevelsType
           /\ RemoveOrderFromLevel(lv, side, price) \in LevelsType
<1> DEFINE l == lv[side][price]
<1>1. l \in LevelAgg BY DEF LevelsType
<1>2. ASSUME NEW k \in LevelAgg PROVE SetLevel(lv, side, price, k) \in LevelsType
  BY <1>2 DEF SetLevel, LevelsType
<1>3. l.shares \in Nat /\ l.order_count \in Nat BY <1>1 DEF LevelAgg
<1>4. l.shares - Min({n, l.shares}) \in Nat BY <1>3, MinOfTwo
<1> HIDE DEF l
<1>5. [shares |-> l.shares + n, order_count |-> l.order_count + 1] \in LevelAgg
  BY <1>3 DEF LevelAgg
<1>6. [shares |-> l.shares - Min({n, l.shares}), order_count |-> l.order_count] \in LevelAgg
  BY <1>3, <1>4 DEF LevelAgg
<1>7. [shares |-> l.shares,
       order_count |-> IF l.order_count > 0 THEN l.order_count - 1 ELSE 0] \in LevelAgg
  BY <1>3 DEF LevelAgg
<1>8. QED
  BY <1>2, <1>5, <1>6, <1>7 DEF l, AddToLevel, ReduceLevelShares, RemoveOrderFromLevel

\* The top of some levels: a quote on each side that has one.
LEMMA TopFacts ==
    ASSUME NEW lv \in LevelsType
    PROVE  /\ Top(lv) \in TopOfBook
           /\ Top(lv).bid # NoQuote => Top(lv).bid.price \in Prices
           /\ Top(lv).ask # NoQuote => Top(lv).ask.price \in Prices
<1>1. ASSUME NEW side \in Side, NEW p \in Prices PROVE Quote(lv, side, p) \in PriceLevel
  <2>1. lv[side][p] \in LevelAgg BY DEF LevelsType
  <2>2. QED BY <2>1 DEF LevelAgg, Quote, PriceLevel
<1>2. \A side \in Side : Quoted(lv, side) \in SUBSET Prices BY DEF Quoted
<1>3. Prices \subseteq Nat BY BookAssumption
<1>4. Top(lv).bid \in PriceLevel \cup {NoQuote}
  <2>1. CASE Quoted(lv, "B") = {} BY <2>1 DEF Top
  <2>2. CASE Quoted(lv, "B") # {}
    <3>1. Max(Quoted(lv, "B")) \in Prices BY <1>2, <2>2, BestFacts DEF Side
    <3>2. QED BY <1>1, <2>2, <3>1 DEF Top, Side
  <2>3. QED BY <2>1, <2>2
<1>5. Top(lv).ask \in PriceLevel \cup {NoQuote}
  <2>1. CASE Quoted(lv, "S") = {} BY <2>1 DEF Top
  <2>2. CASE Quoted(lv, "S") # {}
    <3>1. Quoted(lv, "S") \in SUBSET Nat BY <1>2, <1>3 DEF Side
    <3>2. Min(Quoted(lv, "S")) \in Prices BY <1>2, <2>2, <3>1, MinFacts DEF Side
    <3>3. QED BY <1>1, <2>2, <3>2 DEF Top, Side
  <2>3. QED BY <2>1, <2>2
<1>6. Top(lv) \in TopOfBook BY <1>4, <1>5 DEF Top, TopOfBook
<1>7. QED BY <1>4, <1>5, <1>6 DEF PriceLevel

-----------------------------------------------------------------------------
(* The shares of some orders.                                              *)

Total(b, S) == MapThenSumSet(LAMBDA r : b.orders[r].shares, S)
Shares(b, S) == [r \in S |-> b.orders[r].shares]

\* A total is a sum in the sense of Arithmetic.
LEMMA TotalIsSum ==
    ASSUME NEW b, NEW S, NEW T \in SUBSET S, IsFiniteSet(S)
    PROVE  Total(b, T) = SumOf(Shares(b, S), T)
<1> DEFINE w == Shares(b, S)
           TotalsTo(g) == g = [s \in SUBSET T |->
               IF s = {} THEN 0 ELSE b.orders[Pick(s)].shares + g[s \ {Pick(s)}]]
<1>1. Total(b, T) = (CHOOSE g : TotalsTo(g))[T]
  BY Zenon DEF Total, MapThenSumSet, MapThenFoldSet, Pick
<1>2. IsFiniteSet(T) BY FS_Subset
<1>3. SumOf(w, T) = (CHOOSE g : Sums(w, T, g))[T] /\ Sums(w, T, CHOOSE g : Sums(w, T, g))
  BY <1>2, SumsExist, SumOfIsSum
<1>4. \A s \in SUBSET T : s # {} => w[Pick(s)] = b.orders[Pick(s)].shares
  BY PickFacts DEF Shares
<1>5. \A g : TotalsTo(g) <=> Sums(w, T, g) BY <1>4 DEF Sums
<1> HIDE DEF w, TotalsTo
<1>6. TotalsTo(CHOOSE g : TotalsTo(g)) BY <1>3, <1>5
<1>7. Sums(w, T, CHOOSE g : TotalsTo(g)) BY <1>5, <1>6
<1>8. (CHOOSE g : TotalsTo(g))[T] = (CHOOSE g : Sums(w, T, g))[T]
  BY <1>2, <1>3, <1>7, SumsAgree
<1>9. QED BY <1>1, <1>3, <1>8 DEF w

\* What the total of some orders is: nothing for none, and one order and the
\* total of the others.
LEMMA TotalFacts ==
    ASSUME NEW b, NEW S, IsFiniteSet(S), \A r \in S : b.orders[r].shares \in Nat
    PROVE  /\ Total(b, {}) = 0 /\ Total(b, S) \in Nat
           /\ \A x \in S : Total(b, S \ {x}) \in Nat
                /\ Total(b, S) = Total(b, S \ {x}) + b.orders[x].shares
<1> DEFINE w == Shares(b, S)
<1>1. \A T \in SUBSET S : Total(b, T) = SumOf(w, T) BY TotalIsSum
<1>2. \A r \in S : w[r] = b.orders[r].shares /\ w[r] \in Nat BY DEF Shares
<1> HIDE DEF w
<1>3. /\ SumOf(w, {}) = 0 /\ SumOf(w, S) \in Nat
      /\ \A x \in S : SumOf(w, S \ {x}) \in Nat /\ SumOf(w, S) = SumOf(w, S \ {x}) + w[x]
  BY <1>2, SumFacts
<1>4. {} \in SUBSET S /\ S \in SUBSET S /\ \A x \in S : S \ {x} \in SUBSET S OBVIOUS
<1>5. QED BY <1>1, <1>2, <1>3, <1>4

\* Books that agree about some orders have the same total of them.
LEMMA TotalAgrees ==
    ASSUME NEW b, NEW c, NEW S, IsFiniteSet(S),
           \A r \in S : b.orders[r].shares = c.orders[r].shares
    PROVE  Total(b, S) = Total(c, S)
<1>1. Shares(b, S) = Shares(c, S) BY DEF Shares
<1>2. S \in SUBSET S OBVIOUS
<1>3. QED BY <1>1, <1>2, TotalIsSum

-----------------------------------------------------------------------------
(* Levels as aggregates.                                                   *)

\* Every level is the aggregate of finitely many orders.
Aggregated(b) ==
    \A side \in Side, price \in Prices :
        LET at == OrdersAt(b, side, price) IN
        /\ IsFiniteSet(at)
        /\ b.levels[side][price] = [shares |-> Total(b, at), order_count |-> Cardinality(at)]

\* It is what LevelsAggregate says, and that the orders are finitely many.
LEMMA AggregatedFacts == ASSUME NEW b, Aggregated(b) PROVE LevelsAggregate(b)
BY Zenon DEF Aggregated, LevelsAggregate, Total

\* It depends only on the orders and the levels.
LEMMA SameAggregated ==
    ASSUME NEW b, NEW c, Aggregated(b), c.orders = b.orders, c.levels = b.levels
    PROVE  Aggregated(c)
<1> SUFFICES ASSUME NEW side \in Side, NEW price \in Prices
             PROVE  LET at == OrdersAt(c, side, price) IN
                    /\ IsFiniteSet(at)
                    /\ c.levels[side][price] =
                         [shares |-> Total(c, at), order_count |-> Cardinality(at)]
  BY DEF Aggregated
<1>1. OrdersAt(c, side, price) = OrdersAt(b, side, price) BY DEF OrdersAt, Resting
<1>2. PICK at : at = OrdersAt(b, side, price) OBVIOUS
<1>3. IsFiniteSet(at) /\ b.levels[side][price] =
        [shares |-> Total(b, at), order_count |-> Cardinality(at)]
  BY <1>2 DEF Aggregated
<1>4. Total(b, at) = Total(c, at) BY <1>3, TotalAgrees
<1>5. QED BY <1>1, <1>2, <1>3, <1>4

\* One level is set, the others are not.
LEMMA SetLevelFacts ==
    ASSUME NEW lv \in LevelsType, NEW sd \in Side, NEW pr \in Prices, NEW l
    PROVE  /\ SetLevel(lv, sd, pr, l)[sd][pr] = l
           /\ \A side \in Side, price \in Prices : side # sd \/ price # pr =>
                SetLevel(lv, sd, pr, l)[side][price] = lv[side][price]
BY DEF SetLevel, LevelsType

\* A level after the other two operations.
Smaller(l, n) == [shares |-> l.shares - Min({n, l.shares}), order_count |-> l.order_count]
Fewer(l) ==
    [shares |-> l.shares, order_count |-> IF l.order_count > 0 THEN l.order_count - 1 ELSE 0]

\* What they do to a level and leave of the others.
LEMMA ReduceAt ==
    ASSUME NEW lv \in LevelsType, NEW sd \in Side, NEW pr \in Prices, NEW n,
           NEW side \in Side, NEW price \in Prices
    PROVE  ReduceLevelShares(lv, sd, pr, n)[side][price] =
             IF side = sd /\ price = pr THEN Smaller(lv[side][price], n) ELSE lv[side][price]
<1>1. ReduceLevelShares(lv, sd, pr, n) = SetLevel(lv, sd, pr, Smaller(lv[sd][pr], n))
  BY DEF ReduceLevelShares, Smaller
<1>2. QED BY <1>1, SetLevelFacts

\* The same for an order that is no longer counted.
LEMMA RemoveAt ==
    ASSUME NEW lv \in LevelsType, NEW sd \in Side, NEW pr \in Prices,
           NEW side \in Side, NEW price \in Prices
    PROVE  RemoveOrderFromLevel(lv, sd, pr)[side][price] =
             IF side = sd /\ price = pr THEN Fewer(lv[side][price]) ELSE lv[side][price]
<1>1. RemoveOrderFromLevel(lv, sd, pr) = SetLevel(lv, sd, pr, Fewer(lv[sd][pr]))
  BY DEF RemoveOrderFromLevel, Fewer
<1>2. QED BY <1>1, SetLevelFacts

\* What is known of the level an order is at, in an aggregated book.
LEMMA LevelOfOrder ==
    ASSUME NEW b \in BookType, Aggregated(b), NEW side \in Side, NEW price \in Prices,
           NEW at, at = OrdersAt(b, side, price)
    PROVE  /\ b.levels[side][price] =
                [shares |-> Total(b, at), order_count |-> Cardinality(at)]
           /\ IsFiniteSet(at) /\ Cardinality(at) \in Nat /\ Total(b, at) \in Nat
           /\ \A r \in at : b.orders[r].shares \in Nat
           /\ \A r \in at : Total(b, at \ {r}) \in Nat
                /\ Total(b, at) = Total(b, at \ {r}) + b.orders[r].shares
<1>1. IsFiniteSet(at) /\ b.levels[side][price] =
        [shares |-> Total(b, at), order_count |-> Cardinality(at)]
  BY DEF Aggregated
<1>2. \A r \in at : b.orders[r].shares \in Nat
  BY DEF OrdersAt, Resting, BookType, OrderRecord
<1>3. Cardinality(at) \in Nat BY <1>1, FS_CardinalityType
<1>4. QED BY <1>1, <1>2, <1>3, TotalFacts

\* An order joins its level.
LEMMA JoinAggregates ==
    ASSUME NEW b \in BookType, Aggregated(b), NEW ref \in OrderRefs, ~Resting(b, ref),
           NEW o \in OrderRecord, NEW c, c.orders = [b.orders EXCEPT ![ref] = o],
           c.levels = AddToLevel(b.levels, o.side, o.price, o.shares)
    PROVE  Aggregated(c)
<1> SUFFICES ASSUME NEW side \in Side, NEW price \in Prices
             PROVE  LET at == OrdersAt(c, side, price) IN
                    /\ IsFiniteSet(at)
                    /\ c.levels[side][price] =
                         [shares |-> Total(c, at), order_count |-> Cardinality(at)]
  BY DEF Aggregated
<1>1. PICK at : at = OrdersAt(b, side, price) OBVIOUS
<1>2. PICK new : new = OrdersAt(c, side, price) OBVIOUS
<1>3. b.levels \in LevelsType /\ b.orders \in [OrderRefs -> OrderRecord \cup {NoOrder}]
  BY DEF BookType, LevelsType
<1>4. o.side \in Side /\ o.price \in Prices /\ o.shares \in Nat /\ o # NoOrder
  BY DEF OrderRecord, NoOrder, Side
<1>5. /\ b.levels[side][price] = [shares |-> Total(b, at), order_count |-> Cardinality(at)]
      /\ IsFiniteSet(at) /\ Cardinality(at) \in Nat /\ Total(b, at) \in Nat
      /\ \A r \in at : b.orders[r].shares \in Nat
  BY <1>1, LevelOfOrder
<1>6. c.orders[ref] = o /\ \A r \in OrderRefs \ {ref} : c.orders[r] = b.orders[r] BY <1>3
<1>7. ref \notin at /\ at \subseteq OrderRefs BY <1>1 DEF OrdersAt
<1>8. Total(b, at) = Total(c, at)
  <2>1. \A r \in at : b.orders[r].shares = c.orders[r].shares BY <1>6, <1>7
  <2>2. QED BY <1>5, <2>1, TotalAgrees
<1>9. CASE side = o.side /\ price = o.price
  <2>1. new = at \cup {ref} BY <1>1, <1>2, <1>4, <1>6, <1>9 DEF OrdersAt, Resting
  <2>2. IsFiniteSet(new) /\ Cardinality(new) = Cardinality(at) + 1
    BY <1>5, <1>7, <2>1, FS_AddElement
  <2>3. \A r \in new : c.orders[r].shares \in Nat BY <1>4, <1>5, <1>6, <1>7, <2>1
  <2>4. ref \in new /\ new \ {ref} = at BY <1>7, <2>1
  <2>5. Total(c, new) = Total(c, new \ {ref}) + c.orders[ref].shares
    BY ONLY <2>2, <2>3, <2>4, TotalFacts
  <2>6. Total(c, new) = Total(b, at) + o.shares BY <1>6, <1>8, <2>4, <2>5
  <2>7. c.levels[side][price] =
          [shares |-> b.levels[side][price].shares + o.shares,
           order_count |-> b.levels[side][price].order_count + 1]
    BY <1>3, <1>9, SetLevelFacts DEF AddToLevel
  <2>8. QED BY <1>2, <1>5, <2>2, <2>6, <2>7
<1>10. CASE ~(side = o.side /\ price = o.price)
  <2>1. new = at BY <1>1, <1>2, <1>4, <1>6, <1>10 DEF OrdersAt, Resting
  <2>2. c.levels[side][price] = b.levels[side][price]
    BY <1>3, <1>4, <1>10, SetLevelFacts DEF AddToLevel
  <2>3. QED BY <1>2, <1>5, <1>8, <2>1, <2>2
<1>11. QED BY <1>9, <1>10

\* An order leaves its level.
LEMMA LeaveAggregates ==
    ASSUME NEW b \in BookType, Aggregated(b), NEW ref \in OrderRefs, Resting(b, ref),
           NEW o, o = b.orders[ref], NEW c, c.orders = [b.orders EXCEPT ![ref] = NoOrder],
           c.levels = RemoveOrderFromLevel(
                        ReduceLevelShares(b.levels, o.side, o.price, o.shares), o.side, o.price)
    PROVE  Aggregated(c)
<1> SUFFICES ASSUME NEW side \in Side, NEW price \in Prices
             PROVE  LET at == OrdersAt(c, side, price) IN
                    /\ IsFiniteSet(at)
                    /\ c.levels[side][price] =
                         [shares |-> Total(c, at), order_count |-> Cardinality(at)]
  BY DEF Aggregated
<1>0. side \in Side /\ price \in Prices OBVIOUS
<1>1. PICK at : at = OrdersAt(b, side, price) OBVIOUS
<1>2. PICK new : new = OrdersAt(c, side, price) OBVIOUS
<1>3. b.levels \in LevelsType /\ b.orders \in [OrderRefs -> OrderRecord \cup {NoOrder}]
  BY DEF BookType, LevelsType
<1>4. o.side \in Side /\ o.price \in Prices /\ o.shares \in Nat
  BY <1>3 DEF OrderRecord, Resting
<1>5. /\ b.levels[side][price] = [shares |-> Total(b, at), order_count |-> Cardinality(at)]
      /\ IsFiniteSet(at) /\ Cardinality(at) \in Nat /\ Total(b, at) \in Nat
      /\ \A r \in at : Total(b, at \ {r}) \in Nat
           /\ Total(b, at) = Total(b, at \ {r}) + b.orders[r].shares
  BY <1>1, LevelOfOrder
<1>6. c.orders[ref] = NoOrder /\ \A r \in OrderRefs \ {ref} : c.orders[r] = b.orders[r]
  BY <1>3
<1>7. PICK lv : lv = ReduceLevelShares(b.levels, o.side, o.price, o.shares) OBVIOUS
<1>8. lv \in LevelsType BY <1>3, <1>4, <1>7, LevelOps
<1>9. CASE side = o.side /\ price = o.price
  <2>1. ref \in at /\ at \subseteq OrderRefs BY <1>1, <1>9 DEF OrdersAt
  <2>2. new = at \ {ref} BY <1>1, <1>2, <1>6 DEF OrdersAt, Resting
  <2>3. IsFiniteSet(new) /\ Cardinality(new) = Cardinality(at) - 1
    BY <1>5, <2>1, <2>2, FS_RemoveElement
  <2>4. Total(b, new) = Total(c, new)
    <3>1. \A r \in new : b.orders[r].shares = c.orders[r].shares BY <1>6, <2>1, <2>2
    <3>2. QED BY <2>3, <3>1, TotalAgrees
  <2>5. Total(b, new) \in Nat /\ Total(b, at) = Total(b, new) + o.shares
    BY <1>5, <2>1, <2>2
  <2>6. Cardinality(at) > 0 BY <1>5, <2>1, FS_EmptySet
  <2>7. lv[side][price] =
          [shares |-> Total(b, at) - Min({o.shares, Total(b, at)}),
           order_count |-> Cardinality(at)]
    <3>1. lv[side][price] = Smaller(b.levels[side][price], o.shares)
      BY ONLY <1>0, <1>3, <1>4, <1>7, <1>9, ReduceAt
    <3>2. QED BY ONLY <1>5, <3>1 DEF Smaller
  <2>8. Total(b, at) - Min({o.shares, Total(b, at)}) = Total(b, new)
    BY <1>4, <1>5, <2>5, MinOfTwo
  <2>9. c.levels[side][price] = Fewer(lv[side][price])
    <3>1. c.levels = RemoveOrderFromLevel(lv, o.side, o.price) BY <1>7
    <3>2. QED BY ONLY <1>0, <1>4, <1>8, <1>9, <3>1, RemoveAt
  <2>10. c.levels[side][price] =
           [shares |-> Total(b, new), order_count |-> Cardinality(at) - 1]
    BY ONLY <2>6, <2>7, <2>8, <2>9 DEF Fewer
  <2>11. QED BY <1>2, <2>3, <2>4, <2>10
<1>10. CASE ~(side = o.side /\ price = o.price)
  <2>1. ref \notin at /\ at \subseteq OrderRefs BY <1>1, <1>10 DEF OrdersAt
  <2>2. new = at BY <1>1, <1>2, <1>6, <2>1 DEF OrdersAt, Resting
  <2>3. Total(b, at) = Total(c, at)
    <3>1. \A r \in at : b.orders[r].shares = c.orders[r].shares BY <1>6, <2>1
    <3>2. QED BY ONLY <1>5, <3>1, TotalAgrees
  <2>4. lv[side][price] = b.levels[side][price]
    BY ONLY <1>0, <1>3, <1>4, <1>7, <1>10, ReduceAt
  <2>5. c.levels[side][price] = lv[side][price]
    <3>1. c.levels = RemoveOrderFromLevel(lv, o.side, o.price) BY <1>7
    <3>2. QED BY ONLY <1>0, <1>4, <1>8, <1>10, <3>1, RemoveAt
  <2>6. QED BY <1>2, <1>5, <2>2, <2>3, <2>4, <2>5
<1>11. QED BY <1>9, <1>10

\* An order stays at its level with fewer shares.
LEMMA ShrinkAggregates ==
    ASSUME NEW b \in BookType, Aggregated(b), NEW ref \in OrderRefs, Resting(b, ref),
           NEW o, o = b.orders[ref], NEW n \in Nat, n < o.shares, NEW c,
           c.orders = [b.orders EXCEPT
             ![ref] = [side |-> o.side, price |-> o.price, shares |-> o.shares - n]],
           c.levels = ReduceLevelShares(b.levels, o.side, o.price, n)
    PROVE  Aggregated(c)
<1> SUFFICES ASSUME NEW side \in Side, NEW price \in Prices
             PROVE  LET at == OrdersAt(c, side, price) IN
                    /\ IsFiniteSet(at)
                    /\ c.levels[side][price] =
                         [shares |-> Total(c, at), order_count |-> Cardinality(at)]
  BY DEF Aggregated
<1>0. side \in Side /\ price \in Prices OBVIOUS
<1>1. PICK at : at = OrdersAt(b, side, price) OBVIOUS
<1>3. b.levels \in LevelsType /\ b.orders \in [OrderRefs -> OrderRecord \cup {NoOrder}]
  BY DEF BookType, LevelsType
<1>4. o.side \in Side /\ o.price \in Prices /\ o.shares \in Nat
  BY <1>3 DEF OrderRecord, Resting
<1>5. /\ b.levels[side][price] = [shares |-> Total(b, at), order_count |-> Cardinality(at)]
      /\ IsFiniteSet(at) /\ Cardinality(at) \in Nat /\ Total(b, at) \in Nat
      /\ \A r \in at : b.orders[r].shares \in Nat
      /\ \A r \in at : Total(b, at \ {r}) \in Nat
           /\ Total(b, at) = Total(b, at \ {r}) + b.orders[r].shares
  BY <1>1, LevelOfOrder
<1>6. PICK p : p = [side |-> o.side, price |-> o.price, shares |-> o.shares - n] OBVIOUS
<1>7. p # NoOrder /\ p.side = o.side /\ p.price = o.price /\ p.shares = o.shares - n
      /\ p.shares \in Nat
  BY <1>4, <1>6 DEF NoOrder, Side
<1>8. c.orders[ref] = p /\ \A r \in OrderRefs \ {ref} : c.orders[r] = b.orders[r]
  BY <1>3, <1>6
<1>9. OrdersAt(c, side, price) = at /\ at \subseteq OrderRefs
  BY <1>1, <1>7, <1>8 DEF OrdersAt, Resting
<1>10. CASE side = o.side /\ price = o.price
  <2>1. ref \in at BY <1>1, <1>10 DEF OrdersAt
  <2>2. IsFiniteSet(at \ {ref}) BY <1>5, FS_RemoveElement
  <2>3. Total(b, at \ {ref}) = Total(c, at \ {ref})
    <3>1. \A r \in at \ {ref} : b.orders[r].shares = c.orders[r].shares BY <1>8, <1>9
    <3>2. QED BY ONLY <2>2, <3>1, TotalAgrees
  <2>4. \A r \in at : c.orders[r].shares \in Nat BY <1>5, <1>7, <1>8, <1>9
  <2>5. Total(c, at) = Total(c, at \ {ref}) + p.shares
    <3>1. Total(c, at) = Total(c, at \ {ref}) + c.orders[ref].shares
      BY ONLY <1>5, <2>1, <2>4, TotalFacts
    <3>2. QED BY <1>8, <3>1
  <2>6. PICK rest \in Nat : rest = Total(b, at \ {ref}) BY <1>5, <2>1
  <2>7. Total(b, at) = rest + o.shares BY <1>5, <2>1, <2>6
  <2>8. Total(c, at) = rest + (o.shares - n) BY <1>7, <2>3, <2>5, <2>6
  <2>9. Min({n, Total(b, at)}) = n BY <1>4, <1>5, <2>7, MinOfTwo
  <2>10. c.levels[side][price] =
           [shares |-> Total(b, at) - Min({n, Total(b, at)}), order_count |-> Cardinality(at)]
    <3>1. c.levels = ReduceLevelShares(b.levels, o.side, o.price, n) OBVIOUS
    <3>2. c.levels[side][price] = Smaller(b.levels[side][price], n)
      BY ONLY <1>0, <1>3, <1>4, <1>10, <3>1, ReduceAt
    <3>3. QED BY ONLY <1>5, <3>2 DEF Smaller
  <2>11. Total(b, at) - n = rest + (o.shares - n) BY <1>4, <2>7
  <2>12. QED BY <1>5, <1>9, <2>8, <2>9, <2>10, <2>11
<1>11. CASE ~(side = o.side /\ price = o.price)
  <2>1. ref \notin at BY <1>1, <1>11 DEF OrdersAt
  <2>2. Total(b, at) = Total(c, at)
    <3>1. \A r \in at : b.orders[r].shares = c.orders[r].shares BY <1>8, <1>9, <2>1
    <3>2. QED BY ONLY <1>5, <3>1, TotalAgrees
  <2>3. c.levels[side][price] = b.levels[side][price]
    <3>1. c.levels = ReduceLevelShares(b.levels, o.side, o.price, n) OBVIOUS
    <3>2. QED BY ONLY <1>0, <1>3, <1>4, <1>11, <3>1, ReduceAt
  <2>4. QED BY <1>5, <1>9, <2>2, <2>3
<1>12. QED BY <1>10, <1>11

\* If b's levels are aggregates, so are c's.
Keeps(b, c) == Aggregated(b) => Aggregated(c)

-----------------------------------------------------------------------------
(* Messages to one book.                                                   *)

\* Counting a message and telling the top changes nothing else of a book; the
\* callback, if there is one, knows the top afterwards, and whatever new top
\* it is told is the one the book has.
LEMMA AppliedFacts ==
    ASSUME NEW b \in BookType
    PROVE  LET c == Applied(b) IN
           /\ c \in BookType /\ c.orders = b.orders /\ c.levels = b.levels
           /\ c.unknown_order = b.unknown_order /\ c.duplicate_add = b.duplicate_add
           /\ ToldTheTop(c)
           /\ <<c.last_top, c.last_top_valid>> # <<b.last_top, b.last_top_valid>> =>
                c.last_top = Top(c.levels)
<1> DEFINE a == [b EXCEPT !.applied = @ + 1]
           top == Top(b.levels)
<1>0. /\ b.levels \in LevelsType /\ b.applied \in Nat /\ b.attached \in BOOLEAN
      /\ b.last_top \in TopOfBook /\ b.last_top_valid \in BOOLEAN
  BY DEF BookType, LevelsType
<1>1. /\ a \in BookType /\ a.orders = b.orders /\ a.levels = b.levels
      /\ a.attached = b.attached /\ a.last_top = b.last_top
      /\ a.last_top_valid = b.last_top_valid
      /\ a.unknown_order = b.unknown_order /\ a.duplicate_add = b.duplicate_add
  BY <1>0 DEF BookType
<1>2. top \in TopOfBook BY <1>0, TopFacts
<1> HIDE DEF a, top
<1>3. Applied(b) = IF a.attached /\ (~a.last_top_valid \/ ~SameTop(top, a.last_top))
                     THEN [a EXCEPT !.last_top = top, !.last_top_valid = TRUE] ELSE a
  BY <1>1 DEF a, top, Applied, NotifyIfTopChanged
<1>4. CASE a.attached /\ (~a.last_top_valid \/ ~SameTop(top, a.last_top))
  <2> DEFINE c == [a EXCEPT !.last_top = top, !.last_top_valid = TRUE]
  <2>1. /\ c \in BookType /\ c.orders = b.orders /\ c.levels = b.levels
        /\ c.unknown_order = b.unknown_order /\ c.duplicate_add = b.duplicate_add
        /\ c.last_top = top
    BY <1>1, <1>2 DEF BookType
  <2>2. Applied(b) = c BY <1>3, <1>4
  <2> HIDE DEF c
  <2>3. c.last_top = Top(c.levels) BY <2>1 DEF top
  <2>4. ToldTheTop(c) BY <2>3 DEF ToldTheTop
  <2>5. QED BY <2>1, <2>2, <2>3, <2>4
<1>5. CASE ~(a.attached /\ (~a.last_top_valid \/ ~SameTop(top, a.last_top)))
  <2>1. Applied(b) = a BY <1>3, <1>5
  <2>2. a.attached => SameTop(top, a.last_top) BY <1>5
  <2>3. ToldTheTop(a) BY <1>1, <2>2 DEF top, ToldTheTop, SameTop, SameQuote
  <2>4. QED BY <1>1, <2>1, <2>3
<1>6. QED BY <1>4, <1>5

\* Book c has the orders f, and what b has of the rest but the levels.
Moved(b, c, f) ==
    /\ c \in BookType /\ c.orders = f
    /\ c.unknown_order = b.unknown_order /\ c.duplicate_add = b.duplicate_add
    /\ c.last_top = b.last_top /\ c.last_top_valid = b.last_top_valid

\* New orders and new levels in a book.
Rebuilt(b, f, lv) == [b EXCEPT !.orders = f, !.levels = lv]
LEMMA MovedFacts ==
    ASSUME NEW b \in BookType, NEW lv \in LevelsType,
           NEW f \in [OrderRefs -> OrderRecord \cup {NoOrder}]
    PROVE  Moved(b, Rebuilt(b, f, lv), f)
BY DEF Rebuilt, Moved, BookType, LevelsType

\* An order that leaves a book.
LEMMA OrderLeaves ==
    ASSUME NEW b \in BookType, NEW ref \in OrderRefs, Resting(b, ref)
    PROVE  /\ Moved(b, WithoutOrder(b, ref), [b.orders EXCEPT ![ref] = NoOrder])
           /\ Keeps(b, WithoutOrder(b, ref))
<1> DEFINE o == b.orders[ref]
           f == [b.orders EXCEPT ![ref] = NoOrder]
           lv == RemoveOrderFromLevel(
                   ReduceLevelShares(b.levels, o.side, o.price, o.shares), o.side, o.price)
<1>0. b.levels \in LevelsType /\ b.orders \in [OrderRefs -> OrderRecord \cup {NoOrder}]
  BY DEF BookType, LevelsType
<1>1. o \in OrderRecord BY <1>0 DEF Resting
<1>2. o.side \in Side /\ o.price \in Prices /\ o.shares \in Nat BY <1>1 DEF OrderRecord
<1>3. lv \in LevelsType BY <1>0, <1>2, LevelOps
<1>4. f \in [OrderRefs -> OrderRecord \cup {NoOrder}] BY <1>0
<1>5. WithoutOrder(b, ref) = Rebuilt(b, f, lv) BY DEF WithoutOrder, Rebuilt, BookType
<1>6. ASSUME Aggregated(b) PROVE Aggregated(WithoutOrder(b, ref))
  <2> DEFINE c == WithoutOrder(b, ref)
  <2>1. c.orders = [b.orders EXCEPT ![ref] = NoOrder] /\ c.levels = lv
    BY <1>5 DEF Rebuilt, BookType
  <2> HIDE DEF c
  <2>2. Aggregated(c) BY <1>6, <2>1, LeaveAggregates
  <2>3. QED BY <2>2 DEF c
<1> HIDE DEF o, f, lv
<1>7. Moved(b, WithoutOrder(b, ref), f) BY <1>3, <1>4, <1>5, MovedFacts
<1>8. QED BY <1>6, <1>7 DEF f, Keeps

\* An order that joins a book under a number that is free.
LEMMA OrderJoins ==
    ASSUME NEW b \in BookType, NEW ref \in OrderRefs, ~Resting(b, ref), NEW o \in OrderRecord
    PROVE  /\ Moved(b, WithOrder(b, ref, o), [b.orders EXCEPT ![ref] = o])
           /\ Keeps(b, WithOrder(b, ref, o))
<1> DEFINE f == [b.orders EXCEPT ![ref] = o]
           lv == AddToLevel(b.levels, o.side, o.price, o.shares)
<1>0. b.levels \in LevelsType /\ b.orders \in [OrderRefs -> OrderRecord \cup {NoOrder}]
  BY DEF BookType, LevelsType
<1>1. o.side \in Side /\ o.price \in Prices /\ o.shares \in Nat BY DEF OrderRecord
<1>2. lv \in LevelsType BY <1>0, <1>1, LevelOps
<1>3. f \in [OrderRefs -> OrderRecord \cup {NoOrder}] BY <1>0
<1>4. WithOrder(b, ref, o) = Rebuilt(b, f, lv) BY DEF WithOrder, Rebuilt, BookType
<1>5. ASSUME Aggregated(b) PROVE Aggregated(WithOrder(b, ref, o))
  <2> DEFINE c == WithOrder(b, ref, o)
  <2>1. c.orders = [b.orders EXCEPT ![ref] = o] /\ c.levels = lv
    BY <1>4 DEF Rebuilt, BookType
  <2> HIDE DEF c
  <2>2. Aggregated(c) BY <1>5, <2>1, JoinAggregates
  <2>3. QED BY <2>2 DEF c
<1> HIDE DEF f, lv
<1>6. Moved(b, WithOrder(b, ref, o), f) BY <1>2, <1>3, <1>4, MovedFacts
<1>7. QED BY <1>5, <1>6 DEF f, Keeps

\* An order with n shares fewer, gone when none is left.
Less(o, n) ==
    IF n >= o.shares THEN NoOrder
    ELSE [side |-> o.side, price |-> o.price, shares |-> o.shares - n]

\* An order that is cancelled or executed in part or in full.
LEMMA OrderShrinks ==
    ASSUME NEW b \in BookType, NEW ref \in OrderRefs, Resting(b, ref), NEW n \in Nat
    PROVE  /\ Moved(b, Reduced(b, ref, n), [b.orders EXCEPT ![ref] = Less(b.orders[ref], n)])
           /\ Keeps(b, Reduced(b, ref, n))
<1> DEFINE o == b.orders[ref]
           m == Min({n, o.shares})
<1>0. b.levels \in LevelsType /\ b.orders \in [OrderRefs -> OrderRecord \cup {NoOrder}]
  BY DEF BookType, LevelsType
<1>1. o \in OrderRecord BY <1>0 DEF Resting
<1>2. o.side \in Side /\ o.price \in Prices /\ o.shares \in Nat BY <1>1 DEF OrderRecord
<1>3. m \in Nat /\ m <= o.shares /\ m = IF n <= o.shares THEN n ELSE o.shares
  BY <1>2, MinOfTwo
<1>4. CASE n >= o.shares
  <2>1. m = o.shares BY <1>2, <1>3, <1>4
  <2>2. Reduced(b, ref, n) = WithoutOrder(b, ref) BY <2>1 DEF Reduced
  <2>3. Less(o, n) = NoOrder BY <1>4 DEF Less
  <2>4. QED BY <2>2, <2>3, OrderLeaves
<1>5. CASE ~(n >= o.shares)
  <2> DEFINE p == [side |-> o.side, price |-> o.price, shares |-> o.shares - n]
             f == [b.orders EXCEPT ![ref] = p]
             lv == ReduceLevelShares(b.levels, o.side, o.price, n)
  <2>1. m = n /\ m # o.shares BY <1>2, <1>3, <1>5
  <2>2. p \in OrderRecord BY <1>2, <1>5 DEF OrderRecord
  <2>3. lv \in LevelsType BY <1>0, <1>2, LevelOps
  <2>4. f \in [OrderRefs -> OrderRecord \cup {NoOrder}] BY <1>0, <2>2
  <2>5. Reduced(b, ref, n) = [b EXCEPT !.orders[ref].shares = @ - n,
                                       !.levels = lv]
    BY <2>1 DEF Reduced
  <2>6. [o EXCEPT !.shares = o.shares - n] = p BY <1>1 DEF OrderRecord
  <2>7. [b EXCEPT !.orders[ref].shares = @ - n, !.levels = lv]
          = [b EXCEPT !.orders = f, !.levels = lv]
    BY <2>6 DEF BookType
  <2>8. Less(o, n) = p BY <1>5 DEF Less
  <2>9. Reduced(b, ref, n) = Rebuilt(b, f, lv) BY <2>5, <2>7 DEF Rebuilt
  <2>10. ASSUME Aggregated(b) PROVE Aggregated(Reduced(b, ref, n))
    <3> DEFINE c == Reduced(b, ref, n)
    <3>1. c.orders = f /\ c.levels = lv BY <2>9 DEF Rebuilt, BookType
    <3>2. n < o.shares BY <1>2, <1>5
    <3> HIDE DEF c
    <3>3. Aggregated(c) BY <2>10, <3>1, <3>2, ShrinkAggregates
    <3>4. QED BY <3>3 DEF c
  <2> HIDE DEF p, f, lv, o, m
  <2>11. Moved(b, Reduced(b, ref, n), f) BY <2>3, <2>4, <2>9, MovedFacts
  <2>12. QED BY <2>8, <2>10, <2>11 DEF f, o, Keeps
<1>6. QED BY <1>4, <1>5

\* A message that book b takes to c: the orders become f, nothing is counted as
\* unknown or duplicate, levels that were aggregates still are, the callback
\* knows the top, and a new top it is told is the one of the book.
Taken(b, c, f) ==
    /\ c \in BookType /\ c.orders = f
    /\ c.unknown_order = b.unknown_order /\ c.duplicate_add = b.duplicate_add
    /\ Keeps(b, c) /\ ToldTheTop(c)
    /\ <<c.last_top, c.last_top_valid>> # <<b.last_top, b.last_top_valid>> =>
         c.last_top = Top(c.levels)

\* Every message that finds its order ends in the same way.
LEMMA MovedIsTaken ==
    ASSUME NEW b \in BookType, NEW m, NEW f, Moved(b, m, f), Keeps(b, m)
    PROVE  Taken(b, Applied(m), f)
<1>1. m \in BookType BY DEF Moved
<1> DEFINE c == Applied(m)
<1>2. /\ c \in BookType /\ c.orders = m.orders /\ c.levels = m.levels
      /\ c.unknown_order = m.unknown_order /\ c.duplicate_add = m.duplicate_add
      /\ ToldTheTop(c)
      /\ <<c.last_top, c.last_top_valid>> # <<m.last_top, m.last_top_valid>> =>
           c.last_top = Top(c.levels)
  BY <1>1, AppliedFacts
<1> HIDE DEF c
<1>3. Keeps(b, c) BY <1>2, SameAggregated DEF Keeps
<1>4. Taken(b, c, f) BY <1>2, <1>3 DEF Taken, Moved
<1>5. QED BY <1>4 DEF c

\* The messages of a book that knows the order, or does not for an Add.
LEMMA MessagesTaken ==
    ASSUME NEW b \in BookType, NEW ref \in OrderRefs
    PROVE  /\ \A o \in OrderRecord : ~Resting(b, ref) =>
                Taken(b, apply_add(b, ref, o), [b.orders EXCEPT ![ref] = o])
           /\ Resting(b, ref) =>
                Taken(b, apply_delete(b, ref), [b.orders EXCEPT ![ref] = NoOrder])
           /\ \A n \in Nat : Resting(b, ref) =>
                LET f == [b.orders EXCEPT ![ref] = Less(b.orders[ref], n)] IN
                Taken(b, apply_cancel(b, ref, n), f) /\ Taken(b, apply_executed(b, ref, n), f)
<1>1. ASSUME NEW o \in OrderRecord, ~Resting(b, ref)
      PROVE  Taken(b, apply_add(b, ref, o), [b.orders EXCEPT ![ref] = o])
  <2>1. apply_add(b, ref, o) = Applied(WithOrder(b, ref, o)) BY <1>1 DEF apply_add
  <2>2. QED BY <1>1, <2>1, OrderJoins, MovedIsTaken
<1>2. ASSUME Resting(b, ref)
      PROVE  Taken(b, apply_delete(b, ref), [b.orders EXCEPT ![ref] = NoOrder])
  <2>1. apply_delete(b, ref) = Applied(WithoutOrder(b, ref)) BY <1>2 DEF apply_delete
  <2>2. QED BY <1>2, <2>1, OrderLeaves, MovedIsTaken
<1>3. ASSUME NEW n \in Nat, Resting(b, ref)
      PROVE  LET f == [b.orders EXCEPT ![ref] = Less(b.orders[ref], n)] IN
             Taken(b, apply_cancel(b, ref, n), f) /\ Taken(b, apply_executed(b, ref, n), f)
  <2>1. /\ apply_cancel(b, ref, n) = Applied(Reduced(b, ref, n))
        /\ apply_executed(b, ref, n) = Applied(Reduced(b, ref, n))
    BY <1>3 DEF apply_cancel, apply_executed
  <2>2. QED BY <1>3, <2>1, OrderShrinks, MovedIsTaken
<1>4. QED BY <1>1, <1>2, <1>3

\* A Replace of an order that the book knows by one it does not.
LEMMA ReplaceTaken ==
    ASSUME NEW b \in BookType, NEW orig \in OrderRefs, NEW new_ref \in OrderRefs,
           NEW price \in Prices, NEW n \in Nat, Resting(b, orig), ~Resting(b, new_ref)
    PROVE  LET o == [side |-> b.orders[orig].side, price |-> price, shares |-> n] IN
           Taken(b, apply_replace(b, orig, new_ref, price, n),
                 [[b.orders EXCEPT ![orig] = NoOrder] EXCEPT ![new_ref] = o])
<1> DEFINE o == [side |-> b.orders[orig].side, price |-> price, shares |-> n]
           m == WithoutOrder(b, orig)
           f == [b.orders EXCEPT ![orig] = NoOrder]
           g == [f EXCEPT ![new_ref] = o]
           k == WithOrder(m, new_ref, o)
<1>1. b.orders[orig] \in OrderRecord BY DEF BookType, Resting
<1>2. o \in OrderRecord BY <1>1 DEF OrderRecord
<1>3. Moved(b, m, f) /\ Keeps(b, m) BY OrderLeaves
<1>4. apply_replace(b, orig, new_ref, price, n) = Applied(k) BY DEF apply_replace
<1> HIDE DEF o, m
<1>5. m \in BookType /\ m.orders = f BY <1>3 DEF Moved
<1>6. ~Resting(m, new_ref) BY <1>5 DEF Resting, BookType
<1> HIDE DEF f
<1>7. Moved(m, k, g) /\ Keeps(m, k) BY <1>2, <1>5, <1>6, OrderJoins
<1> HIDE DEF g, k
<1>8. Moved(b, k, g) BY <1>3, <1>7 DEF Moved
<1>9. Keeps(b, k) BY <1>3, <1>7 DEF Keeps
<1>10. Taken(b, Applied(k), g) BY <1>8, <1>9, MovedIsTaken
<1>11. QED BY <1>4, <1>10 DEF g, f, o

-----------------------------------------------------------------------------
(* The books and the index.                                                *)

\* One book takes a message, the others do not change.
OneBook(s, f) == \E c : books' = [books EXCEPT ![s] = c] /\ Taken(books[s], c, f)

\* What the handlers do with a message about an order that is known to be where
\* the index says, or about a new one.
LEMMA AddHeard ==
    ASSUME BooksTypeOK, NEW r \in OrderRefs, NEW s \in Symbols, NEW o \in OrderRecord,
           ~Resting(books[s], r), IngestAdd(r, s, o)
    PROVE  OneBook(s, [books[s].orders EXCEPT ![r] = o])
<1> DEFINE b == books[s]
           w == Wired(s)
           c == apply_add(w, r, o)
<1>1. b \in BookType /\ on_top_change \in BOOLEAN BY DEF BooksTypeOK
<1>2. w \in BookType /\ w.orders = b.orders /\ w.levels = b.levels
      /\ w.unknown_order = b.unknown_order /\ w.duplicate_add = b.duplicate_add
      /\ w.last_top = b.last_top /\ w.last_top_valid = b.last_top_valid
  BY <1>1 DEF Wired, BookType
<1> HIDE DEF w, b
<1>3. ~Resting(w, r) BY <1>2 DEF Resting, b
<1>4. Taken(w, c, [w.orders EXCEPT ![r] = o]) BY <1>2, <1>3, MessagesTaken
<1>5. books' = [books EXCEPT ![s] = c] BY DEF IngestAdd, w
<1> HIDE DEF c
<1>6. Keeps(b, c) BY <1>2, <1>4, SameAggregated DEF Taken, Keeps
<1>7. Taken(b, c, [b.orders EXCEPT ![r] = o]) BY <1>2, <1>4, <1>6 DEF Taken
<1>8. QED BY <1>5, <1>7 DEF OneBook, b

\* A message about an order that rests where the index says.
LEMMA RoutedHeard ==
    ASSUME BooksTypeOK, NEW r \in OrderRefs, NEW s \in Symbols,
           order_symbol[r] = s, Resting(books[s], r)
    PROVE  LET fs == books[s].orders IN
           /\ IngestDelete(r) =>
                /\ OneBook(s, [fs EXCEPT ![r] = NoOrder])
                /\ order_symbol' = [order_symbol EXCEPT ![r] = NoSymbol]
                /\ UNCHANGED <<wired, on_top_change, stat_unrouted>>
           /\ \A n \in Nat :
                IngestCancel(r, n) \/ IngestExecuted(r, n) =>
                  /\ OneBook(s, [fs EXCEPT ![r] = Less(fs[r], n)])
                  /\ UNCHANGED <<order_symbol, wired, on_top_change, stat_unrouted>>
           /\ \A n \in Nat, new \in OrderRefs, p \in Prices :
                IngestReplace(r, new, p, n) /\ ~Resting(books[s], new) =>
                  /\ OneBook(s, [[fs EXCEPT ![r] = NoOrder] EXCEPT
                                   ![new] = [side |-> fs[r].side, price |-> p, shares |-> n]])
                  /\ order_symbol' = [[order_symbol EXCEPT ![r] = NoSymbol] EXCEPT ![new] = s]
                  /\ UNCHANGED <<wired, on_top_change, stat_unrouted>>
<1> DEFINE b == books[s]
<1>1. b \in BookType /\ Routed(r) /\ Resting(b, r)
  BY SymbolAssumption DEF BooksTypeOK, Routed
<1>2. ASSUME NEW c, NEW f, books' = [books EXCEPT ![s] = c], Taken(b, c, f)
      PROVE  OneBook(s, f)
  BY <1>2 DEF OneBook
<1>3. ASSUME IngestDelete(r)
      PROVE  /\ OneBook(s, [b.orders EXCEPT ![r] = NoOrder])
             /\ order_symbol' = [order_symbol EXCEPT ![r] = NoSymbol]
             /\ UNCHANGED <<wired, on_top_change, stat_unrouted>>
  <2>1. books' = [books EXCEPT ![s] = apply_delete(b, r)]
        /\ order_symbol' = [order_symbol EXCEPT ![r] = NoSymbol]
        /\ UNCHANGED <<wired, on_top_change, stat_unrouted>>
    BY <1>1, <1>3 DEF IngestDelete, Unrouted
  <2>2. Taken(b, apply_delete(b, r), [b.orders EXCEPT ![r] = NoOrder]) BY <1>1, MessagesTaken
  <2>3. QED BY <1>2, <2>1, <2>2
<1>4. ASSUME NEW n \in Nat, IngestCancel(r, n) \/ IngestExecuted(r, n)
      PROVE  /\ OneBook(s, [b.orders EXCEPT ![r] = Less(b.orders[r], n)])
             /\ UNCHANGED <<order_symbol, wired, on_top_change, stat_unrouted>>
  <2> DEFINE f == [b.orders EXCEPT ![r] = Less(b.orders[r], n)]
  <2>1. Taken(b, apply_cancel(b, r, n), f) /\ Taken(b, apply_executed(b, r, n), f)
    BY <1>1, MessagesTaken
  <2> HIDE DEF f
  <2>2. CASE IngestCancel(r, n)
    <3>1. books' = [books EXCEPT ![s] = apply_cancel(b, r, n)]
          /\ UNCHANGED <<order_symbol, wired, on_top_change, stat_unrouted>>
      BY <1>1, <2>2 DEF IngestCancel, Unrouted
    <3>2. QED BY <1>2, <2>1, <3>1 DEF f
  <2>3. CASE IngestExecuted(r, n)
    <3>1. books' = [books EXCEPT ![s] = apply_executed(b, r, n)]
          /\ UNCHANGED <<order_symbol, wired, on_top_change, stat_unrouted>>
      BY <1>1, <2>3 DEF IngestExecuted, Unrouted, book_order_gone
    <3>2. QED BY <1>2, <2>1, <3>1 DEF f
  <2>4. QED BY <1>4, <2>2, <2>3
<1>5. ASSUME NEW n \in Nat, NEW new \in OrderRefs, NEW p \in Prices,
             IngestReplace(r, new, p, n), ~Resting(b, new)
      PROVE  /\ OneBook(s, [[b.orders EXCEPT ![r] = NoOrder] EXCEPT
                            ![new] = [side |-> b.orders[r].side, price |-> p, shares |-> n]])
             /\ order_symbol' = [[order_symbol EXCEPT ![r] = NoSymbol] EXCEPT ![new] = s]
             /\ UNCHANGED <<wired, on_top_change, stat_unrouted>>
  <2> DEFINE f == [[b.orders EXCEPT ![r] = NoOrder] EXCEPT
                     ![new] = [side |-> b.orders[r].side, price |-> p, shares |-> n]]
             c == apply_replace(b, r, new, p, n)
  <2>1. Taken(b, c, f) BY <1>1, <1>5, ReplaceTaken
  <2>2. books' = [books EXCEPT ![s] = c]
        /\ order_symbol' = [order_symbol EXCEPT ![r] = NoSymbol, ![new] = s]
        /\ UNCHANGED <<wired, on_top_change, stat_unrouted>>
    BY <1>1, <1>5 DEF IngestReplace, Unrouted
  <2>3. [order_symbol EXCEPT ![r] = NoSymbol, ![new] = s]
          = [[order_symbol EXCEPT ![r] = NoSymbol] EXCEPT ![new] = s]
    OBVIOUS
  <2> HIDE DEF f, c
  <2>4. OneBook(s, f) BY <1>2, <2>1, <2>2
  <2>5. QED BY <2>2, <2>3, <2>4 DEF f
<1>6. QED BY <1>3, <1>4, <1>5

\* A message about an order that is not in the index.
LEMMA UnroutedHeard ==
    ASSUME BooksTypeOK, NEW r \in OrderRefs, ~Routed(r), NEW new, NEW p, NEW n,
           IngestDelete(r) \/ IngestCancel(r, n) \/ IngestExecuted(r, n)
             \/ IngestReplace(r, new, p, n)
    PROVE  stat_unrouted' = stat_unrouted + 1
           /\ UNCHANGED <<books, order_symbol, wired, on_top_change>>
BY DEF IngestDelete, IngestCancel, IngestExecuted, IngestReplace, Unrouted

-----------------------------------------------------------------------------
(* The exchange and what it has published.                                 *)

LiveOrder == [symbol : Symbols, order : [side : Side, price : Prices, shares : Nat \ {0}]]

\* Numbers are given out in order; the consumer has heard only of orders that
\* were added after it joined, and only of those were shares kept from it.
ExchangeInv ==
    /\ resting \in [OrderRefs -> LiveOrder \cup {NotResting}]
    /\ untold \in [OrderRefs -> LiveOrder \cup {NotResting}]
    /\ next_ref \in Nat /\ joined \in BOOLEAN /\ heard \subseteq OrderRefs /\ missed \in Nat
    /\ \A r \in OrderRefs : IsResting(r) \/ r \in heard => r < next_ref
    /\ \A r \in OrderRefs : untold[r] # NotResting => r \in heard
    /\ \A r \in OrderRefs : IsResting(r) /\ untold[r] # NotResting =>
         /\ untold[r].symbol = resting[r].symbol
         /\ untold[r].order.side = resting[r].order.side
         /\ untold[r].order.price = resting[r].order.price
    /\ ~joined => heard = {}

\* The index knows only orders that the consumer has heard of.
IndexInv == \A r \in OrderRefs : Routed(r) => r \in heard

\* The shares of order r that the consumer has not been told are gone.
Kept(r) == IF untold[r] = NotResting THEN 0 ELSE untold[r].order.shares

\* An order at the exchange as it has been published.
LEMMA PublishedResting ==
    ASSUME ExchangeInv, NEW r \in OrderRefs, IsResting(r)
    PROVE  /\ resting[r] \in LiveOrder /\ Kept(r) \in Nat
           /\ AsPublished(r) =
                [symbol |-> resting[r].symbol,
                 order |-> [side |-> resting[r].order.side, price |-> resting[r].order.price,
                            shares |-> resting[r].order.shares + Kept(r)]]
<1>1. resting[r] \in LiveOrder /\ untold[r] \in LiveOrder \cup {NotResting}
  BY DEF ExchangeInv, IsResting
<1>2. CASE untold[r] = NotResting
  <2>1. AsPublished(r) = resting[r] /\ Kept(r) = 0 BY <1>2 DEF AsPublished, Kept
  <2>2. resting[r].order.shares + 0 = resting[r].order.shares BY <1>1 DEF LiveOrder
  <2>3. QED BY <1>1, <2>1, <2>2 DEF LiveOrder
<1>3. CASE untold[r] # NotResting
  <2> DEFINE k == untold[r].order.shares
  <2>1. k \in Nat /\ Kept(r) = k BY <1>1, <1>3 DEF Kept, LiveOrder
  <2>2. AsPublished(r) = [resting[r] EXCEPT !.order.shares = @ + k]
    BY <1>3 DEF AsPublished
  <2> HIDE DEF k
  <2>3. QED BY <1>1, <2>1, <2>2 DEF LiveOrder
<1>4. QED BY <1>2, <1>3

\* An order the consumer has heard all about, as it has been published.
LEMMA PublishedType ==
    ASSUME ExchangeInv, NEW r \in OrderRefs
    PROVE  AsPublished(r) \in LiveOrder \cup {NotResting}
<1>1. CASE IsResting(r)
  <2>1. resting[r] \in LiveOrder /\ Kept(r) \in Nat BY <1>1, PublishedResting
  <2>2. resting[r].order.shares + Kept(r) \in Nat \ {0} BY <2>1 DEF LiveOrder
  <2>3. QED BY <1>1, <2>1, <2>2, PublishedResting DEF LiveOrder
<1>2. CASE ~IsResting(r) BY <1>2 DEF AsPublished, IsResting, ExchangeInv
<1>3. QED BY <1>1, <1>2

\* A cancel or an execution is published as it is.
LEMMA PublishedShrinks ==
    ASSUME ExchangeInv, NEW r \in OrderRefs, IsResting(r), NEW n \in Nat \ {0},
           n <= resting[r].order.shares,
           resting' = [resting EXCEPT ![r] = Shrunk(r, n)], untold' = untold
    PROVE  LET l == Less(AsPublished(r).order, n) IN
           AsPublished(r)' = IF l = NoOrder THEN NotResting
                             ELSE [symbol |-> AsPublished(r).symbol, order |-> l]
<1> DEFINE a == resting[r].order.shares
           sy == resting[r].symbol
           sd == resting[r].order.side
           pr == resting[r].order.price
           l == Less(AsPublished(r).order, n)
<1>1. resting[r] \in LiveOrder /\ Kept(r) \in Nat BY PublishedResting
<1>2. a \in Nat \ {0} /\ sd \in Side BY <1>1 DEF LiveOrder
<1>3. AsPublished(r) = [symbol |-> sy,
                        order |-> [side |-> sd, price |-> pr, shares |-> a + Kept(r)]]
  BY PublishedResting
<1>4. resting'[r] = Shrunk(r, n) BY DEF ExchangeInv
<1>5. l = IF n >= a + Kept(r) THEN NoOrder
          ELSE [side |-> sd, price |-> pr, shares |-> a + Kept(r) - n]
  <2> DEFINE o == AsPublished(r).order
  <2>1. o.side = sd /\ o.price = pr /\ o.shares = a + Kept(r) BY <1>3
  <2> HIDE DEF o, a, sd, pr
  <2>2. Less(o, n) = IF n >= a + Kept(r) THEN NoOrder
                     ELSE [side |-> sd, price |-> pr, shares |-> a + Kept(r) - n]
    BY <2>1, <1>1, <1>2 DEF Less
  <2>3. QED BY <2>2 DEF o
<1>6. NoOrder.side \notin Side BY DEF NoOrder, Side
<1>7. CASE n = a
  <2>1. resting'[r] = NotResting BY <1>4, <1>7 DEF Shrunk
  <2>2. CASE untold[r] = NotResting
    <3>1. AsPublished(r)' = NotResting BY <2>1, <2>2 DEF AsPublished
    <3>2. Kept(r) = 0 BY <2>2 DEF Kept
    <3>3. l = NoOrder BY <1>2, <1>5, <1>7, <3>2
    <3>4. QED BY <3>1, <3>3
  <2>3. CASE untold[r] # NotResting
    <3>1. AsPublished(r)' = untold[r] BY <2>1, <2>3 DEF AsPublished, IsResting
    <3>2. untold[r] \in LiveOrder BY <2>3 DEF ExchangeInv
    <3>3. Kept(r) = untold[r].order.shares /\ Kept(r) \in Nat \ {0}
      BY <2>3, <3>2 DEF Kept, LiveOrder
    <3>4. sy = untold[r].symbol /\ sd = untold[r].order.side /\ pr = untold[r].order.price
      BY <2>3 DEF ExchangeInv
    <3>5. ~(n >= a + Kept(r)) /\ a + Kept(r) - n = Kept(r) BY <1>2, <1>7, <3>3
    <3>6. l = [side |-> sd, price |-> pr, shares |-> Kept(r)] BY <1>5, <3>5
    <3>7. l # NoOrder BY <1>2, <1>6, <3>6
    <3>8. untold[r] = [symbol |-> sy, order |-> l] BY <3>2, <3>3, <3>4, <3>6 DEF LiveOrder
    <3>9. QED BY <1>3, <3>1, <3>7, <3>8
  <2>4. QED BY <2>2, <2>3
<1>8. CASE n # a
  <2>1. n < a BY <1>2, <1>8
  <2>2. resting'[r] = [symbol |-> sy,
                       order |-> [side |-> sd, price |-> pr, shares |-> a - n]]
    BY <1>1, <1>4, <1>8 DEF Shrunk, LiveOrder
  <2>3. sy \in Symbols /\ resting'[r] # NotResting
    BY <1>1, <2>2, SymbolAssumption DEF LiveOrder, NotResting
  <2>4. AsPublished(r)' = [symbol |-> sy,
                 order |-> [side |-> sd, price |-> pr, shares |-> (a - n) + Kept(r)]]
    <3>1. CASE untold[r] = NotResting
      <4>1. AsPublished(r)' = resting'[r] /\ Kept(r) = 0 BY <3>1 DEF AsPublished, Kept
      <4>2. (a - n) + 0 = a - n BY <1>2
      <4>3. QED BY <2>2, <4>1, <4>2
    <3>2. CASE untold[r] # NotResting
      <4>1. AsPublished(r)' = [resting'[r] EXCEPT !.order.shares = @ + untold[r].order.shares]
        BY <2>3, <3>2 DEF AsPublished, IsResting
      <4>2. Kept(r) = untold[r].order.shares BY <3>2 DEF Kept
      <4>3. QED BY <2>2, <4>1, <4>2
    <3>3. QED BY <3>1, <3>2
  <2>5. ~(n >= a + Kept(r)) /\ a + Kept(r) - n = (a - n) + Kept(r) BY <1>1, <1>2, <2>1
  <2>6. l = [side |-> sd, price |-> pr, shares |-> (a - n) + Kept(r)] BY <1>5, <2>5
  <2>7. l # NoOrder BY <1>2, <1>6, <2>6
  <2>8. QED BY <1>3, <2>4, <2>6, <2>7
<1>9. QED BY <1>7, <1>8

-----------------------------------------------------------------------------
(* The inductive invariant.                                                *)

\* The order with number r that the book of s ought to hold.
View(s, r) ==
    IF r \in heard /\ AsPublished(r).symbol = s THEN AsPublished(r).order ELSE NoOrder

\* The levels of every book are aggregates of finitely many orders.
BooksAggregated == \A s \in Symbols : Aggregated(books[s])

BookInv ==
    /\ BooksTypeOK /\ EveryOrderIsRoutable /\ BooksMirrorExchange
    /\ OnlyEarlierOrdersAreUnrouted /\ CallbackKnowsTheTop /\ BooksAggregated

TradeInv == ExchangeInv /\ IndexInv /\ BookInv

\* A message that one book takes as the exchange meant it.
LEMMA BooksFollow ==
    ASSUME BookInv, NEW s \in Symbols, NEW f, OneBook(s, f),
           \A q \in OrderRefs : f[q] = View(s, q)',
           \A t \in Symbols \ {s}, q \in OrderRefs : View(t, q)' = View(t, q),
           wired' = wired \cup {s},
           order_symbol' \in [OrderRefs -> Symbols \cup {NoSymbol}],
           \A t \in Symbols, q \in OrderRefs : View(t, q)' # NoOrder => order_symbol'[q] = t,
           on_top_change' = on_top_change, stat_unrouted' = stat_unrouted, missed' = missed
    PROVE  BookInv'
<1>1. PICK c : books' = [books EXCEPT ![s] = c] /\ Taken(books[s], c, f) BY DEF OneBook
<1>2. books \in [Symbols -> BookType] BY DEF BookInv, BooksTypeOK
<1>3. books'[s] = c /\ \A t \in Symbols \ {s} : books'[t] = books[t] BY <1>1, <1>2
<1>4. c \in BookType /\ c.orders = f /\ ToldTheTop(c) /\ Keeps(books[s], c)
      /\ c.unknown_order = books[s].unknown_order /\ c.duplicate_add = books[s].duplicate_add
  BY <1>1 DEF Taken
<1>5. BooksTypeOK'
  <2>1. books' \in [Symbols -> BookType] BY <1>1, <1>2, <1>4
  <2>2. \A t \in Symbols \ wired' : books'[t] = EmptyBook BY <1>3 DEF BookInv, BooksTypeOK
  <2>3. QED BY <2>1, <2>2 DEF BookInv, BooksTypeOK
<1>6. BooksMirrorExchange'
  <2>1. \A t \in Symbols, q \in OrderRefs : books[t].orders[q] = View(t, q)
    BY DEF BookInv, BooksMirrorExchange, View
  <2>2. \A t \in Symbols, q \in OrderRefs : books'[t].orders[q] = View(t, q)'
    BY <1>3, <1>4, <2>1
  <2>3. QED BY <2>2 DEF BooksMirrorExchange, View
<1>7. EveryOrderIsRoutable'
  <2>1. SUFFICES ASSUME NEW t \in Symbols, NEW q \in OrderRefs, books'[t].orders[q] # NoOrder
                 PROVE  order_symbol'[q] = t /\ t \in wired'
    BY DEF EveryOrderIsRoutable, Resting
  <2>2. books'[t].orders[q] = View(t, q)' BY <1>6 DEF BooksMirrorExchange, View
  <2>3. order_symbol'[q] = t BY <2>1, <2>2
  <2>4. t # s => t \in wired
    BY <1>3, <2>1 DEF BookInv, EveryOrderIsRoutable, Resting
  <2>5. QED BY <2>3, <2>4
<1>8. OnlyEarlierOrdersAreUnrouted'
  BY <1>3, <1>4 DEF BookInv, OnlyEarlierOrdersAreUnrouted
<1>9. CallbackKnowsTheTop'
  <2>1. \A t \in Symbols : ToldTheTop(books'[t])
    BY <1>3, <1>4 DEF BookInv, CallbackKnowsTheTop
  <2>2. QED BY <2>1 DEF CallbackKnowsTheTop, ToldTheTop
<1>10. BooksAggregated'
  <2>1. \A t \in Symbols : Aggregated(books'[t])
    BY <1>3, <1>4 DEF BookInv, BooksAggregated, Keeps
  <2>2. QED BY <2>1 DEF BooksAggregated
<1>11. QED BY <1>5, <1>6, <1>7, <1>8, <1>9, <1>10 DEF BookInv

\* A step that reaches no book: it must not be about an order in one.
LEMMA BooksStay ==
    ASSUME BookInv, UNCHANGED <<books, order_symbol, wired>>, on_top_change' \in BOOLEAN,
           missed \in Nat,
           \/ stat_unrouted' = stat_unrouted /\ missed' = missed
           \/ stat_unrouted' = stat_unrouted + 1 /\ missed' = missed + 1,
           \A t \in Symbols, q \in OrderRefs : View(t, q)' = View(t, q)
    PROVE  BookInv'
<1>1. BooksTypeOK' BY DEF BookInv, BooksTypeOK
<1>2. BooksMirrorExchange' BY DEF BookInv, BooksMirrorExchange, View
<1>3. EveryOrderIsRoutable' BY DEF BookInv, EveryOrderIsRoutable
<1>4. OnlyEarlierOrdersAreUnrouted' BY DEF BookInv, OnlyEarlierOrdersAreUnrouted
<1>5. CallbackKnowsTheTop' BY DEF BookInv, CallbackKnowsTheTop
<1>6. BooksAggregated'
  <2>1. \A t \in Symbols : Aggregated(books'[t]) BY DEF BookInv, BooksAggregated
  <2>2. QED BY <2>1 DEF BooksAggregated
<1>7. QED BY <1>1, <1>2, <1>3, <1>4, <1>5, <1>6 DEF BookInv

\* An order that the exchange's step is not about looks the same.
LEMMA ViewOfOthers ==
    ASSUME NEW q, resting'[q] = resting[q], untold'[q] = untold[q],
           q \in heard' <=> q \in heard
    PROVE  \A t : View(t, q)' = View(t, q)
BY DEF View, AsPublished, IsResting

\* No book ought to hold an order that the consumer has not heard of.
LEMMA ViewOfUnheard == \A t, q : q \notin heard => View(t, q) = NoOrder
BY DEF View

\* An order that the consumer has heard of and that rests at the exchange is
\* where the index says.
LEMMA HeardIsRouted ==
    ASSUME TradeInv, NEW r \in heard, IsResting(r)
    PROVE  LET s == resting[r].symbol IN
           /\ s \in Symbols /\ order_symbol[r] = s /\ s \in wired
           /\ AsPublished(r).symbol = s /\ books[s].orders[r] = AsPublished(r).order
           /\ Resting(books[s], r)
<1> DEFINE s == resting[r].symbol
           o == AsPublished(r).order
<1>1. r \in OrderRefs BY DEF TradeInv, ExchangeInv
<1>2. resting[r] \in LiveOrder /\ AsPublished(r).symbol = s
      /\ o.side = resting[r].order.side
  BY <1>1, PublishedResting DEF TradeInv
<1>3. s \in Symbols /\ o.side \in Side BY <1>2 DEF LiveOrder
<1>4. o # NoOrder BY <1>3 DEF NoOrder, Side
<1> HIDE DEF s, o
<1>5. books[s].orders[r] = o
  BY <1>1, <1>2, <1>3 DEF TradeInv, BookInv, BooksMirrorExchange, o
<1>6. Resting(books[s], r) BY <1>4, <1>5 DEF Resting
<1>7. order_symbol[r] = s /\ s \in wired
  BY <1>1, <1>3, <1>6 DEF TradeInv, BookInv, EveryOrderIsRoutable
<1>8. QED BY <1>2, <1>3, <1>5, <1>6, <1>7 DEF s, o

-----------------------------------------------------------------------------
(* Every step of the exchange preserves the invariant.                     *)

\* A step changes no book, or one book takes a message.
BooksAct == books' = books \/ \E s \in Symbols : \E f : OneBook(s, f)

\* A live order is not the absent one.
LEMMA LiveIsResting == NotResting \notin LiveOrder
BY SymbolAssumption DEF NotResting, LiveOrder

\* What is left of an order after a cancel or an execution.
LEMMA ShrunkType ==
    ASSUME ExchangeInv, NEW r \in OrderRefs, IsResting(r), NEW n \in Nat \ {0},
           n <= resting[r].order.shares
    PROVE  /\ Shrunk(r, n) \in LiveOrder \cup {NotResting}
           /\ Shrunk(r, n) # NotResting =>
                /\ Shrunk(r, n).symbol = resting[r].symbol
                /\ Shrunk(r, n).order.side = resting[r].order.side
                /\ Shrunk(r, n).order.price = resting[r].order.price
<1>1. resting[r] \in LiveOrder BY DEF ExchangeInv, IsResting
<1>2. CASE resting[r].order.shares = n BY <1>2 DEF Shrunk
<1>3. CASE resting[r].order.shares # n
  <2>1. resting[r].order.shares - n \in Nat \ {0} BY <1>1, <1>3 DEF LiveOrder
  <2>2. Shrunk(r, n) = [symbol |-> resting[r].symbol,
                        order |-> [side |-> resting[r].order.side,
                                   price |-> resting[r].order.price,
                                   shares |-> resting[r].order.shares - n]]
    BY <1>1, <1>3 DEF Shrunk, LiveOrder
  <2>3. QED BY <1>1, <2>1, <2>2 DEF LiveOrder
<1>4. QED BY <1>2, <1>3

\* The exchange's side of an Add.
LEMMA AddExchange ==
    ASSUME ExchangeInv, NEW s \in Symbols, NEW side \in Side, NEW price \in Prices,
           NEW n \in Nat \ {0}, Add(s, side, price, n)
    PROVE  ExchangeInv'
<1> DEFINE o == [side |-> side, price |-> price, shares |-> n]
           l == [symbol |-> s, order |-> o]
<1>1. l \in LiveOrder BY DEF LiveOrder
<1>2. /\ next_ref \in OrderRefs /\ next_ref' = next_ref + 1
      /\ resting' = [resting EXCEPT ![next_ref] = l]
      /\ heard' = IF joined THEN heard \cup {next_ref} ELSE heard
      /\ UNCHANGED <<joined, missed, untold>>
  BY DEF Add
<1> HIDE DEF l
<1>3. \A q \in OrderRefs : q \in Nat BY BookAssumption
<1>4. next_ref \in Nat /\ joined \in BOOLEAN BY DEF ExchangeInv
<1>5. \A q \in OrderRefs : q # next_ref => resting'[q] = resting[q] BY <1>2 DEF ExchangeInv
<1>6. next_ref \notin heard /\ untold[next_ref] = NotResting BY <1>2, <1>4 DEF ExchangeInv
<1>7. resting' \in [OrderRefs -> LiveOrder \cup {NotResting}] BY <1>1, <1>2 DEF ExchangeInv
<1>8. ASSUME NEW q \in OrderRefs, IsResting(q)' \/ q \in heard' PROVE q < next_ref'
  <2>1. CASE q = next_ref BY <1>2, <1>4, <2>1
  <2>2. CASE q # next_ref
    <3>1. IsResting(q) \/ q \in heard BY <1>2, <1>5, <1>8, <2>2 DEF IsResting
    <3>2. q < next_ref BY <3>1 DEF ExchangeInv
    <3>3. QED BY <1>2, <1>3, <1>4, <3>2
  <2>3. QED BY <2>1, <2>2
<1>9. \A q \in OrderRefs : untold'[q] # NotResting => q \in heard' BY <1>2 DEF ExchangeInv
<1>10. \A q \in OrderRefs : IsResting(q)' /\ untold'[q] # NotResting =>
         /\ untold'[q].symbol = resting'[q].symbol
         /\ untold'[q].order.side = resting'[q].order.side
         /\ untold'[q].order.price = resting'[q].order.price
  BY <1>2, <1>5, <1>6 DEF ExchangeInv, IsResting
<1>11. /\ untold' \in [OrderRefs -> LiveOrder \cup {NotResting}]
       /\ next_ref' \in Nat /\ joined' \in BOOLEAN /\ heard' \subseteq OrderRefs
       /\ missed' \in Nat /\ (~joined' => heard' = {})
  BY <1>2, <1>4 DEF ExchangeInv
<1>12. QED BY <1>7, <1>8, <1>9, <1>10, <1>11 DEF ExchangeInv

\* An Add.
LEMMA AddStep ==
    ASSUME TradeInv, NEW s \in Symbols, NEW side \in Side, NEW price \in Prices,
           NEW n \in Nat \ {0}, NEW r \in OrderRefs, r = next_ref, Add(s, side, price, n)
    PROVE  TradeInv' /\ BooksAct
<1> DEFINE o == [side |-> side, price |-> price, shares |-> n]
<1>1. ExchangeInv' BY AddExchange DEF TradeInv
<1>2. /\ resting' = [resting EXCEPT ![r] = [symbol |-> s, order |-> o]]
      /\ heard' = IF joined THEN heard \cup {r} ELSE heard
      /\ Hear(IngestAdd(r, s, o)) /\ UNCHANGED <<missed, untold>>
  BY DEF Add
<1>3. o \in OrderRecord /\ r \in Nat BY DEF OrderRecord, TradeInv, ExchangeInv
<1>4. r \notin heard /\ untold[r] = NotResting BY <1>2, <1>3 DEF TradeInv, ExchangeInv
<1>5. ~Routed(r) /\ \A t : View(t, r) = NoOrder
  BY <1>2, <1>4, ViewOfUnheard DEF TradeInv, IndexInv
<1>6. \A q \in OrderRefs : q # r => \A t : View(t, q)' = View(t, q)
  <2>1. \A q \in OrderRefs : q # r => resting'[q] = resting[q]
    BY <1>2 DEF TradeInv, ExchangeInv
  <2>2. QED BY <1>2, <2>1, ViewOfOthers
<1>7. books \in [Symbols -> BookType] /\ missed \in Nat /\ on_top_change \in BOOLEAN
      /\ order_symbol \in [OrderRefs -> Symbols \cup {NoSymbol}]
      /\ \A t \in Symbols, q \in OrderRefs : books[t].orders[q] = View(t, q)
  BY DEF TradeInv, ExchangeInv, BookInv, BooksTypeOK, BooksMirrorExchange, View
<1>8. CASE ~joined
  <2>1. UNCHANGED bookVars /\ heard' = heard BY <1>2, <1>8 DEF Hear
  <2>2. \A t \in Symbols, q \in OrderRefs : View(t, q)' = View(t, q)
    BY <1>4, <1>5, <1>6, <2>1 DEF View
  <2>3. BookInv' BY <1>2, <1>7, <2>1, <2>2, BooksStay DEF TradeInv, bookVars
  <2>4. IndexInv' BY <2>1 DEF TradeInv, IndexInv, Routed, bookVars
  <2>5. QED BY <1>1, <2>1, <2>3, <2>4 DEF TradeInv, BooksAct, bookVars
<1>9. CASE joined
  <2> DEFINE f == [books[s].orders EXCEPT ![r] = o]
  <2>1. IngestAdd(r, s, o) BY <1>2, <1>9 DEF Hear
  <2>2. ~Resting(books[s], r) BY <1>2, <1>5, <1>7 DEF Resting
  <2>3. OneBook(s, f) BY <1>2, <1>3, <2>1, <2>2, AddHeard DEF TradeInv, BookInv
  <2>4. AsPublished(r)' = [symbol |-> s, order |-> o]
    BY <1>2, <1>4 DEF TradeInv, ExchangeInv, AsPublished
  <2>5. \A t : View(t, r)' = IF t = s THEN o ELSE NoOrder
    BY <1>2, <1>9, <2>4 DEF View
  <2>6. books[s].orders \in [OrderRefs -> OrderRecord \cup {NoOrder}] BY <1>7 DEF BookType
  <2>7. \A q \in OrderRefs : f[q] = View(s, q)' BY <1>6, <1>7, <2>5, <2>6
  <2>8. \A t \in Symbols \ {s}, q \in OrderRefs : View(t, q)' = View(t, q)
    BY <1>5, <1>6, <2>5
  <2>9. /\ order_symbol' = [order_symbol EXCEPT ![r] = s] /\ wired' = wired \cup {s}
        /\ UNCHANGED <<on_top_change, stat_unrouted>>
    BY <2>1 DEF IngestAdd
  <2>10. order_symbol' \in [OrderRefs -> Symbols \cup {NoSymbol}] BY <1>2, <1>7, <2>9
  <2>11. \A t \in Symbols, q \in OrderRefs : View(t, q)' # NoOrder => order_symbol'[q] = t
    <3>1. \A t \in Symbols, q \in OrderRefs : View(t, q) # NoOrder => order_symbol[q] = t
      BY <1>7 DEF TradeInv, BookInv, EveryOrderIsRoutable, Resting
    <3>2. QED BY <1>2, <1>6, <1>7, <2>5, <2>9, <3>1
  <2> HIDE DEF f
  <2>12. BookInv' BY <1>2, <2>3, <2>7, <2>8, <2>9, <2>10, <2>11, BooksFollow DEF TradeInv
  <2>13. IndexInv' BY <1>2, <1>7, <1>9, <2>9 DEF TradeInv, IndexInv, Routed
  <2>14. QED BY <1>1, <2>3, <2>12, <2>13 DEF TradeInv, BooksAct
<1>10. QED BY <1>8, <1>9 DEF TradeInv, ExchangeInv

\* What the consumer makes of a message after which order r, of symbol s, is o:
\* nothing before it joins, a count if it has not heard of r.
HeardOf(r, s, o) ==
    \/ ~joined /\ UNCHANGED bookVars
    \/ /\ joined /\ r \notin heard
       /\ stat_unrouted' = stat_unrouted + 1
       /\ UNCHANGED <<books, order_symbol, wired, on_top_change>>
    \/ /\ joined /\ r \in heard
       /\ OneBook(s, [books[s].orders EXCEPT ![r] = o])
       /\ \/ order_symbol' = order_symbol
          \/ o = NoOrder /\ order_symbol' = [order_symbol EXCEPT ![r] = NoSymbol]
       /\ UNCHANGED <<wired, on_top_change, stat_unrouted>>

\* A Delete, a Cancel or an Executed, once both sides of it are known.
LEMMA ChangeStep ==
    ASSUME TradeInv, ExchangeInv', NEW r \in OrderRefs, IsResting(r),
           NEW s \in Symbols, s = resting[r].symbol, NEW o,
           \A q \in OrderRefs \ {r} : resting'[q] = resting[q] /\ untold'[q] = untold[q],
           heard' = heard, Missed(r), HeardOf(r, s, o),
           \A t \in Symbols : View(t, r)' = IF r \in heard /\ t = s THEN o ELSE NoOrder
    PROVE  TradeInv' /\ BooksAct
<1>1. \A q \in OrderRefs \ {r} : \A t : View(t, q)' = View(t, q) BY ViewOfOthers
<1>2. books \in [Symbols -> BookType] /\ missed \in Nat /\ on_top_change \in BOOLEAN
      /\ order_symbol \in [OrderRefs -> Symbols \cup {NoSymbol}]
      /\ (~joined => heard = {})
      /\ \A t \in Symbols, q \in OrderRefs : books[t].orders[q] = View(t, q)
  BY DEF TradeInv, ExchangeInv, BookInv, BooksTypeOK, BooksMirrorExchange, View
<1>3. ASSUME r \notin heard
      PROVE  \A t \in Symbols, q \in OrderRefs : View(t, q)' = View(t, q)
  BY <1>1, <1>3, ViewOfUnheard
<1>4. CASE ~joined /\ UNCHANGED bookVars
  <2>1. r \notin heard /\ missed' = missed BY <1>2, <1>4 DEF Missed
  <2>2. BookInv' BY <1>2, <1>3, <1>4, <2>1, BooksStay DEF TradeInv, bookVars
  <2>3. IndexInv' BY <1>4 DEF TradeInv, IndexInv, Routed, bookVars
  <2>4. QED BY <1>4, <2>2, <2>3 DEF TradeInv, BooksAct, bookVars
<1>5. CASE /\ joined /\ r \notin heard
           /\ stat_unrouted' = stat_unrouted + 1
           /\ UNCHANGED <<books, order_symbol, wired, on_top_change>>
  <2>1. missed' = missed + 1 BY <1>5 DEF Missed
  <2>2. BookInv' BY <1>2, <1>3, <1>5, <2>1, BooksStay DEF TradeInv
  <2>3. IndexInv' BY <1>5 DEF TradeInv, IndexInv, Routed
  <2>4. QED BY <1>5, <2>2, <2>3 DEF TradeInv, BooksAct
<1>6. CASE /\ joined /\ r \in heard
           /\ OneBook(s, [books[s].orders EXCEPT ![r] = o])
           /\ \/ order_symbol' = order_symbol
              \/ o = NoOrder /\ order_symbol' = [order_symbol EXCEPT ![r] = NoSymbol]
           /\ UNCHANGED <<wired, on_top_change, stat_unrouted>>
  <2> DEFINE f == [books[s].orders EXCEPT ![r] = o]
  <2>1. /\ order_symbol[r] = s /\ s \in wired /\ AsPublished(r).symbol = s
    BY <1>6, HeardIsRouted
  <2>2. books[s].orders \in [OrderRefs -> OrderRecord \cup {NoOrder}] BY <1>2 DEF BookType
  <2>3. \A q \in OrderRefs : f[q] = View(s, q)' BY <1>1, <1>2, <1>6, <2>2
  <2>4. \A t \in Symbols \ {s}, q \in OrderRefs : View(t, q)' = View(t, q)
    <3>1. \A t \in Symbols \ {s} : View(t, r) = NoOrder BY <2>1 DEF View
    <3>2. QED BY <1>1, <3>1
  <2>5. missed' = missed /\ wired' = wired \cup {s} BY <1>6, <2>1 DEF Missed
  <2>6. order_symbol' \in [OrderRefs -> Symbols \cup {NoSymbol}] BY <1>2, <1>6
  <2>7. \A t \in Symbols, q \in OrderRefs : View(t, q)' # NoOrder => order_symbol'[q] = t
    <3>1. \A t \in Symbols, q \in OrderRefs : View(t, q) # NoOrder => order_symbol[q] = t
      BY <1>2 DEF TradeInv, BookInv, EveryOrderIsRoutable, Resting
    <3>2. \A q \in OrderRefs \ {r} : order_symbol'[q] = order_symbol[q] BY <1>2, <1>6
    <3>3. o # NoOrder => order_symbol'[r] = s BY <1>6, <2>1
    <3>4. QED BY <1>1, <3>1, <3>2, <3>3
  <2>8. OneBook(s, f) BY <1>6
  <2> HIDE DEF f
  <2>9. BookInv'
    BY <1>6, <2>3, <2>4, <2>5, <2>6, <2>7, <2>8, BooksFollow DEF TradeInv
  <2>10. IndexInv' BY <1>2, <1>6 DEF TradeInv, IndexInv, Routed
  <2>11. QED BY <2>8, <2>9, <2>10 DEF TradeInv, BooksAct
<1>7. QED BY <1>4, <1>5, <1>6 DEF HeardOf

\* The exchange's side of a step that leaves order r smaller or gone.
LEMMA ShrinkExchange ==
    ASSUME ExchangeInv, NEW r \in OrderRefs, IsResting(r), NEW l \in LiveOrder \cup {NotResting},
           resting' = [resting EXCEPT ![r] = l],
           l # NotResting =>
             /\ l.symbol = resting[r].symbol /\ l.order.side = resting[r].order.side
             /\ l.order.price = resting[r].order.price,
           untold' = untold \/ untold' = [untold EXCEPT ![r] = NotResting],
           UNCHANGED <<next_ref, joined, heard>>, Missed(r)
    PROVE  ExchangeInv'
<1>1. /\ resting \in [OrderRefs -> LiveOrder \cup {NotResting}]
      /\ untold \in [OrderRefs -> LiveOrder \cup {NotResting}]
  BY DEF ExchangeInv
<1>2. resting'[r] = l /\ \A q \in OrderRefs \ {r} : resting'[q] = resting[q] BY <1>1
<1>3. \A q \in OrderRefs : untold'[q] \in {untold[q], NotResting} BY <1>1
<1>4. /\ resting' \in [OrderRefs -> LiveOrder \cup {NotResting}]
      /\ untold' \in [OrderRefs -> LiveOrder \cup {NotResting}]
  BY <1>1
<1>5. missed' \in Nat BY DEF Missed, ExchangeInv
<1>6. \A q \in OrderRefs : IsResting(q)' => IsResting(q) BY <1>2 DEF IsResting
<1>7. \A q \in OrderRefs : IsResting(q)' \/ q \in heard' => q < next_ref'
  BY <1>6 DEF ExchangeInv
<1>8. \A q \in OrderRefs : untold'[q] # NotResting => q \in heard' BY <1>3 DEF ExchangeInv
<1>9. \A q \in OrderRefs : IsResting(q)' /\ untold'[q] # NotResting =>
         /\ untold'[q].symbol = resting'[q].symbol
         /\ untold'[q].order.side = resting'[q].order.side
         /\ untold'[q].order.price = resting'[q].order.price
  BY <1>2, <1>3 DEF ExchangeInv, IsResting
<1>10. QED BY <1>4, <1>5, <1>7, <1>8, <1>9 DEF ExchangeInv

\* A Delete.
LEMMA DeleteStep ==
    ASSUME TradeInv, NEW r \in OrderRefs, Delete(r) PROVE TradeInv' /\ BooksAct
<1>1. /\ IsResting(r) /\ resting' = [resting EXCEPT ![r] = NotResting]
      /\ untold' = [untold EXCEPT ![r] = NotResting]
      /\ Hear(IngestDelete(r)) /\ Missed(r) /\ UNCHANGED <<next_ref, joined, heard>>
  BY DEF Delete
<1>2. ExchangeInv' BY <1>1, ShrinkExchange DEF TradeInv
<1>3. resting[r] \in LiveOrder BY <1>1, PublishedResting DEF TradeInv
<1>4. PICK s \in Symbols : s = resting[r].symbol BY <1>3 DEF LiveOrder
<1>5. \A q \in OrderRefs \ {r} : resting'[q] = resting[q] /\ untold'[q] = untold[q]
  BY <1>1 DEF TradeInv, ExchangeInv
<1>6. \A t \in Symbols : View(t, r)' = NoOrder
  <2>1. AsPublished(r)' = NotResting BY <1>1 DEF AsPublished, TradeInv, ExchangeInv
  <2>2. QED BY <2>1, SymbolAssumption DEF View, NotResting
<1>7. HeardOf(r, s, NoOrder)
  <2>1. CASE ~joined BY <1>1, <2>1 DEF Hear, HeardOf
  <2>2. CASE joined /\ r \notin heard
    <3>1. IngestDelete(r) BY <1>1, <2>2 DEF Hear
    <3>2. ~Routed(r) BY <2>2 DEF TradeInv, IndexInv
    <3>3. QED BY <2>2, <3>1, <3>2, UnroutedHeard DEF HeardOf, TradeInv, BookInv
  <2>3. CASE joined /\ r \in heard
    <3>1. IngestDelete(r) BY <1>1, <2>3 DEF Hear
    <3>2. order_symbol[r] = s /\ Resting(books[s], r) BY <1>1, <1>4, <2>3, HeardIsRouted
    <3>3. QED BY <2>3, <3>1, <3>2, RoutedHeard DEF HeardOf, TradeInv, BookInv
  <2>4. QED BY <2>1, <2>2, <2>3
<1>8. QED BY <1>1, <1>2, <1>4, <1>5, <1>6, <1>7, ChangeStep

\* A Cancel or an Executed.
LEMMA ShrinkStep ==
    ASSUME TradeInv, NEW r \in OrderRefs, NEW n \in Nat \ {0}, Cancel(r, n) \/ Execute(r, n)
    PROVE  TradeInv' /\ BooksAct
<1>1. /\ IsResting(r) /\ n <= resting[r].order.shares
      /\ resting' = [resting EXCEPT ![r] = Shrunk(r, n)]
      /\ Missed(r) /\ UNCHANGED <<next_ref, joined, heard, untold>>
  BY DEF Cancel, Execute
<1>2. ExchangeInv'
  <2>1. PICK l : l = Shrunk(r, n) OBVIOUS
  <2>2. /\ l \in LiveOrder \cup {NotResting}
        /\ l # NotResting =>
             /\ l.symbol = resting[r].symbol /\ l.order.side = resting[r].order.side
             /\ l.order.price = resting[r].order.price
    BY <1>1, <2>1, ShrunkType DEF TradeInv
  <2>3. QED BY <1>1, <2>1, <2>2, ShrinkExchange DEF TradeInv
<1>3. resting[r] \in LiveOrder /\ AsPublished(r).symbol = resting[r].symbol
  BY <1>1, PublishedResting DEF TradeInv
<1>4. PICK s \in Symbols : s = resting[r].symbol BY <1>3 DEF LiveOrder
<1>5. PICK o : o = Less(AsPublished(r).order, n) OBVIOUS
<1>6. \A q \in OrderRefs \ {r} : resting'[q] = resting[q] /\ untold'[q] = untold[q]
  BY <1>1 DEF TradeInv, ExchangeInv
<1>7. \A t \in Symbols : View(t, r)' = IF r \in heard /\ t = s THEN o ELSE NoOrder
  <2>1. AsPublished(r)' = IF o = NoOrder THEN NotResting ELSE [symbol |-> s, order |-> o]
    BY <1>1, <1>3, <1>4, <1>5, PublishedShrinks DEF TradeInv
  <2>2. heard' = heard BY <1>1
  <2>3. CASE o = NoOrder BY <2>1, <2>2, <2>3, SymbolAssumption DEF View, NotResting
  <2>4. CASE o # NoOrder BY <2>1, <2>2, <2>4 DEF View
  <2>5. QED BY <2>3, <2>4
<1>8. HeardOf(r, s, o)
  <2>0. Hear(IngestCancel(r, n)) \/ Hear(IngestExecuted(r, n)) BY DEF Cancel, Execute
  <2>1. CASE ~joined BY <2>0, <2>1 DEF Hear, HeardOf
  <2>2. CASE joined /\ r \notin heard
    <3>1. IngestCancel(r, n) \/ IngestExecuted(r, n) BY <2>0, <2>2 DEF Hear
    <3>2. ~Routed(r) BY <2>2 DEF TradeInv, IndexInv
    <3>3. QED BY <2>2, <3>1, <3>2, UnroutedHeard DEF HeardOf, TradeInv, BookInv
  <2>3. CASE joined /\ r \in heard
    <3>1. IngestCancel(r, n) \/ IngestExecuted(r, n) BY <2>0, <2>3 DEF Hear
    <3>2. order_symbol[r] = s /\ Resting(books[s], r) /\ books[s].orders[r] = AsPublished(r).order
      BY <1>1, <1>4, <2>3, HeardIsRouted
    <3>3. /\ OneBook(s, [books[s].orders EXCEPT ![r] = Less(books[s].orders[r], n)])
          /\ UNCHANGED <<order_symbol, wired, on_top_change, stat_unrouted>>
      BY <3>1, <3>2, RoutedHeard DEF TradeInv, BookInv
    <3>4. QED BY <1>5, <2>3, <3>2, <3>3 DEF HeardOf
  <2>4. QED BY <2>1, <2>2, <2>3
<1>9. QED BY <1>1, <1>2, <1>4, <1>6, <1>7, <1>8, ChangeStep

\* An execution with price, which the books do not take: what was published
\* does not change.
LEMMA WithPriceStep ==
    ASSUME TradeInv, NEW r \in OrderRefs, NEW n \in Nat \ {0}, ExecuteWithPrice(r, n)
    PROVE  TradeInv' /\ BooksAct
<1> DEFINE a == resting[r].order.shares
           sy == resting[r].symbol
           sd == resting[r].order.side
           pr == resting[r].order.price
           u == [symbol |-> sy, order |-> [side |-> sd, price |-> pr, shares |-> n + Kept(r)]]
<1>1. /\ IsResting(r) /\ n <= a
      /\ resting' = [resting EXCEPT ![r] = Shrunk(r, n)]
      /\ UNCHANGED <<next_ref, joined, heard, missed, bookVars>>
  BY DEF ExecuteWithPrice
<1>2. resting[r] \in LiveOrder /\ Kept(r) \in Nat
      /\ AsPublished(r) = [symbol |-> sy,
                           order |-> [side |-> sd, price |-> pr, shares |-> a + Kept(r)]]
  BY <1>1, PublishedResting DEF TradeInv
<1>3. a \in Nat \ {0} /\ n + Kept(r) \in Nat \ {0} BY <1>2 DEF LiveOrder
<1>4. u \in LiveOrder BY <1>2, <1>3 DEF LiveOrder
<1>5. untold' = IF r \notin heard THEN untold ELSE [untold EXCEPT ![r] = u]
  <2>1. n + (IF untold[r] = NotResting THEN 0 ELSE untold[r].order.shares) = n + Kept(r)
    BY DEF Kept
  <2>2. untold' = IF r \notin heard THEN untold
                  ELSE [untold EXCEPT ![r] = [resting[r] EXCEPT !.order.shares = n + Kept(r)]]
    BY <2>1 DEF ExecuteWithPrice
  <2>3. [resting[r] EXCEPT !.order.shares = n + Kept(r)] = u BY <1>2 DEF LiveOrder
  <2>4. QED BY <2>2, <2>3
<1>6. PICK l \in LiveOrder \cup {NotResting} :
        /\ l = Shrunk(r, n)
        /\ l # NotResting => l.symbol = sy /\ l.order.side = sd /\ l.order.price = pr
  BY <1>1, ShrunkType DEF TradeInv
<1>7. /\ resting \in [OrderRefs -> LiveOrder \cup {NotResting}]
      /\ untold \in [OrderRefs -> LiveOrder \cup {NotResting}]
      /\ (~joined => heard = {}) /\ missed \in Nat
  BY DEF TradeInv, ExchangeInv
<1>8. resting'[r] = l /\ \A q \in OrderRefs \ {r} : resting'[q] = resting[q]
  BY <1>1, <1>6, <1>7
<1>9. (r \in heard => untold'[r] = u) /\ (r \notin heard => untold' = untold)
      /\ \A q \in OrderRefs \ {r} : untold'[q] = untold[q]
  BY <1>5, <1>7
<1>10. ExchangeInv'
  <2>1. /\ resting' \in [OrderRefs -> LiveOrder \cup {NotResting}]
        /\ untold' \in [OrderRefs -> LiveOrder \cup {NotResting}]
    BY <1>1, <1>4, <1>5, <1>6, <1>7
  <2>2. \A q \in OrderRefs : IsResting(q)' \/ q \in heard' => q < next_ref'
    BY <1>1, <1>8 DEF TradeInv, ExchangeInv, IsResting
  <2>3. \A q \in OrderRefs : untold'[q] # NotResting => q \in heard'
    BY <1>1, <1>9 DEF TradeInv, ExchangeInv
  <2>4. ASSUME NEW q \in OrderRefs, IsResting(q)', untold'[q] # NotResting
        PROVE  /\ untold'[q].symbol = resting'[q].symbol
               /\ untold'[q].order.side = resting'[q].order.side
               /\ untold'[q].order.price = resting'[q].order.price
    <3>1. CASE q # r BY <1>8, <1>9, <2>4, <3>1 DEF TradeInv, ExchangeInv, IsResting
    <3>2. CASE q = r
      <4>1. r \in heard BY <1>1, <2>3, <2>4, <3>2
      <4>2. untold'[r] = u /\ resting'[r] = l /\ l # NotResting
        BY <1>8, <1>9, <2>4, <3>2, <4>1 DEF IsResting
      <4>3. QED BY <1>6, <3>2, <4>2
    <3>3. QED BY <3>1, <3>2
  <2>5. QED BY <1>1, <2>1, <2>2, <2>3, <2>4 DEF TradeInv, ExchangeInv
<1>11. r \in heard => AsPublished(r)' = AsPublished(r)
  <2>1. SUFFICES ASSUME r \in heard PROVE AsPublished(r)' = AsPublished(r) OBVIOUS
  <2>2. untold'[r] = u /\ u # NotResting BY <1>4, <1>9, <2>1, LiveIsResting
  <2>3. CASE n = a
    <3>1. resting'[r] = NotResting BY <1>6, <1>8, <2>3 DEF Shrunk
    <3>2. AsPublished(r)' = u BY <2>2, <3>1 DEF AsPublished, IsResting
    <3>3. QED BY <1>2, <2>3, <3>2
  <2>4. CASE n # a
    <3>1. a - n \in Nat \ {0} BY <1>1, <1>3, <2>4
    <3>2. resting'[r] = [symbol |-> sy,
                         order |-> [side |-> sd, price |-> pr, shares |-> a - n]]
      BY <1>2, <1>6, <1>8, <2>4 DEF Shrunk, LiveOrder
    <3>3. resting'[r] # NotResting
      BY <1>2, <3>2, SymbolAssumption DEF LiveOrder, NotResting
    <3>4. AsPublished(r)' = [resting'[r] EXCEPT !.order.shares = @ + untold'[r].order.shares]
      BY <2>2, <3>3 DEF AsPublished, IsResting
    <3>5. untold'[r].order.shares = n + Kept(r) BY <2>2
    <3>6. (a - n) + (n + Kept(r)) = a + Kept(r) BY <1>2, <1>3
    <3>7. AsPublished(r)' = [symbol |-> sy,
            order |-> [side |-> sd, price |-> pr, shares |-> (a - n) + (n + Kept(r))]]
      BY <3>2, <3>4, <3>5
    <3>8. QED BY <1>2, <3>6, <3>7
  <2>5. QED BY <2>3, <2>4
<1>12. \A t \in Symbols, q \in OrderRefs : View(t, q)' = View(t, q)
  <2>1. \A t \in Symbols : View(t, r)' = View(t, r) BY <1>1, <1>11 DEF View
  <2>2. \A q \in OrderRefs \ {r} : \A t : View(t, q)' = View(t, q)
    BY <1>1, <1>8, <1>9, ViewOfOthers
  <2>3. QED BY <2>1, <2>2
<1>13. on_top_change' \in BOOLEAN BY <1>1 DEF TradeInv, BookInv, BooksTypeOK, bookVars
<1>14. BookInv' BY <1>1, <1>7, <1>12, <1>13, BooksStay DEF TradeInv, bookVars
<1>15. IndexInv' BY <1>1 DEF TradeInv, IndexInv, Routed, bookVars
<1>16. QED BY <1>1, <1>10, <1>14, <1>15 DEF TradeInv, BooksAct, bookVars

\* The exchange's side of a Replace.
LEMMA ReplaceExchange ==
    ASSUME ExchangeInv, NEW r \in OrderRefs, NEW price \in Prices, NEW n \in Nat \ {0},
           NEW w \in OrderRefs, w = next_ref, Replace(r, price, n),
           NEW l, l = [symbol |-> resting[r].symbol,
                       order |-> [side |-> resting[r].order.side, price |-> price, shares |-> n]]
    PROVE  /\ ExchangeInv' /\ l \in LiveOrder /\ r # w /\ w \notin heard
           /\ resting'[r] = NotResting /\ resting'[w] = l
           /\ \A q \in OrderRefs \ {r, w} : resting'[q] = resting[q]
           /\ untold'[r] = NotResting /\ untold'[w] = NotResting
           /\ \A q \in OrderRefs \ {r} : untold'[q] = untold[q]
<1>1. /\ IsResting(r) /\ next_ref' = w + 1
      /\ resting' = [resting EXCEPT ![r] = NotResting, ![w] = l]
      /\ heard' = IF joined /\ r \in heard THEN heard \cup {w} ELSE heard
      /\ untold' = [untold EXCEPT ![r] = NotResting]
      /\ Missed(r) /\ joined' = joined
  BY DEF Replace
<1>2. /\ resting \in [OrderRefs -> LiveOrder \cup {NotResting}]
      /\ untold \in [OrderRefs -> LiveOrder \cup {NotResting}]
      /\ w \in Nat /\ joined \in BOOLEAN /\ missed \in Nat /\ \A q \in OrderRefs : q \in Nat
  BY BookAssumption DEF ExchangeInv
<1>3. resting[r] \in LiveOrder BY <1>1, <1>2 DEF IsResting
<1>4. l \in LiveOrder BY <1>3 DEF LiveOrder
<1>5. r < w /\ w \notin heard /\ untold[w] = NotResting /\ ~IsResting(w)
  <2>1. \A q \in OrderRefs : IsResting(q) \/ q \in heard => q < w BY DEF ExchangeInv
  <2>2. r < w BY <1>1, <2>1
  <2>3. ~IsResting(w) /\ w \notin heard BY <1>2, <2>1
  <2>4. untold[w] = NotResting BY <2>3 DEF ExchangeInv
  <2>5. QED BY <2>2, <2>3, <2>4
<1>6. r # w BY <1>2, <1>5
<1>7. /\ resting'[r] = NotResting /\ resting'[w] = l
      /\ \A q \in OrderRefs \ {r, w} : resting'[q] = resting[q]
  BY <1>1, <1>2, <1>6
<1>8. /\ untold'[r] = NotResting /\ untold'[w] = NotResting
      /\ \A q \in OrderRefs \ {r} : untold'[q] = untold[q]
  BY <1>1, <1>2, <1>5, <1>6
<1>9. /\ resting' \in [OrderRefs -> LiveOrder \cup {NotResting}]
      /\ untold' \in [OrderRefs -> LiveOrder \cup {NotResting}]
      /\ next_ref' \in Nat /\ joined' \in BOOLEAN /\ missed' \in Nat
  BY <1>1, <1>2, <1>4 DEF Missed
<1>10. heard' \subseteq OrderRefs /\ (~joined' => heard' = {}) BY <1>1 DEF ExchangeInv
<1>11. ASSUME NEW q \in OrderRefs, IsResting(q)' \/ q \in heard' PROVE q < next_ref'
  <2>1. CASE q = w BY <1>1, <1>2, <2>1
  <2>2. CASE q # w
    <3>1. IsResting(q) \/ q \in heard BY <1>1, <1>7, <1>11, <2>2 DEF IsResting
    <3>2. q < w BY <3>1 DEF ExchangeInv
    <3>3. QED BY <1>1, <1>2, <3>2
  <2>3. QED BY <2>1, <2>2
<1>12. \A q \in OrderRefs : untold'[q] # NotResting => q \in heard'
  BY <1>1, <1>8 DEF ExchangeInv
<1>13. \A q \in OrderRefs : IsResting(q)' /\ untold'[q] # NotResting =>
         /\ untold'[q].symbol = resting'[q].symbol
         /\ untold'[q].order.side = resting'[q].order.side
         /\ untold'[q].order.price = resting'[q].order.price
  BY <1>7, <1>8 DEF ExchangeInv, IsResting
<1>14. ExchangeInv' BY <1>9, <1>10, <1>11, <1>12, <1>13 DEF ExchangeInv
<1>15. QED BY <1>4, <1>5, <1>6, <1>7, <1>8, <1>14

\* A Replace.
LEMMA ReplaceStep ==
    ASSUME TradeInv, NEW r \in OrderRefs, NEW price \in Prices, NEW n \in Nat \ {0},
           NEW w \in OrderRefs, w = next_ref, Replace(r, price, n)
    PROVE  TradeInv' /\ BooksAct
<1>1. /\ IsResting(r) /\ Hear(IngestReplace(r, w, price, n)) /\ Missed(r)
      /\ heard' = IF joined /\ r \in heard THEN heard \cup {w} ELSE heard
  BY DEF Replace
<1>2. resting[r] \in LiveOrder BY <1>1, PublishedResting DEF TradeInv
<1>3. PICK s \in Symbols : s = resting[r].symbol BY <1>2 DEF LiveOrder
<1>4. PICK o : o = [side |-> resting[r].order.side, price |-> price, shares |-> n] OBVIOUS
<1>5. PICK l : l = [symbol |-> s, order |-> o] OBVIOUS
<1>6. /\ ExchangeInv' /\ r # w /\ w \notin heard
      /\ resting'[r] = NotResting /\ resting'[w] = l
      /\ \A q \in OrderRefs \ {r, w} : resting'[q] = resting[q]
      /\ untold'[r] = NotResting /\ untold'[w] = NotResting
      /\ \A q \in OrderRefs \ {r} : untold'[q] = untold[q]
  BY <1>3, <1>4, <1>5, ReplaceExchange DEF TradeInv
<1>7. \A q \in OrderRefs \ {r, w} : \A t : View(t, q)' = View(t, q)
  BY <1>1, <1>6, ViewOfOthers
<1>8. \A t \in Symbols : View(t, r)' = NoOrder
  <2>1. AsPublished(r)' = NotResting BY <1>6 DEF AsPublished
  <2>2. QED BY <2>1, SymbolAssumption DEF View, NotResting
<1>9. \A t : View(t, w)' = IF w \in heard' /\ t = s THEN o ELSE NoOrder
  <2>1. AsPublished(w)' = l BY <1>6 DEF AsPublished
  <2>2. QED BY <1>5, <2>1 DEF View
<1>10. \A t : View(t, w) = NoOrder BY <1>6, ViewOfUnheard
<1>11. books \in [Symbols -> BookType] /\ missed \in Nat /\ on_top_change \in BOOLEAN
      /\ order_symbol \in [OrderRefs -> Symbols \cup {NoSymbol}]
      /\ (~joined => heard = {}) /\ joined \in BOOLEAN
      /\ \A t \in Symbols, q \in OrderRefs : books[t].orders[q] = View(t, q)
  BY DEF TradeInv, ExchangeInv, BookInv, BooksTypeOK, BooksMirrorExchange, View
<1>12. ASSUME r \notin heard
       PROVE  \A t \in Symbols, q \in OrderRefs : View(t, q)' = View(t, q)
  <2>1. w \notin heard' BY <1>1, <1>6, <1>12
  <2>2. \A t \in Symbols : View(t, r) = NoOrder BY <1>12, ViewOfUnheard
  <2>3. QED BY <1>7, <1>8, <1>9, <1>10, <2>1, <2>2
<1>13. CASE ~joined
  <2>1. UNCHANGED bookVars /\ r \notin heard /\ missed' = missed /\ heard' = heard
    BY <1>1, <1>11, <1>13 DEF Hear, Missed
  <2>2. BookInv' BY <1>11, <1>12, <2>1, BooksStay DEF TradeInv, bookVars
  <2>3. IndexInv' BY <2>1 DEF TradeInv, IndexInv, Routed, bookVars
  <2>4. QED BY <1>6, <2>1, <2>2, <2>3 DEF TradeInv, BooksAct, bookVars
<1>14. CASE joined /\ r \notin heard
  <2>1. IngestReplace(r, w, price, n) BY <1>1, <1>14 DEF Hear
  <2>2. ~Routed(r) BY <1>14 DEF TradeInv, IndexInv
  <2>3. /\ stat_unrouted' = stat_unrouted + 1
        /\ UNCHANGED <<books, order_symbol, wired, on_top_change>>
    BY <2>1, <2>2, UnroutedHeard DEF TradeInv, BookInv
  <2>4. missed' = missed + 1 /\ heard' = heard BY <1>1, <1>14 DEF Missed
  <2>5. BookInv' BY <1>11, <1>12, <1>14, <2>3, <2>4, BooksStay DEF TradeInv
  <2>6. IndexInv' BY <2>3, <2>4 DEF TradeInv, IndexInv, Routed
  <2>7. QED BY <1>6, <2>3, <2>5, <2>6 DEF TradeInv, BooksAct
<1>15. CASE joined /\ r \in heard
  <2> DEFINE fs == books[s].orders
             f == [[fs EXCEPT ![r] = NoOrder] EXCEPT ![w] = o]
  <2>1. IngestReplace(r, w, price, n) BY <1>1, <1>15 DEF Hear
  <2>2. /\ order_symbol[r] = s /\ s \in wired /\ Resting(books[s], r)
        /\ AsPublished(r).symbol = s /\ fs[r] = AsPublished(r).order
    BY <1>1, <1>3, <1>15, HeardIsRouted
  <2>3. fs[r].side = resting[r].order.side BY <1>1, <2>2, PublishedResting DEF TradeInv
  <2>4. /\ OneBook(s, f)
        /\ order_symbol' = [[order_symbol EXCEPT ![r] = NoSymbol] EXCEPT ![w] = s]
        /\ UNCHANGED <<wired, on_top_change, stat_unrouted>>
    <3>1. [side |-> fs[r].side, price |-> price, shares |-> n] = o BY <1>4, <2>3
    <3>2. ~Resting(books[s], w) BY <1>10, <1>11 DEF Resting
    <3>3. QED BY <2>1, <2>2, <3>1, <3>2, RoutedHeard DEF TradeInv, BookInv
  <2>5. fs \in [OrderRefs -> OrderRecord \cup {NoOrder}] BY <1>11 DEF BookType
  <2>6. w \in heard' /\ heard' = heard \cup {w} /\ missed' = missed
    BY <1>1, <1>15 DEF Missed
  <2>7. \A q \in OrderRefs : f[q] = View(s, q)'
    <3>1. f[w] = o /\ f[r] = NoOrder /\ \A q \in OrderRefs \ {r, w} : f[q] = fs[q]
      BY <1>6, <2>5
    <3> HIDE DEF f
    <3>2. \A q \in OrderRefs : fs[q] = View(s, q) BY <1>11
    <3> HIDE DEF fs
    <3>3. QED BY <1>7, <1>8, <1>9, <2>6, <3>1, <3>2
  <2>8. \A t \in Symbols \ {s}, q \in OrderRefs : View(t, q)' = View(t, q)
    <3>1. \A t \in Symbols \ {s} : View(t, r) = NoOrder BY <2>2 DEF View
    <3>2. QED BY <1>7, <1>8, <1>9, <1>10, <3>1
  <2>9. order_symbol' \in [OrderRefs -> Symbols \cup {NoSymbol}] BY <1>11, <2>4
  <2>10. order_symbol'[w] = s /\ order_symbol'[r] = NoSymbol
         /\ \A q \in OrderRefs \ {r, w} : order_symbol'[q] = order_symbol[q]
    BY <1>6, <1>11, <2>4
  <2>11. \A t \in Symbols, q \in OrderRefs : View(t, q)' # NoOrder => order_symbol'[q] = t
    <3>1. \A t \in Symbols, q \in OrderRefs : View(t, q) # NoOrder => order_symbol[q] = t
      BY <1>11 DEF TradeInv, BookInv, EveryOrderIsRoutable, Resting
    <3>2. QED BY <1>7, <1>8, <1>9, <2>10, <3>1
  <2>12. wired' = wired \cup {s} BY <2>2, <2>4
  <2> HIDE DEF f
  <2>13. BookInv'
    BY <2>4, <2>6, <2>7, <2>8, <2>9, <2>11, <2>12, BooksFollow DEF TradeInv
  <2>14. IndexInv' BY <2>6, <2>10 DEF TradeInv, IndexInv, Routed
  <2>15. QED BY <1>6, <2>4, <2>13, <2>14 DEF TradeInv, BooksAct
<1>16. QED BY <1>11, <1>13, <1>14, <1>15

-----------------------------------------------------------------------------
(* Theorems.                                                               *)

\* Every step preserves the invariant and reaches at most one book.
LEMMA TradeStep ==
    ASSUME TradeInv, NextTrade PROVE TradeInv' /\ BooksAct
<1>0. MaxShares \in Nat /\ \A n \in 1 .. MaxShares : n \in Nat \ {0} BY StreamAssumption
<1>1. CASE Join \/ SetCallback
  <2>1. /\ UNCHANGED <<books, order_symbol, wired, stat_unrouted, resting, next_ref, heard,
                       missed, untold>>
        /\ joined' \in {joined, TRUE} /\ on_top_change' \in {on_top_change, TRUE}
    BY <1>1 DEF Join, SetCallback, set_on_top_change, exchangeVars, bookVars
  <2>2. on_top_change' \in BOOLEAN /\ missed \in Nat
    BY <2>1 DEF TradeInv, ExchangeInv, BookInv, BooksTypeOK
  <2>3. ExchangeInv'
    <3>1. joined \in BOOLEAN BY DEF TradeInv, ExchangeInv
    <3>2. joined' \in BOOLEAN /\ (joined => joined')
      <4>1. joined' = joined \/ joined' = TRUE BY <2>1
      <4>2. QED BY <3>1, <4>1
    <3>3. ~joined' => heard' = {} BY <2>1, <3>2 DEF TradeInv, ExchangeInv
    <3>4. \A q \in OrderRefs : IsResting(q)' = IsResting(q) BY <2>1 DEF IsResting
    <3>5. QED BY <2>1, <3>2, <3>3, <3>4 DEF TradeInv, ExchangeInv
  <2>4. \A t \in Symbols, q \in OrderRefs : View(t, q)' = View(t, q)
    BY <2>1 DEF View, AsPublished, IsResting
  <2>5. BookInv' BY <2>1, <2>2, <2>4, BooksStay DEF TradeInv
  <2>6. IndexInv' BY <2>1 DEF TradeInv, IndexInv, Routed
  <2>7. QED BY <2>1, <2>3, <2>5, <2>6 DEF TradeInv, BooksAct
<1>2. ASSUME NEW s \in Symbols, NEW side \in Side, NEW price \in Prices,
             NEW n \in 1 .. MaxShares, Add(s, side, price, n)
      PROVE  TradeInv' /\ BooksAct
  <2>1. PICK r \in OrderRefs : r = next_ref BY <1>2 DEF Add
  <2>2. QED BY <1>0, <1>2, <2>1, AddStep
<1>3. ASSUME NEW r \in OrderRefs, NEW price \in Prices, NEW n \in 1 .. MaxShares,
             Replace(r, price, n)
      PROVE  TradeInv' /\ BooksAct
  <2>1. PICK w \in OrderRefs : w = next_ref BY <1>3 DEF Replace
  <2>2. QED BY <1>0, <1>3, <2>1, ReplaceStep
<1>4. ASSUME NEW r \in OrderRefs, Delete(r) PROVE TradeInv' /\ BooksAct
  BY <1>4, DeleteStep
<1>5. ASSUME NEW r \in OrderRefs, NEW n \in 1 .. MaxShares, Cancel(r, n) \/ Execute(r, n)
      PROVE  TradeInv' /\ BooksAct
  BY <1>0, <1>5, ShrinkStep
<1>6. ASSUME NEW r \in OrderRefs, NEW n \in 1 .. MaxShares, ExecuteWithPrice(r, n)
      PROVE  TradeInv' /\ BooksAct
  BY <1>0, <1>6, WithPriceStep
<1>7. QED BY <1>1, <1>2, <1>3, <1>4, <1>5, <1>6 DEF NextTrade

\* The invariant holds when nothing has happened yet.
LEMMA InitTradeInv == InitTrade => TradeInv
<1> SUFFICES ASSUME InitTrade PROVE TradeInv OBVIOUS
<1> USE DEF InitTrade, InitBooks
<1>1. EmptyBook \in BookType
  BY DEF EmptyBook, BookType, NoLevel, LevelAgg, TopOfBook
<1>2. /\ EmptyBook.applied = 0 /\ EmptyBook.unknown_order = 0 /\ EmptyBook.duplicate_add = 0
      /\ \A r \in OrderRefs : EmptyBook.orders[r] = NoOrder
  BY DEF EmptyBook
<1>3. books = [s \in Symbols |-> EmptyBook] OBVIOUS
<1> HIDE DEF InitTrade, InitBooks
<1>4. \A s \in Symbols : books[s] = EmptyBook BY <1>3
<1>5. BooksTypeOK BY <1>1, <1>3, <1>4 DEF InitTrade, InitBooks, BooksTypeOK
<1>6. EveryOrderIsRoutable BY <1>2, <1>4 DEF EveryOrderIsRoutable, Resting
<1>7. BooksMirrorExchange BY <1>2, <1>4 DEF InitTrade, BooksMirrorExchange
<1>8. OnlyEarlierOrdersAreUnrouted
  BY <1>2, <1>4 DEF InitTrade, InitBooks, OnlyEarlierOrdersAreUnrouted
<1>9. CallbackKnowsTheTop BY <1>2, <1>4 DEF CallbackKnowsTheTop, ToldTheTop
<1>10. ExchangeInv BY DEF InitTrade, ExchangeInv, IsResting
<1>11. IndexInv BY DEF InitTrade, InitBooks, IndexInv, Routed
<1>12. BooksAggregated
  <2>1. Aggregated(EmptyBook)
    <3>1. \A side \in Side, price \in Prices :
            /\ OrdersAt(EmptyBook, side, price) = {}
            /\ EmptyBook.levels[side][price] = [shares |-> 0, order_count |-> 0]
      BY <1>2 DEF EmptyBook, NoLevel, OrdersAt, Resting
    <3>2. Total(EmptyBook, {}) = 0 BY FS_EmptySet, TotalFacts
    <3>3. QED BY <3>1, <3>2, FS_EmptySet DEF Aggregated
  <2>2. QED BY <1>4, <2>1 DEF BooksAggregated
<1>13. QED
  BY <1>5, <1>6, <1>7, <1>8, <1>9, <1>10, <1>11, <1>12 DEF TradeInv, BookInv

\* It holds in every reachable state.
LEMMA TradeInvariance == SpecTrade => []TradeInv
<1>1. TradeInv /\ [NextTrade]_tradeVars => TradeInv'
  <2>1. SUFFICES ASSUME TradeInv, UNCHANGED tradeVars PROVE TradeInv' BY TradeStep
  <2>2. UNCHANGED <<books, order_symbol, wired, on_top_change, stat_unrouted, resting,
                    next_ref, joined, heard, missed, untold>>
    BY <2>1 DEF tradeVars, bookVars, exchangeVars
  <2>3. ExchangeInv' BY <2>1, <2>2 DEF TradeInv, ExchangeInv, IsResting
  <2>4. \A t \in Symbols, q \in OrderRefs : View(t, q)' = View(t, q)
    BY <2>2 DEF View, AsPublished, IsResting
  <2>5. on_top_change' \in BOOLEAN /\ missed \in Nat
    BY <2>1, <2>2 DEF TradeInv, ExchangeInv, BookInv, BooksTypeOK
  <2>6. BookInv' BY <2>1, <2>2, <2>4, <2>5, BooksStay DEF TradeInv
  <2>7. IndexInv' BY <2>1, <2>2 DEF TradeInv, IndexInv, Routed
  <2>8. QED BY <2>3, <2>6, <2>7 DEF TradeInv
<1>2. QED BY <1>1, InitTradeInv, PTL DEF SpecTrade

\* The books, the index and the counters keep their types.
THEOREM BooksTypeCorrect == SpecTrade => []BooksTypeOK
<1>1. TradeInv => BooksTypeOK BY DEF TradeInv, BookInv
<1>2. QED BY <1>1, TradeInvariance, PTL

\* Every order in a book is found by the index, whatever was replaced,
\* cancelled or executed before and whenever the consumer joined.
THEOREM RoutingCorrect == SpecTrade => []EveryOrderIsRoutable
<1>1. TradeInv => EveryOrderIsRoutable BY DEF TradeInv, BookInv
<1>2. QED BY <1>1, TradeInvariance, PTL

\* The books hold what the exchange has published about the orders heard of.
THEOREM BooksAreTheExchanges == SpecTrade => []BooksMirrorExchange
<1>1. TradeInv => BooksMirrorExchange BY DEF TradeInv, BookInv
<1>2. QED BY <1>1, TradeInvariance, PTL

\* On a gap-free stream nothing is unknown or a duplicate, and what is unrouted
\* is from before the join.
THEOREM UnroutedAreEarlier == SpecTrade => []OnlyEarlierOrdersAreUnrouted
<1>1. TradeInv => OnlyEarlierOrdersAreUnrouted BY DEF TradeInv, BookInv
<1>2. QED BY <1>1, TradeInvariance, PTL

\* An index entry that outlives its order is about an order the exchange is
\* done with as well, whatever was cancelled, executed or replaced before.
THEOREM IndexIsSafe == SpecTrade => []StaleEntriesAreSafe
<1>1. ASSUME TradeInv PROVE StaleEntriesAreSafe
  <2>1. SUFFICES ASSUME NEW r \in OrderRefs, Routed(r), IsResting(r)
                 PROVE  r \in heard /\ Resting(books[order_symbol[r]], r)
    BY <1>1 DEF StaleEntriesAreSafe, TradeInv, IndexInv
  <2>2. r \in heard BY <1>1, <2>1 DEF TradeInv, IndexInv
  <2>3. /\ resting[r] \in LiveOrder
        /\ AsPublished(r).symbol = resting[r].symbol
        /\ AsPublished(r).order.side = resting[r].order.side
    BY <1>1, <2>1, PublishedResting DEF TradeInv
  <2>4. resting[r].symbol \in Symbols /\ AsPublished(r).order # NoOrder
    BY <2>3 DEF LiveOrder, Side, NoOrder
  <2>5. Resting(books[resting[r].symbol], r)
    BY <1>1, <2>2, <2>3, <2>4 DEF TradeInv, BookInv, BooksMirrorExchange, Resting
  <2>6. order_symbol[r] = resting[r].symbol
    BY <1>1, <2>4, <2>5 DEF TradeInv, BookInv, EveryOrderIsRoutable
  <2>7. QED BY <2>2, <2>5, <2>6
<1>2. QED BY <1>1, TradeInvariance, PTL

\* Every price level is the aggregate of the orders resting at it, whatever the
\* messages did to the orders and to the levels separately.
THEOREM LevelsCorrect == SpecTrade => []LevelsAreAggregates
<1>1. TradeInv => LevelsAreAggregates
  BY AggregatedFacts DEF TradeInv, BookInv, BooksAggregated, LevelsAreAggregates
<1>2. QED BY <1>1, TradeInvariance, PTL

\* The callback of every book knows its top.
THEOREM TopIsTold == SpecTrade => []CallbackKnowsTheTop
<1>1. TradeInv => CallbackKnowsTheTop BY DEF TradeInv, BookInv
<1>2. QED BY <1>1, TradeInvariance, PTL

\* A price one tick above the bid of a spread that is wide enough: nothing wraps.
LEMMA TickInsideSpread ==
    ASSUME NEW bid \in Prices, NEW ask \in Prices,
           (IF ask > bid THEN ask - bid ELSE 0) > (min_spread_ticks * tick_size) % PriceMod
    PROVE  /\ bid < (bid + tick_size) % PriceMod
           /\ (bid + tick_size) % PriceMod < ask
<1>0. /\ tick_size \in Nat \ {0} /\ PriceMod \in Nat \ {0}
      /\ bid \in Nat /\ ask \in Nat /\ ask < PriceMod
  BY EngineAssumption, StreamAssumption
<1>1. PICK m \in Nat : m = (min_spread_ticks * tick_size) % PriceMod
  <2>1. min_spread_ticks \in Nat BY EngineAssumption
  <2>2. min_spread_ticks * tick_size \in Nat BY <1>0, <2>1
  <2>3. QED BY <1>0, <2>2
<1>2. m >= tick_size BY <1>1, EngineAssumption
<1>4. bid + tick_size < ask BY <1>0, <1>1, <1>2
<1>5. (bid + tick_size) % PriceMod = bid + tick_size BY <1>0, <1>4
<1>6. QED BY <1>0, <1>4, <1>5

\* A new top that a book has told is the top it has.
LEMMA ToldIsTop ==
    ASSUME TradeInv, BooksAct, NEW s \in Symbols, Told(s)
    PROVE  books'[s].last_top = Top(books'[s].levels) /\ books'[s] \in BookType
<1>1. PICK t \in Symbols : \E f : OneBook(t, f) BY DEF BooksAct, Told
<1>2. PICK f, c : books' = [books EXCEPT ![t] = c] /\ Taken(books[t], c, f)
  BY <1>1 DEF OneBook
<1>3. books \in [Symbols -> BookType] BY DEF TradeInv, BookInv, BooksTypeOK
<1>4. s = t /\ books'[s] = c BY <1>2, <1>3 DEF Told
<1>5. QED BY <1>2, <1>4 DEF Taken, Told

\* The engine is left alone or called back.
LEMMA EngineIsCalled == ASSUME NextTrade PROVE engine' = engine \/ Callback
<1>1. ASSUME NEW s \in Symbols, NEW side \in Side, NEW price \in Prices, NEW n,
             Add(s, side, price, n)
      PROVE  engine' = engine \/ Callback
  BY <1>1 DEF Add, Hear
<1>2. ASSUME NEW r \in OrderRefs, NEW price \in Prices, NEW n,
             Delete(r) \/ Cancel(r, n) \/ Execute(r, n) \/ Replace(r, price, n)
      PROVE  engine' = engine \/ Callback
  BY <1>2 DEF Delete, Cancel, Execute, Replace, Hear
<1>3. ASSUME NEW r \in OrderRefs, NEW n, Delete(r) \/ Cancel(r, n) \/ Execute(r, n)
      PROVE  engine' = engine \/ Callback
  BY <1>3 DEF Delete, Cancel, Execute, Hear
<1>4. ASSUME NEW r \in OrderRefs, NEW n, ExecuteWithPrice(r, n) PROVE engine' = engine
  BY <1>4 DEF ExecuteWithPrice
<1>5. CASE Join \/ SetCallback BY <1>5 DEF Join, SetCallback
<1>6. QED BY <1>1, <1>2, <1>3, <1>4, <1>5 DEF NextTrade

\* A call of the engine that counts a quote emits it one tick above the bid.
LEMMA EngineEmits ==
    ASSUME engine.emitted \in Nat, Callback
    PROVE  /\ engine'.emitted \in Nat
           /\ engine'.emitted # engine.emitted =>
                \E s \in Symbols :
                  LET top == books'[s].last_top IN
                  /\ Told(s) /\ top.bid # NoQuote /\ top.ask # NoQuote
                  /\ Spread(top) > (min_spread_ticks * tick_size) % PriceMod
                  /\ engine'.decision =
                       [symbol |-> s, price |-> (top.bid.price + tick_size) % PriceMod]
<1>1. CASE engine' = engine BY <1>1
<1>2. ASSUME NEW s \in Symbols, Told(s), NEW top, top = books'[s].last_top,
             on_top_of_book(s, top, top.bid # NoQuote /\ top.ask # NoQuote, recv_ns, decided_ns)
      PROVE  /\ engine'.emitted \in Nat
             /\ engine'.emitted # engine.emitted =>
                  /\ top.bid # NoQuote /\ top.ask # NoQuote
                  /\ Spread(top) > (min_spread_ticks * tick_size) % PriceMod
                  /\ engine'.decision =
                       [symbol |-> s, price |-> (top.bid.price + tick_size) % PriceMod]
  <2> DEFINE quote == /\ top.bid # NoQuote /\ top.ask # NoQuote
                      /\ Spread(top) > (min_spread_ticks * tick_size) % PriceMod
             e == [symbol |-> s, price |-> (top.bid.price + tick_size) % PriceMod]
  <2>1. /\ engine'.emitted = engine.emitted + IF quote THEN 1 ELSE 0
        /\ engine'.decision = IF quote THEN e ELSE engine.decision
    BY <1>2 DEF on_top_of_book
  <2>2. CASE quote BY <2>1, <2>2
  <2>3. CASE ~quote
    <3>1. engine'.emitted = engine.emitted + 0 BY <2>1, <2>3
    <3>2. QED BY <3>1
  <2>4. QED BY <2>2, <2>3
<1>3. QED BY <1>1, <1>2 DEF Callback

\* A quote is for the top the book has, and inside its spread, whatever
\* sequence of messages led there.
THEOREM QuotesAreInside == SpecTrade => QuoteInsideSpread
<1>1. InitTrade => engine.emitted \in Nat BY DEF InitTrade, InitEngine
<1>2. engine.emitted \in Nat /\ [NextTrade]_tradeVars => (engine.emitted \in Nat)'
  BY EngineIsCalled, EngineEmits DEF tradeVars
<1>3. SpecTrade => [](engine.emitted \in Nat) BY <1>1, <1>2, PTL DEF SpecTrade
<1>4. ASSUME TradeInv, engine.emitted \in Nat, NextTrade, engine'.emitted > engine.emitted
      PROVE  LET d   == engine'.decision
                 top == Top(books'[d.symbol].levels)
             IN  /\ top.bid # NoQuote /\ top.ask # NoQuote
                 /\ top.bid.price < d.price /\ d.price < top.ask.price
  <2>1. BooksAct BY <1>4, TradeStep
  <2>2. engine'.emitted # engine.emitted
    <3>1. \A x \in Nat : ~(x > x) OBVIOUS
    <3>2. QED BY <1>4, <3>1
  <2>3. Callback BY <1>4, <2>2, EngineIsCalled
  <2>4. PICK s \in Symbols :
          LET top == books'[s].last_top IN
          /\ Told(s) /\ top.bid # NoQuote /\ top.ask # NoQuote
          /\ Spread(top) > (min_spread_ticks * tick_size) % PriceMod
          /\ engine'.decision =
               [symbol |-> s, price |-> (top.bid.price + tick_size) % PriceMod]
    BY <1>4, <2>2, <2>3, EngineEmits
  <2>5. books'[s].last_top = Top(books'[s].levels) /\ books'[s] \in BookType
    BY <1>4, <2>1, <2>4, ToldIsTop
  <2>6. PICK top : top = Top(books'[s].levels) OBVIOUS
  <2>7. top.bid.price \in Prices /\ top.ask.price \in Prices
    <3>1. books'[s].levels \in LevelsType BY <2>5 DEF BookType, LevelsType
    <3>2. QED BY <2>4, <2>5, <2>6, <3>1, TopFacts
  <2>8. /\ engine'.decision.symbol = s
        /\ engine'.decision.price = (top.bid.price + tick_size) % PriceMod
        /\ top.bid # NoQuote /\ top.ask # NoQuote
        /\ Spread(top) > (min_spread_ticks * tick_size) % PriceMod
    BY <2>4, <2>5, <2>6
  <2>9. /\ top.bid.price < (top.bid.price + tick_size) % PriceMod
        /\ (top.bid.price + tick_size) % PriceMod < top.ask.price
    BY <2>7, <2>8, TickInsideSpread DEF Spread
  <2>10. QED BY <2>6, <2>8, <2>9
<1>5. TradeInv /\ engine.emitted \in Nat /\ [NextTrade]_tradeVars =>
        [engine'.emitted > engine.emitted =>
          LET d   == engine'.decision
              top == Top(books'[d.symbol].levels)
          IN  /\ top.bid # NoQuote /\ top.ask # NoQuote
              /\ top.bid.price < d.price /\ d.price < top.ask.price]_tradeVars
  BY <1>4
<1>6. QED BY <1>3, <1>5, TradeInvariance, PTL DEF SpecTrade, QuoteInsideSpread
=============================================================================

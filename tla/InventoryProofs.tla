-------------------------- MODULE InventoryProofs --------------------------
(***************************************************************************)
(* What holds of the stock for any catalogue, any number of transactions   *)
(* and lines, and any edits of packagings, recipes and shapes.             *)
(***************************************************************************)
EXTENDS Inventory, TotalsTheorems, WellFoundedInduction

\* Components are base products: no combo nor presentation is one.
ComponentsAreBase ==
    \A p, q \in Products : IsCombo(p) /\ product[p].recipe[q] > 0 =>
        ~IsCombo(q) /\ product[q].parent = NoParent

\* A row of stock, and a line, is in one transaction at a time.
RowsApart ==
    \A t, u \in Transactions : t # u => trade[t].held \cap trade[u].held = {}

Touches(t, l) == trade[t].line = l \/ trade[t].added = l

LinesApart ==
    \A t, u \in Transactions, l \in Lines : Touches(t, l) /\ Touches(u, l) => t = u

\* What a transaction has in its rows is their stock, with what it gave back
\* to them once it goes on to take.
ReadBy(t) ==
    /\ trade[t].step = "idle" => trade[t] = NoTrade
    /\ trade[t].step = "return" => trade[t].takes = Empty
    /\ trade[t].locked \subseteq trade[t].held
    /\ \A p \in Products :
          /\ trade[t].step = "deduct" /\ trade[t].gives[p] > 0 => p \in trade[t].held
          /\ p \in trade[t].held =>
                trade[t].wrote[p] = onHand[p] + (IF trade[t].step = "deduct"
                                                 THEN trade[t].gives[p] ELSE 0)

StockRead == \A t \in Transactions : ReadBy(t)

LinesKnown ==
    \A l \in Lines : /\ line[l].state = "none" => line[l] = NoLineYet
                     /\ line[l].state # "none" => line[l].item \in Products

\* What a transaction gives back, of a line that nothing shook, is what that
\* many units of the line stand for today.
GivesFollow(t) ==
    LET l == trade[t].line IN
    /\ l \in Lines /\ line[l].state # "none"
    /\ trade[t].back <= line[l].quantity
    /\ trade[t].step = "return" \/ trade[t].added # NoLine => line[l].state = "live"
    /\ trade[t].step = "return" => trade[t].take = 0 /\ trade[t].added = NoLine
    /\ ~line[l].shaken => trade[t].gives = UnitsOfLine(l, trade[t].back)

\* A delivery takes the whole line.
DeliveryFollows(t) ==
    LET l == trade[t].line IN
    /\ line[l].state = "order" /\ trade[t].back = 0 /\ trade[t].take = line[l].quantity
    /\ ~line[l].shaken => trade[t].takes = UnitsOfLine(l, trade[t].take)

\* An addition takes what it froze, for its line or for one not written yet.
AdditionFollows(t) ==
    LET l == trade[t].line
        m == trade[t].added
    IN
    /\ trade[t].step = "deduct" /\ trade[t].item \in Products
    /\ m = l => trade[t].back = 0 /\ trade[t].item = line[l].item
    /\ m # l => line[m].state = "none"
    /\ ~trade[t].shaken =>
          /\ trade[t].takes = UnitsOf(trade[t].item, trade[t].take, trade[t].factor,
                                      trade[t].recipe)
          /\ trade[t].recipe = RecipeToFreeze(trade[t].item)

Follows(t) ==
    trade[t].step # "idle" =>
        /\ GivesFollow(t)
        /\ trade[t].step = "deduct" /\ trade[t].added = NoLine => DeliveryFollows(t)
        /\ trade[t].added # NoLine => AdditionFollows(t)

TradesFollow == \A t \in Transactions : Follows(t)

StockInv ==
    /\ InventoryTypeOK /\ ComponentsAreBase /\ RowsApart /\ LinesApart /\ StockRead
    /\ LinesKnown /\ TradesFollow /\ StockIsItsMovements /\ ReturnsWhatItTook

-----------------------------------------------------------------------------
(* What units stand for.                                                   *)

Frozen == Recipe \cup {NotFrozen}

LEMMA RecipesUsed ==
    ASSUME InventoryTypeOK, NEW item \in Products, NEW recipe \in Frozen
    PROVE  RecipeUsed(item, recipe) \in Recipe /\ product[item].recipe \in Recipe
BY DEF InventoryTypeOK, ProductRow, RecipeUsed, Frozen

\* What some units of a combo draw from each row, component by component.
Draws(item, quantity, recipe, p) ==
    [q \in Products |->
        IF Target(q) = p THEN quantity * RecipeUsed(item, recipe)[q] ELSE 0]

LEMMA DrawsAreNat ==
    ASSUME InventoryTypeOK, NEW item \in Products, NEW quantity \in Nat, NEW recipe \in Frozen,
           NEW p \in Products
    PROVE  \A q \in Products : Draws(item, quantity, recipe, p)[q] \in Nat
<1> SUFFICES ASSUME NEW q \in Products
             PROVE  Draws(item, quantity, recipe, p)[q] \in Nat
  OBVIOUS
<1>1. RecipeUsed(item, recipe)[q] \in Nat
  BY RecipesUsed DEF Recipe
<1>2. quantity * RecipeUsed(item, recipe)[q] \in Nat
  BY <1>1
<1> QED
  BY <1>2 DEF Draws

LEMMA UnitsAreNat ==
    ASSUME InventoryTypeOK, NEW item \in Products, NEW quantity \in Nat, NEW factor \in Nat,
           NEW recipe \in Frozen
    PROVE  UnitsOf(item, quantity, factor, recipe) \in Recipe
<1>1. ASSUME NEW p \in Products
      PROVE  Total(Draws(item, quantity, recipe, p), Products) \in Nat
  BY DrawsAreNat, TotalIsNat, InventoryAssumption
<1>2. quantity * factor \in Nat
  OBVIOUS
<1> QED
  BY <1>1, <1>2 DEF UnitsOf, Draws, Recipe

LEMMA UnitsAdd ==
    ASSUME InventoryTypeOK, NEW item \in Products, NEW a \in Nat, NEW b \in Nat,
           NEW factor \in Nat, NEW recipe \in Frozen, NEW p \in Products
    PROVE  UnitsOf(item, a + b, factor, recipe)[p]
           = UnitsOf(item, a, factor, recipe)[p] + UnitsOf(item, b, factor, recipe)[p]
<1>1. Total(Draws(item, a + b, recipe, p), Products)
      = Total(Draws(item, a, recipe, p), Products) + Total(Draws(item, b, recipe, p), Products)
  <2> DEFINE f == Draws(item, a, recipe, p)
             g == Draws(item, b, recipe, p)
             h == Draws(item, a + b, recipe, p)
  <2>1. ASSUME NEW q \in Products
        PROVE  f[q] \in Nat /\ g[q] \in Nat /\ h[q] = f[q] + g[q]
    <3>1. f[q] \in Nat /\ g[q] \in Nat
      BY DrawsAreNat
    <3>2. PICK n \in Nat : n = RecipeUsed(item, recipe)[q]
      BY RecipesUsed DEF Recipe
    <3>3. (a + b) * n = a * n + b * n
      OBVIOUS
    <3>4. h[q] = f[q] + g[q]
      BY <3>2, <3>3 DEF Draws
    <3> QED
      BY <3>1, <3>4
  <2> HIDE DEF f, g, h
  <2>2. Total(h, Products) = Total(f, Products) + Total(g, Products)
    BY <2>1, TotalPlus, InventoryAssumption
  <2> QED
    BY <2>2 DEF f, g, h
<1>2. CASE IsCombo(item)
  BY <1>1, <1>2 DEF UnitsOf, Draws
<1>3. CASE ~IsCombo(item)
  <2>1. (a + b) * factor = a * factor + b * factor
    OBVIOUS
  <2> QED
    BY <1>3, <2>1 DEF UnitsOf
<1> QED
  BY <1>2, <1>3

LEMMA UnitsOfNone ==
    ASSUME InventoryTypeOK, NEW item \in Products, NEW factor \in Nat, NEW recipe \in Frozen
    PROVE  UnitsOf(item, 0, factor, recipe) = Empty
<1>1. ASSUME NEW p \in Products
      PROVE  Total(Draws(item, 0, recipe, p), Products) = 0
  <2>1. ASSUME NEW q \in Products
        PROVE  Draws(item, 0, recipe, p)[q] = 0
    <3>1. PICK n \in Nat : n = RecipeUsed(item, recipe)[q]
      BY RecipesUsed DEF Recipe
    <3>2. 0 * n = 0
      OBVIOUS
    <3> QED
      BY <3>1, <3>2 DEF Draws
  <2> QED
    BY <2>1, TotalZero
<1>2. 0 * factor = 0
  OBVIOUS
<1> QED
  BY <1>1, <1>2 DEF UnitsOf, Draws, Empty

\* Edits of the catalogue that leave the units of an item as they were: it is
\* of the same type and goes to the same rows, or its components do.
LEMMA UnitsStand ==
    ASSUME InventoryTypeOK, InventoryTypeOK', NEW item \in Products, NEW quantity \in Nat,
           NEW factor \in Nat, NEW recipe \in Frozen,
           IsCombo(item)' <=> IsCombo(item),
           ~IsCombo(item) => Target(item)' = Target(item),
           IsCombo(item) => /\ RecipeUsed(item, recipe)' = RecipeUsed(item, recipe)
                            /\ \A q \in Products : RecipeUsed(item, recipe)[q] > 0 =>
                                  Target(q)' = Target(q)
    PROVE  UnitsOf(item, quantity, factor, recipe)' = UnitsOf(item, quantity, factor, recipe)
<1>1. CASE IsCombo(item)
  <2> DEFINE d(p) == Draws(item, quantity, recipe, p)
             e(p) == [q \in Products |-> IF Target(q)' = p
                         THEN quantity * RecipeUsed(item, recipe)[q] ELSE 0]
  <2>1. ASSUME NEW p \in Products
        PROVE  Total(d(p), Products) = Total(e(p), Products)
    <3>1. ASSUME NEW q \in Products
          PROVE  d(p)[q] = e(p)[q]
      <4>1. PICK n \in Nat : n = RecipeUsed(item, recipe)[q]
        BY RecipesUsed DEF Recipe
      <4>2. CASE n > 0
        BY <1>1, <4>1, <4>2 DEF Draws
      <4>3. CASE n = 0
        <5>1. quantity * n = 0
          BY <4>3
        <5> QED
          BY <4>1, <5>1 DEF Draws
      <4> QED
        BY <4>1, <4>2, <4>3
    <3> HIDE DEF d, e
    <3> QED
      BY <3>1, TotalSame
  <2>2. UnitsOf(item, quantity, factor, recipe) = [p \in Products |-> Total(d(p), Products)]
    BY <1>1 DEF UnitsOf, Draws
  <2>3. UnitsOf(item, quantity, factor, recipe)' = [p \in Products |-> Total(e(p), Products)]
    BY <1>1 DEF UnitsOf
  <2> HIDE DEF d, e
  <2> QED
    BY <2>1, <2>2, <2>3
<1>2. CASE ~IsCombo(item)
  BY <1>2 DEF UnitsOf
<1> QED
  BY <1>1, <1>2
-----------------------------------------------------------------------------
(* Each operation keeps the types.                                         *)

LEMMA StockStart == InventoryInit => StockInv
<1> SUFFICES ASSUME InventoryInit
             PROVE  StockInv
  OBVIOUS
<1> USE InventoryAssumption DEF InventoryInit
<1>0. onHand \in [Products -> Int] /\ \A p \in Products : onHand[p] >= 0
  <2>1. onHand \in [Products -> Stocks] /\ \A n \in Stocks : n \in Int /\ n >= 0
    BY DEF InventoryAssumption
  <2> QED
    BY ONLY <2>1
<1>1. Empty \in Recipe /\ Empty \in [Products -> Int]
  BY DEF Recipe, Empty
<1>2. InventoryTypeOK
  <2>1. NoLineYet \in LineRow
    BY DEF NoLineYet, LineRow
  <2>2. NoTrade \in Trade
    BY <1>1 DEF NoTrade, Trade
  <2>3. onHand \in [Products -> Int]
    BY <1>0
  <2> QED
    BY <1>1, <2>1, <2>2, <2>3 DEF InventoryTypeOK
<1>3. ComponentsAreBase
  BY DEF ComponentsAreBase, IsCombo
<1>4. RowsApart /\ LinesApart /\ StockRead /\ TradesFollow
  BY DEF RowsApart, LinesApart, Touches, StockRead, ReadBy, TradesFollow, Follows,
        NoTrade, NoLine, Lines
<1>5. LinesKnown /\ ReturnsWhatItTook
  BY DEF LinesKnown, ReturnsWhatItTook, Delivered, NoLineYet
<1>6. StockIsItsMovements
  BY <1>0 DEF StockIsItsMovements
<1> QED
  BY <1>2, <1>3, <1>4, <1>5, <1>6 DEF StockInv

LEMMA TradeFields ==
    ASSUME InventoryTypeOK, NEW t \in Transactions
    PROVE  /\ trade[t] \in Trade
           /\ trade[t].gives \in Recipe /\ trade[t].takes \in Recipe
           /\ trade[t].wrote \in [Products -> Int]
           /\ trade[t].locked \subseteq Products /\ trade[t].held \subseteq Products
           /\ UnitsOfStep(t) \in Recipe /\ Sign(t) \in {1, -1}
BY DEF InventoryTypeOK, Trade, UnitsOfStep, Sign

LEMMA WrittenIsInt ==
    ASSUME InventoryTypeOK, NEW t \in Transactions
    PROVE  Written(t) \in [Products -> Int]
<1>1. ASSUME NEW p \in Products
      PROVE  trade[t].wrote[p] + Sign(t) * UnitsOfStep(t)[p] \in Int
  <2>1. trade[t].wrote[p] \in Int /\ UnitsOfStep(t)[p] \in Nat
    BY TradeFields DEF Recipe
  <2>2. Sign(t) = 1 \/ Sign(t) = -1
    BY DEF Sign
  <2> QED
    BY <2>1, <2>2
<1> QED
  BY <1>1 DEF Written

LEMMA ItemKnown ==
    ASSUME StockInv, NEW l \in Lines, line[l].state # "none"
    PROVE  /\ line[l] \in LineRow /\ line[l].item \in Products
           /\ line[l].quantity \in Nat /\ line[l].factor \in Nat
           /\ line[l].recipe \in Frozen
BY DEF StockInv, InventoryTypeOK, LineRow, LinesKnown, Frozen

LEMMA FreezesKnown ==
    ASSUME InventoryTypeOK, NEW item \in Products
    PROVE  RecipeToFreeze(item) \in Frozen /\ product[item].factor \in Nat \ {0}
BY DEF InventoryTypeOK, ProductRow, RecipeToFreeze, Frozen

\* The rows that a commit leaves.
LEMMA LinesAfterTyped ==
    ASSUME StockInv, NEW t \in Transactions, trade[t].step # "idle"
    PROVE  /\ LinesAfter(t) \in [Lines -> LineRow]
           /\ OutAfter(t) \in [Lines -> [Products -> Int]]
<1> DEFINE r == trade[t]
           k == r.line
<1>1. /\ r \in Trade /\ k \in Lines /\ line[k] \in LineRow
      /\ r.back \in Nat /\ line[k].quantity \in Nat /\ r.take \in Nat
      /\ r.back <= line[k].quantity
      /\ r.gives \in Recipe /\ r.takes \in Recipe
  BY TradeFields DEF StockInv, InventoryTypeOK, TradesFollow, Follows, GivesFollow, LineRow, Trade
<1>2. line[k].quantity - r.back \in Nat /\ line[k].quantity + r.take \in Nat
  BY <1>1
<1>3. LinesAfter(t) \in [Lines -> LineRow]
  <2>1. [state |-> "live", item |-> r.item, quantity |-> r.take, factor |-> r.factor,
         recipe |-> NotFrozen, shaken |-> r.shaken] \in LineRow
    BY <1>1 DEF LineRow, Trade
  <2>2. ASSUME NEW s \in BOOLEAN, NEW n \in Nat
        PROVE  [line[k] EXCEPT !.state = "live", !.quantity = n, !.shaken = s] \in LineRow
    BY <1>1 DEF LineRow
  <2>3. line[k].shaken \in BOOLEAN
    BY <1>1 DEF LineRow
  <2> QED
    BY <1>1, <1>2, <2>1, <2>2, <2>3 DEF LinesAfter, LineAfter, LineAdded, StockInv,
                                        InventoryTypeOK
<1>4. ASSUME NEW l \in Lines, NEW p \in Products
      PROVE  /\ out[l][p] \in Int /\ r.gives[p] \in Nat /\ r.takes[p] \in Nat
             /\ OutAfter(t)[l][p] \in Int
  <2>1. out[l][p] \in Int /\ r.gives[p] \in Nat /\ r.takes[p] \in Nat
    BY <1>1 DEF StockInv, InventoryTypeOK, Recipe
  <2> QED
    BY <2>1 DEF OutAfter
<1>5. OutAfter(t) \in [Lines -> [Products -> Int]]
  BY <1>4 DEF OutAfter
<1> QED
  BY <1>3, <1>5
-----------------------------------------------------------------------------
(* Each operation keeps the invariant.                                     *)

\* A step of one transaction that writes nothing yet.
LEMMA TradeStep ==
    ASSUME StockInv, NEW t \in Transactions, NEW r \in Trade,
           trade' = [trade EXCEPT ![t] = r],
           UNCHANGED <<product, onHand, booked, line, out, forced, catalogueEdits>>,
           \A u \in Transactions \ {t} : r.held \cap trade[u].held = {},
           \A u \in Transactions \ {t}, l \in Lines :
               r.line = l \/ r.added = l => ~Touches(u, l),
           ReadBy(t)', Follows(t)'
    PROVE  StockInv'
<1>1. InventoryTypeOK'
  BY DEF StockInv, InventoryTypeOK
<1>2. trade'[t] = r /\ \A u \in Transactions \ {t} : trade'[u] = trade[u]
  BY DEF StockInv, InventoryTypeOK
<1>3. ComponentsAreBase' /\ LinesKnown' /\ StockIsItsMovements'
  BY DEF StockInv, ComponentsAreBase, IsCombo, LinesKnown, StockIsItsMovements
<1>4. ReturnsWhatItTook'
  BY DEF StockInv, ReturnsWhatItTook, Delivered, UnitsOfLine, UnitsOf, IsCombo, Target,
         RecipeUsed
<1>5. RowsApart'
  BY <1>2 DEF StockInv, RowsApart
<1>6. LinesApart'
  BY <1>2 DEF StockInv, LinesApart, Touches
<1>7. StockRead'
  BY <1>2 DEF StockInv, StockRead, ReadBy
<1>8. TradesFollow'
  <2> SUFFICES ASSUME NEW u \in Transactions, u # t
               PROVE  Follows(u)'
    BY DEF TradesFollow
  <2>1. /\ \A i, q, f, recipe : UnitsOf(i, q, f, recipe)' = UnitsOf(i, q, f, recipe)
        /\ \A k, q : UnitsOfLine(k, q)' = UnitsOfLine(k, q)
        /\ \A i : RecipeToFreeze(i)' = RecipeToFreeze(i)
    BY DEF UnitsOfLine, UnitsOf, IsCombo, Target, RecipeUsed, RecipeToFreeze
  <2>2. trade'[u] = trade[u] /\ line' = line
    BY <1>2
  <2>3. /\ GivesFollow(u)' <=> GivesFollow(u)
        /\ DeliveryFollows(u)' <=> DeliveryFollows(u)
    BY <2>1, <2>2 DEF GivesFollow, DeliveryFollows
  <2>4. AdditionFollows(u)' <=> AdditionFollows(u)
    BY <2>1, <2>2 DEF AdditionFollows
  <2> QED
    BY <2>2, <2>3, <2>4 DEF StockInv, TradesFollow, Follows
<1> QED
  BY <1>1, <1>3, <1>4, <1>5, <1>6, <1>7, <1>8 DEF StockInv

LEMMA NoTradeIsOne == NoTrade \in Trade
BY DEF NoTrade, Trade, Recipe, Empty

LEMMA RefuseTradeKeeps ==
    ASSUME StockInv, NEW t \in Transactions, RefuseTrade(t)
    PROVE  StockInv'
<1>1. trade'[t] = NoTrade
  BY DEF RefuseTrade, StockInv, InventoryTypeOK
<1>2. ReadBy(t)' /\ Follows(t)'
  BY <1>1 DEF ReadBy, Follows, NoTrade
<1>3. NoTrade.held = {} /\ NoTrade.line = 0 /\ NoTrade.added = 0 /\ \A l \in Lines : l # 0
  BY DEF NoTrade, NoLine, Lines
<1> QED
  BY <1>2, <1>3, NoTradeIsOne, TradeStep DEF RefuseTrade

LEMMA StartDeliveryKeeps ==
    ASSUME StockInv, NEW t \in Transactions, NEW l \in Lines, NEW force \in BOOLEAN,
           StartDelivery(t, l, force)
    PROVE  StockInv'
<1> USE DEF StartDelivery
<1> DEFINE takes == UnitsOfLine(l, line[l].quantity)
           r == [NoTrade EXCEPT
                    !.step = "deduct", !.line = l, !.item = line[l].item,
                    !.take = line[l].quantity, !.takes = takes, !.factor = line[l].factor,
                    !.recipe = line[l].recipe, !.force = force]
<1>1. /\ line[l] \in LineRow /\ line[l].item \in Products /\ line[l].quantity \in Nat
      /\ line[l].factor \in Nat /\ line[l].recipe \in Frozen
  BY ItemKnown
<1>2. takes \in Recipe
  BY <1>1, UnitsAreNat DEF UnitsOfLine, StockInv
<1> HIDE DEF takes
<1>3. r \in Trade
  BY <1>1, <1>2, NoTradeIsOne DEF NoTrade, Trade, LineRow
<1>4. trade'[t] = r /\ trade' = [trade EXCEPT ![t] = r]
  BY DEF StockInv, InventoryTypeOK, takes
<1>5. ReadBy(t)'
  BY <1>4 DEF ReadBy, NoTrade, Empty
<1>6. Follows(t)'
  <2>1. UnitsOfLine(l, 0) = Empty
    BY <1>1, UnitsOfNone DEF UnitsOfLine, StockInv
  <2>2. /\ r.step = "deduct" /\ r.line = l /\ r.added = NoLine /\ r.back = 0
        /\ r.gives = Empty /\ r.take = line[l].quantity /\ r.takes = takes
    BY DEF NoTrade
  <2>3. \A n : UnitsOfLine(l, n)' = UnitsOfLine(l, n)
    BY DEF UnitsOfLine, UnitsOf, IsCombo, Target, RecipeUsed
  <2> HIDE DEF r
  <2>4. GivesFollow(t)'
    <3>1. trade'[t].line = l /\ trade'[t].back = 0 /\ trade'[t].added = NoLine
          /\ trade'[t].step = "deduct" /\ trade'[t].gives = Empty
      BY <1>4, <2>2
    <3>2. line' = line /\ line[l].state = "order"
      OBVIOUS
    <3>3. UnitsOfLine(l, 0)' = Empty
      BY <2>1, <2>3
    <3>4. line'[l].state # "none" /\ 0 <= line'[l].quantity
      BY <1>1, <3>2
    <3>5. UnitsOfLine(trade[t].line, trade[t].back)' = Empty
      BY <3>1, <3>3
    <3> QED
      BY <3>1, <3>2, <3>4, <3>5 DEF GivesFollow
  <2>5. DeliveryFollows(t)'
    BY <1>4, <2>2, <2>3 DEF DeliveryFollows, takes
  <2> QED
    BY <1>4, <2>2, <2>4, <2>5 DEF Follows
<1>7. r.held = {} /\ r.line = l /\ r.added = 0 /\ \A k \in Lines : k # 0
  BY DEF NoTrade, NoLine, Lines
<1>8. \A u \in Transactions : ~Touches(u, l)
  BY DEF Busy, Touches
<1> HIDE DEF r
<1>9. /\ \A u \in Transactions \ {t} : r.held \cap trade[u].held = {}
      /\ \A u \in Transactions \ {t}, k \in Lines :
            r.line = k \/ r.added = k => ~Touches(u, k)
  BY <1>7, <1>8
<1>10. UNCHANGED <<product, onHand, booked, line, out, forced, catalogueEdits>>
  OBVIOUS
<1> QED
  BY <1>3, <1>4, <1>5, <1>6, <1>9, <1>10, TradeStep
\* A line, and what is known of it, in a step that leaves line and product alone.
LEMMA UnitsUntouched ==
    ASSUME UNCHANGED <<product, line>>
    PROVE  /\ \A i, q, f, recipe : UnitsOf(i, q, f, recipe)' = UnitsOf(i, q, f, recipe)
           /\ \A k, q : UnitsOfLine(k, q)' = UnitsOfLine(k, q)
           /\ \A i : RecipeToFreeze(i)' = RecipeToFreeze(i)
BY DEF UnitsOfLine, UnitsOf, IsCombo, Target, RecipeUsed, RecipeToFreeze

LEMMA StartReturnKeeps ==
    ASSUME StockInv, NEW t \in Transactions, NEW l \in Lines, NEW back \in 0..MaxQuantity,
           StartReturn(t, l, back)
    PROVE  StockInv'
<1> DEFINE gives == UnitsOfLine(l, back)
           r == [NoTrade EXCEPT
                    !.step = "return", !.line = l, !.back = back, !.gives = gives]
<1>1. /\ line[l].state = "live" /\ line[l].state # "none" /\ back \in 0..line[l].quantity
      /\ UNCHANGED <<product, onHand, booked, line, out, forced, catalogueEdits>>
      /\ trade' = [trade EXCEPT ![t] = r] /\ ~Busy(l)
  BY DEF StartReturn
<1>2. /\ line[l] \in LineRow /\ line[l].item \in Products /\ line[l].quantity \in Nat
      /\ line[l].factor \in Nat /\ line[l].recipe \in Frozen /\ back \in Nat
  BY <1>1, ItemKnown
<1>3. gives \in Recipe
  BY <1>2, UnitsAreNat DEF UnitsOfLine, StockInv
<1>4. trade'[t] = r
  BY <1>1 DEF StockInv, InventoryTypeOK
<1>5. gives = UnitsOfLine(l, back)'
  BY <1>1, UnitsUntouched
<1> HIDE DEF gives
<1>6. r \in Trade
  BY <1>2, <1>3, NoTradeIsOne DEF NoTrade, Trade, LineRow
<1>7. /\ r.step = "return" /\ r.line = l /\ r.back = back /\ r.added = 0 /\ r.take = 0
      /\ r.gives = gives /\ r.takes = Empty /\ r.locked = {} /\ r.held = {}
  BY DEF NoTrade, NoLine
<1> HIDE DEF r
<1>8. ReadBy(t)'
  BY <1>4, <1>7 DEF ReadBy
<1>9. Follows(t)'
  <2>1. GivesFollow(t)'
    <3>1. UnitsOfLine(trade[t].line, trade[t].back)' = gives
      BY <1>4, <1>5, <1>7
    <3> QED
      BY <1>1, <1>2, <1>4, <1>7, <3>1 DEF GivesFollow, NoLine
  <2> QED
    BY <1>4, <1>7, <2>1 DEF Follows, NoLine
<1>10. /\ \A u \in Transactions \ {t} : r.held \cap trade[u].held = {}
       /\ \A u \in Transactions \ {t}, k \in Lines :
            r.line = k \/ r.added = k => ~Touches(u, k)
  BY <1>1, <1>7 DEF Busy, Touches, Lines
<1> QED
  BY <1>1, <1>6, <1>8, <1>9, <1>10, TradeStep

\* There is a next row.
LEMMA NextRow ==
    ASSUME NEW t \in Transactions, ToLock(t) # {}
    PROVE  Min(ToLock(t)) \in ToLock(t)
<1>1. ToLock(t) \subseteq Nat
  BY InventoryAssumption DEF ToLock
<1>2. PICK x \in ToLock(t) : \A y \in ToLock(t) : <<y, x>> \notin OpToRel(<, Nat)
  BY <1>1, NatLessThanWellFounded, WFMin
<1>3. \A y \in ToLock(t) : x <= y
  <2>1. \A y \in ToLock(t) : ~(y < x)
    BY <1>1, <1>2 DEF OpToRel
  <2> QED
    BY <1>1, <2>1
<1> QED
  BY <1>3 DEF Min

LEMMA LockRowKeeps ==
    ASSUME StockInv, NEW t \in Transactions, LockRow(t)
    PROVE  StockInv'
<1>1. PICK p : p = Min(ToLock(t))
  OBVIOUS
<1>2. p \in ToLock(t) /\ p \in Products /\ UnitsOfStep(t)[p] > 0 /\ p \notin trade[t].locked
  BY <1>1, NextRow DEF LockRow, ToLock
<1> DEFINE wrote == IF p \in trade[t].held THEN trade[t].wrote
                    ELSE [trade[t].wrote EXCEPT ![p] = onHand[p]]
           r == [trade[t] EXCEPT
                    !.locked = @ \cup {p}, !.held = @ \cup {p}, !.wrote = wrote]
<1>3. /\ trade[t].step # "idle" /\ RowFree(t, p)
      /\ UNCHANGED <<product, onHand, booked, line, out, forced, catalogueEdits>>
      /\ trade' = [trade EXCEPT ![t] = r]
  BY ONLY <1>1, LockRow(t) DEF LockRow
<1>4. /\ wrote \in [Products -> Int]
      /\ \A q \in Products : wrote[q] = IF q = p /\ p \notin trade[t].held THEN onHand[p]
                                        ELSE trade[t].wrote[q]
  BY <1>2, TradeFields DEF StockInv, InventoryTypeOK
<1> HIDE DEF wrote
<1>5. r \in Trade
  <2>1. trade[t] \in Trade
    BY TradeFields DEF StockInv
  <2> QED
    BY <1>2, <1>4, <2>1 DEF Trade
<1>6. trade'[t] = r
  BY <1>3 DEF StockInv, InventoryTypeOK
<1>7. /\ r.step = trade[t].step /\ r.line = trade[t].line /\ r.added = trade[t].added
      /\ r.back = trade[t].back /\ r.take = trade[t].take /\ r.item = trade[t].item
      /\ r.gives = trade[t].gives /\ r.takes = trade[t].takes /\ r.shaken = trade[t].shaken
      /\ r.factor = trade[t].factor /\ r.recipe = trade[t].recipe
      /\ r.wrote = wrote /\ r.locked = trade[t].locked \cup {p}
      /\ r.held = trade[t].held \cup {p}
  BY TradeFields DEF StockInv, Trade
<1> HIDE DEF r
<1>8. ReadBy(t)'
  <2>1. ReadBy(t)
    BY DEF StockInv, StockRead
  <2>2. trade[t].step = "deduct" /\ p \notin trade[t].held => trade[t].gives[p] = 0
    BY <1>2, <2>1, TradeFields DEF StockInv, ReadBy, Recipe
  <2>3. onHand' = onHand /\ onHand[p] \in Int
    BY <1>2, <1>3 DEF StockInv, InventoryTypeOK
  <2> QED
    BY <1>2, <1>3, <1>4, <1>6, <1>7, <2>1, <2>2, <2>3 DEF ReadBy
<1>9. Follows(t)'
  <2>1. Follows(t)
    BY DEF StockInv, TradesFollow
  <2>2. line' = line
    BY <1>3
  <2>3. /\ GivesFollow(t)' <=> GivesFollow(t)
        /\ DeliveryFollows(t)' <=> DeliveryFollows(t)
    BY <1>3, <1>6, <1>7, <2>2, UnitsUntouched DEF GivesFollow, DeliveryFollows
  <2>4. AdditionFollows(t)' <=> AdditionFollows(t)
    BY <1>3, <1>6, <1>7, <2>2, UnitsUntouched DEF AdditionFollows
  <2> QED
    BY <1>6, <1>7, <2>1, <2>3, <2>4 DEF Follows
<1>10. /\ \A u \in Transactions \ {t} : r.held \cap trade[u].held = {}
       /\ \A u \in Transactions \ {t}, k \in Lines :
            r.line = k \/ r.added = k => ~Touches(u, k)
  BY <1>3, <1>7 DEF StockInv, RowsApart, RowFree, LinesApart, Touches
<1> QED
  BY <1>3, <1>5, <1>8, <1>9, <1>10, TradeStep
LEMMA StartAdditionKeeps ==
    ASSUME StockInv, NEW t \in Transactions, NEW m \in Lines, NEW item \in Products,
           NEW quantity \in 1..MaxQuantity, NEW force \in BOOLEAN,
           StartAddition(t, m, item, quantity, force)
    PROVE  StockInv'
<1> DEFINE l == trade[t].line
           takes == UnitsOf(item, quantity, product[item].factor, RecipeToFreeze(item))
           wrote == Written(t)
           r == [trade[t] EXCEPT
                    !.step = "deduct", !.item = item, !.take = quantity, !.added = m,
                    !.takes = takes, !.factor = product[item].factor,
                    !.recipe = RecipeToFreeze(item),
                    !.force = force, !.locked = {}, !.wrote = wrote]
<1>1. /\ trade[t].step = "return" /\ ToLock(t) = {}
      /\ UNCHANGED <<product, onHand, booked, line, out, forced, catalogueEdits>>
      /\ trade' = [trade EXCEPT ![t] = r]
      /\ \/ m = l /\ trade[t].back = 0 /\ item = line[l].item
         \/ line[m].state = "none" /\ ~Busy(m)
  BY DEF StartAddition, Unwritten
<1>2. /\ RecipeToFreeze(item) \in Frozen /\ product[item].factor \in Nat \ {0}
      /\ quantity \in Nat
  BY FreezesKnown, InventoryAssumption DEF StockInv
<1>3. takes \in Recipe /\ wrote \in [Products -> Int]
  BY <1>2, UnitsAreNat, WrittenIsInt DEF StockInv
<1>4. trade'[t] = r /\ trade[t] \in Trade
  BY <1>1, TradeFields DEF StockInv, InventoryTypeOK
<1>5. /\ takes = UnitsOf(item, quantity, product[item].factor, RecipeToFreeze(item))'
      /\ RecipeToFreeze(item) = RecipeToFreeze(item)' /\ product' = product
  BY <1>1, UnitsUntouched
<1>6. \A p \in Products : /\ wrote[p] = trade[t].wrote[p] + trade[t].gives[p]
                          /\ trade[t].gives[p] > 0 => p \in trade[t].locked
  <2> SUFFICES ASSUME NEW p \in Products
               PROVE  /\ wrote[p] = trade[t].wrote[p] + trade[t].gives[p]
                      /\ trade[t].gives[p] > 0 => p \in trade[t].locked
    OBVIOUS
  <2>1. Sign(t) = 1 /\ UnitsOfStep(t) = trade[t].gives
    BY <1>1 DEF Sign, UnitsOfStep
  <2>2. trade[t].gives[p] \in Nat /\ trade[t].wrote[p] \in Int
    BY TradeFields DEF StockInv, Recipe
  <2> QED
    BY <1>1, <2>1, <2>2 DEF Written, ToLock
<1> HIDE DEF takes, wrote
<1>7. r \in Trade
  BY <1>2, <1>3, <1>4 DEF Trade, Frozen
<1>8. /\ r.step = "deduct" /\ r.line = l /\ r.added = m /\ r.back = trade[t].back
      /\ r.take = quantity /\ r.item = item /\ r.gives = trade[t].gives /\ r.takes = takes
      /\ r.factor = product[item].factor /\ r.recipe = RecipeToFreeze(item)
      /\ r.wrote = wrote /\ r.locked = {} /\ r.held = trade[t].held
  BY <1>4 DEF Trade
<1> HIDE DEF r
<1>9. ReadBy(t)'
  <2>1. ReadBy(t)
    BY DEF StockInv, StockRead
  <2>2. \A p \in Products : trade[t].gives[p] \in Nat /\ onHand[p] \in Int
    BY TradeFields DEF StockInv, InventoryTypeOK, Recipe
  <2> QED
    BY <1>1, <1>4, <1>6, <1>8, <2>1, <2>2 DEF ReadBy
<1>10. Follows(t)'
  <2>1. /\ GivesFollow(t) /\ line[l].state = "live" /\ line' = line /\ m # NoLine
    BY <1>1 DEF StockInv, TradesFollow, Follows, GivesFollow, NoLine, Lines
  <2>2. GivesFollow(t)'
    BY <1>1, <1>4, <1>8, <2>1, UnitsUntouched DEF GivesFollow
  <2>3. AdditionFollows(t)'
    <3>1. /\ trade'[t].step = "deduct" /\ trade'[t].item \in Products
          /\ m = l => trade'[t].back = 0 /\ trade'[t].item = line'[l].item
          /\ m # l => line'[m].state = "none"
      BY <1>1, <1>4, <1>8, <2>1
    <3>2. /\ trade'[t].takes = UnitsOf(trade[t].item, trade[t].take, trade[t].factor,
                                       trade[t].recipe)'
          /\ trade'[t].recipe = RecipeToFreeze(trade[t].item)'
      BY <1>4, <1>5, <1>8
    <3> QED
      BY <1>4, <1>8, <3>1, <3>2 DEF AdditionFollows
  <2> QED
    BY <1>4, <1>8, <2>1, <2>2, <2>3 DEF Follows
<1>11. /\ \A u \in Transactions \ {t} : r.held \cap trade[u].held = {}
       /\ \A u \in Transactions \ {t}, k \in Lines :
            r.line = k \/ r.added = k => ~Touches(u, k)
  BY <1>1, <1>8 DEF StockInv, RowsApart, LinesApart, Touches, Busy
<1> QED
  BY <1>1, <1>7, <1>9, <1>10, <1>11, TradeStep
LEMMA WriteOrderKeeps ==
    ASSUME StockInv, NEW l \in Lines, NEW item \in Products, NEW quantity \in 1..MaxQuantity,
           WriteOrder(l, item, quantity)
    PROVE  StockInv'
<1> DEFINE row == [state |-> "order", item |-> item, quantity |-> quantity,
                   factor |-> product[item].factor, recipe |-> RecipeToFreeze(item),
                   shaken |-> FALSE]
<1>1. /\ line[l].state = "none" /\ ~Busy(l)
      /\ line' = [line EXCEPT ![l] = row]
      /\ UNCHANGED <<product, onHand, booked, out, trade, forced, catalogueEdits>>
  BY DEF WriteOrder, Unwritten
<1>2. quantity \in Nat
  BY InventoryAssumption
<1>3. row \in LineRow
  BY <1>2, FreezesKnown DEF LineRow, Frozen, StockInv
<1>4. line'[l] = row /\ \A k \in Lines \ {l} : line'[k] = line[k]
  BY <1>1 DEF StockInv, InventoryTypeOK
<1>5. /\ \A i, q, f, recipe : UnitsOf(i, q, f, recipe)' = UnitsOf(i, q, f, recipe)
      /\ \A i : RecipeToFreeze(i)' = RecipeToFreeze(i)
  BY <1>1 DEF UnitsOf, IsCombo, Target, RecipeUsed, RecipeToFreeze
<1>6. row.state = "order" /\ row.item = item
  OBVIOUS
<1> HIDE DEF row
<1>7. \A n : \A k \in Lines \ {l} : UnitsOfLine(k, n)' = UnitsOfLine(k, n)
  BY <1>4, <1>5 DEF UnitsOfLine
<1>8. InventoryTypeOK'
  BY <1>1, <1>3 DEF StockInv, InventoryTypeOK
<1>9. ComponentsAreBase' /\ RowsApart' /\ LinesApart' /\ StockRead' /\ StockIsItsMovements'
  BY <1>1 DEF StockInv, ComponentsAreBase, IsCombo, RowsApart, LinesApart, Touches,
              StockRead, ReadBy, StockIsItsMovements
<1>10. LinesKnown'
  BY <1>4, <1>6 DEF StockInv, LinesKnown
<1>11. TradesFollow'
  <2> SUFFICES ASSUME NEW u \in Transactions
               PROVE  Follows(u)'
    BY DEF TradesFollow
  <2>1. trade'[u] = trade[u] /\ trade[u].line # l /\ trade[u].added # l
    BY <1>1 DEF Busy
  <2>2. Follows(u) /\ trade[u].added \in Lines \cup {NoLine}
    BY DEF StockInv, TradesFollow, InventoryTypeOK, Trade
  <2>3. GivesFollow(u) => GivesFollow(u)'
    BY <1>4, <1>7, <2>1 DEF GivesFollow
  <2>4. GivesFollow(u) /\ DeliveryFollows(u) => DeliveryFollows(u)'
    BY <1>4, <1>7, <2>1 DEF DeliveryFollows, GivesFollow
  <2>5. GivesFollow(u) /\ trade[u].added # NoLine /\ AdditionFollows(u) => AdditionFollows(u)'
    BY <1>4, <1>5, <2>1, <2>2 DEF AdditionFollows, GivesFollow
  <2> QED
    BY <2>1, <2>2, <2>3, <2>4, <2>5 DEF Follows
<1>12. ReturnsWhatItTook'
  <2>1. out[l] = Empty
    BY <1>1 DEF StockInv, LinesKnown, NoLineYet, ReturnsWhatItTook, Delivered
  <2> QED
    BY <1>1, <1>4, <1>6, <1>7, <2>1 DEF StockInv, ReturnsWhatItTook, Delivered
<1> QED
  BY <1>8, <1>9, <1>10, <1>11, <1>12 DEF StockInv

LEMMA SetStockKeeps ==
    ASSUME StockInv, NEW p \in Products, NEW n \in Stocks, SetStock(p, n)
    PROVE  StockInv'
<1>1. /\ \A t \in Transactions : p \notin trade[t].held
      /\ onHand' = [onHand EXCEPT ![p] = n] /\ booked' = [booked EXCEPT ![p] = n]
      /\ catalogueEdits' = catalogueEdits + 1
      /\ UNCHANGED <<product, line, out, trade, forced>>
  BY DEF SetStock
<1>2. n \in Nat
  BY InventoryAssumption
<1>3. InventoryTypeOK'
  BY <1>1, <1>2 DEF StockInv, InventoryTypeOK
<1>4. ComponentsAreBase' /\ RowsApart' /\ LinesApart' /\ LinesKnown'
  BY <1>1 DEF StockInv, ComponentsAreBase, IsCombo, RowsApart, LinesApart, Touches, LinesKnown
<1>5. StockRead'
  BY <1>1 DEF StockInv, InventoryTypeOK, StockRead, ReadBy
<1>6. StockIsItsMovements'
  BY <1>1, <1>2 DEF StockInv, InventoryTypeOK, StockIsItsMovements
<1>7. TradesFollow'
  BY <1>1, UnitsUntouched DEF StockInv, TradesFollow, Follows, GivesFollow, DeliveryFollows,
                              AdditionFollows
<1>8. ReturnsWhatItTook'
  BY <1>1, UnitsUntouched DEF StockInv, ReturnsWhatItTook, Delivered
<1> QED
  BY <1>3, <1>4, <1>5, <1>6, <1>7, <1>8 DEF StockInv
\* What a commit writes is the stock, what it gave back and less what it took.
LEMMA CommitStock ==
    ASSUME StockInv, NEW t \in Transactions, Commit(t), NEW p \in Products
    PROVE  /\ onHand'[p] = onHand[p] + trade[t].gives[p] - trade[t].takes[p]
           /\ p \notin trade[t].held => onHand'[p] = onHand[p]
           /\ trade[t].gives[p] = 0 \/ trade[t].takes[p] = 0 \/ p \in trade[t].held
           /\ StrictStock /\ ~forced' /\ onHand[p] >= 0 => onHand'[p] >= 0
<1>1. /\ trade[t].step # "idle" /\ ToLock(t) = {} /\ ~Short(t)
      /\ onHand'[p] = IF p \in trade[t].held THEN Written(t)[p] ELSE onHand[p]
      /\ forced' = (forced \/ trade[t].force)
  BY DEF Commit
<1>2. ReadBy(t)
  BY DEF StockInv, StockRead
<1>3. /\ onHand[p] \in Int /\ trade[t].wrote[p] \in Int
      /\ trade[t].gives[p] \in Nat /\ trade[t].takes[p] \in Nat
      /\ trade[t].step \in {"return", "deduct"} /\ trade[t].force \in BOOLEAN
  BY <1>1, TradeFields DEF StockInv, InventoryTypeOK, Trade, Recipe
<1>4. UnitsOfStep(t)[p] > 0 => p \in trade[t].held
  BY <1>1, <1>2 DEF ToLock, ReadBy
<1>5. CASE trade[t].step = "return"
  <2>1. /\ UnitsOfStep(t) = trade[t].gives /\ Sign(t) = 1 /\ trade[t].takes[p] = 0
    BY <1>2, <1>5 DEF UnitsOfStep, Sign, ReadBy, Empty
  <2>2. Written(t)[p] = trade[t].wrote[p] + trade[t].gives[p]
    BY <1>3, <2>1 DEF Written
  <2>3. p \in trade[t].held => trade[t].wrote[p] = onHand[p]
    BY <1>2, <1>3, <1>5 DEF ReadBy
  <2> QED
    BY <1>1, <1>3, <1>4, <2>1, <2>2, <2>3
<1>6. CASE trade[t].step = "deduct"
  <2>1. /\ UnitsOfStep(t) = trade[t].takes /\ Sign(t) = -1
    BY <1>6 DEF UnitsOfStep, Sign
  <2>2. Written(t)[p] = trade[t].wrote[p] - trade[t].takes[p]
    BY <1>3, <2>1 DEF Written
  <2>3. /\ p \in trade[t].held => trade[t].wrote[p] = onHand[p] + trade[t].gives[p]
        /\ trade[t].gives[p] > 0 => p \in trade[t].held
    BY <1>2, <1>6 DEF ReadBy
  <2>4. StrictStock /\ ~forced' /\ trade[t].takes[p] > 0 => Written(t)[p] >= 0
    <3>1. SUFFICES ASSUME StrictStock, ~forced', trade[t].takes[p] > 0
                   PROVE  ~(Written(t)[p] < 0)
      BY <1>3, <2>2
    <3>2. ~trade[t].force
      BY <1>1, <1>3, <3>1
    <3> QED
      BY <1>1, <1>6, <3>1, <3>2 DEF Short
  <2> QED
    BY <1>1, <1>3, <1>4, <2>1, <2>2, <2>3, <2>4
<1> QED
  BY <1>3, <1>5, <1>6

\* A recipe that is frozen is the one used.
LEMMA FrozenIsUsed ==
    ASSUME NEW item \in Products, NEW recipe \in Recipe
    PROVE  RecipeUsed(item, recipe) = recipe
<1>1. DOMAIN recipe = Products /\ DOMAIN NotFrozen = {}
  BY DEF Recipe, NotFrozen
<1>2. recipe # NotFrozen
  BY <1>1
<1> QED
  BY <1>2 DEF RecipeUsed

LEMMA SameUnits ==
    ASSUME NEW item \in Products, NEW quantity, NEW factor, NEW a, NEW b,
           IsCombo(item) => RecipeUsed(item, a) = RecipeUsed(item, b)
    PROVE  UnitsOf(item, quantity, factor, a) = UnitsOf(item, quantity, factor, b)
BY DEF UnitsOf

\* The lines that a commit writes, and those it leaves.
CommitsLines(t) ==
    LET k == trade[t].line
        m == trade[t].added
    IN
    /\ k \in Lines /\ GivesFollow(t)
    /\ m = NoLine \/ (m \in Lines /\ AdditionFollows(t))
    /\ \A l \in Lines \ {k, m} : line'[l] = line[l] /\ out'[l] = out[l]
    /\ line'[k].state = "live" /\ line'[k].item = line[k].item
    /\ line'[k].factor = line[k].factor /\ line'[k].recipe = line[k].recipe
    /\ m # k => /\ line'[k].quantity = line[k].quantity - trade[t].back
                /\ line'[k].shaken = line[k].shaken
    /\ m = k => /\ line'[k].quantity = line[k].quantity + trade[t].take
                /\ ~line'[k].shaken =>
                     /\ ~line[k].shaken /\ ~trade[t].shaken
                     /\ trade[t].factor = line[k].factor
                     /\ IsCombo(trade[t].item) =>
                          trade[t].recipe = RecipeUsed(trade[t].item, line[k].recipe)
    /\ m \in Lines \ {k} => /\ line'[m].state = "live" /\ line'[m].item = trade[t].item
                            /\ line'[m].quantity = trade[t].take
                            /\ line'[m].factor = trade[t].factor
                            /\ line'[m].recipe = NotFrozen
                            /\ line'[m].shaken = trade[t].shaken

LEMMA CommitLines ==
    ASSUME StockInv, NEW t \in Transactions, Commit(t)
    PROVE  CommitsLines(t)
<1>0. PICK k, m : k = trade[t].line /\ m = trade[t].added
  OBVIOUS
<1>1. /\ line' = LinesAfter(t) /\ out' = OutAfter(t) /\ trade[t].step # "idle"
  BY DEF Commit
<1>2. /\ k \in Lines /\ GivesFollow(t) /\ m \in Lines \cup {NoLine}
      /\ m # NoLine => AdditionFollows(t)
      /\ line[k] \in LineRow /\ trade[t].shaken \in BOOLEAN
  BY <1>0, <1>1 DEF StockInv, TradesFollow, Follows, GivesFollow, InventoryTypeOK, Trade
<1>3. \A l \in Lines \ {k, m} : line'[l] = line[l]
  BY <1>0, <1>1 DEF LinesAfter
<1>4. ASSUME NEW l \in Lines \ {k, m}
      PROVE  out'[l] = out[l]
  <2>1. ASSUME NEW p \in Products
        PROVE  out'[l][p] = out[l][p]
    <3>1. out[l][p] \in Int
      BY DEF StockInv, InventoryTypeOK
    <3> QED
      BY <1>0, <1>1, <3>1 DEF OutAfter
  <2>2. out[l] \in [Products -> Int] /\ out'[l] = [p \in Products |-> out'[l][p]]
    BY <1>1 DEF StockInv, InventoryTypeOK, OutAfter
  <2> QED
    BY <2>1, <2>2
<1>5. line'[k] = LineAfter(t)
  BY <1>0, <1>1, <1>2 DEF LinesAfter
<1>6. m \in Lines \ {k} =>
        /\ line'[m].state = "live" /\ line'[m].item = trade[t].item
        /\ line'[m].quantity = trade[t].take /\ line'[m].factor = trade[t].factor
        /\ line'[m].recipe = NotFrozen /\ line'[m].shaken = trade[t].shaken
  <2>1. m \in Lines \ {k} => line'[m] = LineAdded(t)
    BY <1>0, <1>1 DEF LinesAfter
  <2> QED
    BY <2>1 DEF LineAdded
<1>7. /\ line'[k].state = "live" /\ line'[k].item = line[k].item
      /\ line'[k].factor = line[k].factor /\ line'[k].recipe = line[k].recipe
      /\ line'[k].quantity = IF m = k THEN line[k].quantity + trade[t].take
                             ELSE line[k].quantity - trade[t].back
      /\ line'[k].shaken = (line[k].shaken \/ (m = k /\ (trade[t].shaken \/ Mixed(t))))
  BY <1>0, <1>2, <1>5 DEF LineAfter, LineRow
<1>8. m # k => line'[k].shaken = line[k].shaken
  BY <1>2, <1>7 DEF LineRow
<1>9. m = k /\ ~line'[k].shaken =>
        /\ ~line[k].shaken /\ ~trade[t].shaken
        /\ trade[t].factor = line[k].factor
        /\ IsCombo(trade[t].item) =>
              trade[t].recipe = RecipeUsed(trade[t].item, line[k].recipe)
  BY <1>0, <1>7 DEF Mixed
<1> QED
  BY <1>0, <1>2, <1>3, <1>4, <1>6, <1>7, <1>8, <1>9 DEF CommitsLines
\* What a line has out after a commit.
LEMMA CommitOut ==
    ASSUME StockInv, NEW t \in Transactions, Commit(t), NEW l \in Lines, NEW p \in Products,
           NEW k, k = trade[t].line, NEW m, m = trade[t].added
    PROVE  /\ out[l][p] \in Int /\ trade[t].gives[p] \in Nat /\ trade[t].takes[p] \in Nat
           /\ l = k /\ (m = NoLine \/ m = k) =>
                out'[l][p] = out[l][p] - trade[t].gives[p] + trade[t].takes[p]
           /\ l = k /\ m # NoLine /\ m # k => out'[l][p] = out[l][p] - trade[t].gives[p]
           /\ l # k /\ l = m => out'[l][p] = out[l][p] + trade[t].takes[p]
<1>1. out[l][p] \in Int /\ trade[t].gives[p] \in Nat /\ trade[t].takes[p] \in Nat
  BY TradeFields DEF StockInv, InventoryTypeOK, Recipe
<1>2. /\ out' = OutAfter(t)
      /\ l # NoLine
  BY DEF Commit, Lines, NoLine
<1> QED
  BY <1>1, <1>2 DEF OutAfter

\* The line of a transaction, and the line it adds, are what they took.
LEMMA CommitReturns ==
    ASSUME StockInv, NEW t \in Transactions, Commit(t), InventoryTypeOK'
    PROVE  ReturnsWhatItTook'
<1>0. CommitsLines(t)
  BY CommitLines
<1>1. PICK k, m : k = trade[t].line /\ m = trade[t].added
  OBVIOUS
<1>2. /\ k \in Lines /\ m \in Lines \cup {NoLine} /\ NoLine \notin Lines
      /\ GivesFollow(t) /\ Follows(t) /\ ReadBy(t) /\ trade[t].step # "idle"
      /\ m # NoLine => AdditionFollows(t)
  BY <1>0, <1>1 DEF CommitsLines, Commit, NoLine, Lines, StockInv, TradesFollow, StockRead
<1>3. /\ line[k].item \in Products /\ line[k].quantity \in Nat /\ line[k].factor \in Nat
      /\ line[k].recipe \in Frozen /\ trade[t].back \in Nat /\ trade[t].take \in Nat
      /\ trade[t].back <= line[k].quantity /\ trade[t].factor \in Nat
      /\ trade[t].recipe \in Frozen
      /\ trade[t].shaken \in BOOLEAN /\ InventoryTypeOK
  <2>1. line[k].state # "none" /\ trade[t].back <= line[k].quantity
    BY <1>1, <1>2 DEF GivesFollow
  <2> QED
    BY <1>2, <2>1, ItemKnown DEF StockInv, InventoryTypeOK, Trade, Frozen
<1>4. /\ product' = product /\ \A i, q, f, recipe : UnitsOf(i, q, f, recipe)' = UnitsOf(i, q, f, recipe)
  BY DEF Commit, UnitsOf, IsCombo, Target, RecipeUsed
<1>5. ASSUME NEW l \in Lines \ {k, m}
      PROVE  ~line'[l].shaken => out'[l] = IF Delivered(l)' THEN UnitsOfLine(l, line[l].quantity)'
                                           ELSE Empty
  <2>1. line'[l] = line[l] /\ out'[l] = out[l]
    BY <1>0, <1>1 DEF CommitsLines
  <2>2. UnitsOfLine(l, line[l].quantity)' = UnitsOfLine(l, line[l].quantity)
    BY <1>4, <2>1 DEF UnitsOfLine
  <2> QED
    BY <2>1, <2>2 DEF StockInv, ReturnsWhatItTook, Delivered
<1>6. ASSUME ~line'[k].shaken
      PROVE  out'[k] = UnitsOfLine(k, line[k].quantity)' /\ Delivered(k)'
  <2>0. PICK i \in Products, f \in Nat, c \in Frozen :
            i = line[k].item /\ f = line[k].factor /\ c = line[k].recipe
    BY <1>3
  <2> DEFINE U(q) == UnitsOf(i, q, f, c)
  <2>1. /\ line'[k].state = "live" /\ line'[k].item = line[k].item
        /\ line'[k].factor = line[k].factor /\ line'[k].recipe = line[k].recipe
        /\ m # k => /\ line'[k].quantity = line[k].quantity - trade[t].back
                    /\ line'[k].shaken = line[k].shaken
        /\ m = k => /\ line'[k].quantity = line[k].quantity + trade[t].take
                    /\ ~line[k].shaken /\ ~trade[t].shaken
                    /\ trade[t].factor = line[k].factor
                    /\ IsCombo(trade[t].item) =>
                         trade[t].recipe = RecipeUsed(trade[t].item, line[k].recipe)
    BY <1>0, <1>1, <1>6 DEF CommitsLines
  <2>2. UnitsOfLine(k, line[k].quantity)' = U(line'[k].quantity)
    BY <1>4, <2>0, <2>1 DEF UnitsOfLine
  <2>3. /\ ~line[k].shaken
        /\ trade[t].gives = U(trade[t].back)
        /\ out[k] = IF line[k].state = "live" THEN U(line[k].quantity) ELSE Empty
    <3>1. ~line[k].shaken
      BY <1>6, <2>1
    <3> QED
      BY <1>1, <1>2, <2>0, <3>1 DEF GivesFollow, UnitsOfLine, StockInv, ReturnsWhatItTook, Delivered
  <2>4. \A a, b \in Nat, p \in Products : U(a + b)[p] = U(a)[p] + U(b)[p]
    BY <1>3, UnitsAdd
  <2>5. \A a \in Nat : U(a) \in Recipe
    BY <1>3, UnitsAreNat
  <2>6. U(0) = Empty
    BY <1>3, UnitsOfNone
  <2>7. m = k => trade[t].takes = U(trade[t].take)
    <3>1. SUFFICES ASSUME m = k
                   PROVE  trade[t].takes = U(trade[t].take)
      OBVIOUS
    <3>2. /\ trade[t].item = line[k].item /\ ~trade[t].shaken
          /\ trade[t].factor = line[k].factor
          /\ trade[t].takes = UnitsOf(trade[t].item, trade[t].take, trade[t].factor,
                                      trade[t].recipe)
      BY <1>1, <1>2, <2>1, <3>1 DEF AdditionFollows
    <3>3. PICK d : d = trade[t].recipe
      OBVIOUS
    <3>4. RecipeUsed(i, c) \in Recipe
      BY <1>3, RecipesUsed
    <3>5. IsCombo(i) => RecipeUsed(i, d) = RecipeUsed(i, c)
      BY <2>0, <2>1, <3>1, <3>2, <3>3, <3>4, FrozenIsUsed
    <3>6. \A q : UnitsOf(i, q, f, d) = UnitsOf(i, q, f, c)
      BY <3>5, SameUnits
    <3> QED
      BY <2>0, <3>2, <3>3, <3>6
  <2> HIDE DEF U
  <2>8. line'[k].quantity \in Nat
    BY <1>3, <2>1
  <2>9. ASSUME NEW p \in Products
        PROVE  out'[k][p] = U(line'[k].quantity)[p]
    <3>1. /\ out[k][p] \in Int /\ trade[t].gives[p] \in Nat /\ trade[t].takes[p] \in Nat
          /\ m = NoLine \/ m = k =>
                out'[k][p] = out[k][p] - trade[t].gives[p] + trade[t].takes[p]
          /\ m # NoLine /\ m # k => out'[k][p] = out[k][p] - trade[t].gives[p]
      BY <1>1, <1>2, CommitOut
    <3>2. CASE m = NoLine /\ trade[t].step = "deduct"
      <4>1. /\ line[k].state = "order" /\ trade[t].back = 0
            /\ trade[t].takes = U(line[k].quantity)
        BY <1>1, <1>2, <2>0, <2>3, <3>2 DEF Follows, DeliveryFollows, UnitsOfLine, U
      <4>2. out[k] = Empty /\ trade[t].gives = Empty /\ Empty[p] = 0
            /\ line'[k].quantity = line[k].quantity
        BY <1>2, <1>3, <2>1, <2>3, <2>6, <3>2, <4>1 DEF Empty
      <4> QED
        BY <3>1, <3>2, <4>1, <4>2
    <3>3. CASE m = k
      <4>1. /\ line[k].state = "live" /\ trade[t].back = 0
        BY <1>1, <1>2, <3>3 DEF AdditionFollows, GivesFollow
      <4>2. out[k] = U(line[k].quantity) /\ trade[t].gives = Empty /\ Empty[p] = 0
        BY <2>3, <2>6, <4>1 DEF Empty
      <4>3. U(line'[k].quantity)[p] = U(line[k].quantity)[p] + trade[t].takes[p]
        BY <1>3, <2>1, <2>4, <2>7, <3>3
      <4> QED
        BY <3>1, <3>3, <4>2, <4>3
    <3>4. CASE m # k /\ ~(m = NoLine /\ trade[t].step = "deduct")
      <4>1. line[k].state = "live"
        <5>1. trade[t].step \in {"return", "deduct"}
          BY <1>2 DEF StockInv, InventoryTypeOK, Trade
        <5> QED
          BY <1>1, <1>2, <3>4, <5>1 DEF GivesFollow
      <4>2. out[k] = U(line[k].quantity)
        BY <2>3, <4>1
      <4>3. PICK rest \in Nat : rest = line'[k].quantity /\ line[k].quantity = rest + trade[t].back
        BY <1>3, <2>1, <2>8, <3>4
      <4>4. out[k][p] = U(rest)[p] + trade[t].gives[p] /\ U(rest)[p] \in Nat
        <5>1. PICK b \in Nat : b = trade[t].back
          BY <1>3
        <5>2. U(rest + b)[p] = U(rest)[p] + U(b)[p]
          BY <2>4, <5>1
        <5>3. U(rest) \in Recipe
          BY <2>5
        <5>4. U(rest)[p] \in Nat
          BY <5>3 DEF Recipe
        <5>5. out[k] = U(rest + b) /\ trade[t].gives = U(b)
          BY <2>3, <4>2, <4>3, <5>1
        <5> QED
          BY <5>2, <5>4, <5>5
      <4>5. m = NoLine => trade[t].takes[p] = 0
        <5>1. m = NoLine => trade[t].step = "return"
          BY <1>2, <3>4 DEF StockInv, InventoryTypeOK, Trade
        <5> QED
          BY <1>2, <5>1 DEF ReadBy, Empty
      <4> QED
        BY <3>1, <3>4, <4>3, <4>4, <4>5
    <3> QED
      BY <3>2, <3>3, <3>4
  <2>10. out'[k] \in [Products -> Int] /\ U(line'[k].quantity) \in [Products -> Nat]
    BY <1>2, <2>5, <2>8 DEF InventoryTypeOK, Recipe
  <2>11. out'[k] = U(line'[k].quantity)
    BY <2>9, <2>10
  <2> QED
    BY <2>1, <2>2, <2>11 DEF Delivered
<1>7. ASSUME m \in Lines \ {k}, ~line'[m].shaken
      PROVE  out'[m] = UnitsOfLine(m, line[m].quantity)' /\ Delivered(m)'
  <2>1. /\ line'[m].state = "live" /\ line'[m].item = trade[t].item
        /\ line'[m].quantity = trade[t].take /\ line'[m].factor = trade[t].factor
        /\ line'[m].recipe = NotFrozen /\ ~trade[t].shaken
    BY <1>0, <1>1, <1>7 DEF CommitsLines
  <2>2. /\ trade[t].item \in Products /\ line[m].state = "none"
        /\ trade[t].takes = UnitsOf(trade[t].item, trade[t].take, trade[t].factor,
                                    trade[t].recipe)
        /\ trade[t].recipe = RecipeToFreeze(trade[t].item)
    BY <1>1, <1>2, <1>7, <2>1 DEF AdditionFollows
  <2>3. PICK i \in Products : i = trade[t].item
    BY <2>2
  <2>4. IsCombo(i) => RecipeUsed(i, trade[t].recipe) = RecipeUsed(i, NotFrozen)
    <3>1. product[i].recipe \in Recipe
      BY <1>3, RecipesUsed DEF Frozen
    <3> QED
      BY <2>2, <2>3, <3>1, FrozenIsUsed DEF RecipeToFreeze, RecipeUsed
  <2>5. UnitsOfLine(m, line[m].quantity)' = trade[t].takes
    BY <1>4, <2>1, <2>2, <2>3, <2>4, SameUnits DEF UnitsOfLine
  <2>6. out[m] = Empty
    BY <1>7, <2>2 DEF StockInv, LinesKnown, NoLineYet, ReturnsWhatItTook, Delivered
  <2>7. ASSUME NEW p \in Products
        PROVE  out'[m][p] = trade[t].takes[p]
    BY <1>1, <1>7, <2>6, CommitOut DEF Empty
  <2>8. out'[m] \in [Products -> Int] /\ trade[t].takes \in [Products -> Nat]
    BY <1>7, TradeFields DEF StockInv, InventoryTypeOK, Recipe
  <2>9. out'[m] = trade[t].takes
    BY <2>7, <2>8
  <2> QED
    BY <2>1, <2>5, <2>9 DEF Delivered
<1> QED
  BY <1>2, <1>5, <1>6, <1>7 DEF ReturnsWhatItTook
LEMMA CommitKeeps ==
    ASSUME StockInv, NEW t \in Transactions, Commit(t)
    PROVE  StockInv'
<1>1. /\ trade[t].step # "idle"
      /\ onHand' \in [Products -> Int] /\ booked' \in [Products -> Int]
      /\ \A p \in Products : onHand'[p] = booked'[p]
      /\ line' = LinesAfter(t) /\ out' = OutAfter(t)
      /\ trade' = [trade EXCEPT ![t] = NoTrade]
      /\ forced' \in BOOLEAN /\ UNCHANGED <<product, catalogueEdits>>
  <2>1. ASSUME NEW p \in Products
        PROVE  /\ onHand'[p] \in Int /\ booked'[p] \in Int /\ onHand'[p] = booked'[p]
    <3>1. /\ onHand[p] \in Int /\ booked[p] = onHand[p]
          /\ trade[t].gives[p] \in Nat /\ trade[t].takes[p] \in Nat
      BY TradeFields DEF StockInv, InventoryTypeOK, StockIsItsMovements, Recipe
    <3>2. booked'[p] = booked[p] + trade[t].gives[p] - trade[t].takes[p]
      BY DEF Commit
    <3> QED
      BY <3>1, <3>2, CommitStock
  <2>2. /\ onHand' = [p \in Products |-> onHand'[p]]
        /\ booked' = [p \in Products |-> booked'[p]]
    BY DEF Commit
  <2>3. onHand' \in [Products -> Int] /\ booked' \in [Products -> Int]
    BY <2>1, <2>2
  <2>4. forced' \in BOOLEAN
    BY TradeFields DEF Commit, StockInv, InventoryTypeOK, Trade
  <2> QED
    BY <2>1, <2>3, <2>4 DEF Commit
<1>2. InventoryTypeOK'
  <2>1. /\ line' \in [Lines -> LineRow] /\ out' \in [Lines -> [Products -> Int]]
    BY <1>1, LinesAfterTyped
  <2>2. trade' \in [Transactions -> Trade]
    BY <1>1, NoTradeIsOne DEF StockInv, InventoryTypeOK
  <2> QED
    BY <1>1, <2>1, <2>2 DEF StockInv, InventoryTypeOK
<1>3. ReturnsWhatItTook'
  BY <1>2, CommitReturns
<1>4. trade'[t] = NoTrade /\ \A u \in Transactions \ {t} : trade'[u] = trade[u]
  BY <1>1 DEF StockInv, InventoryTypeOK
<1>5. ComponentsAreBase'
  BY <1>1 DEF StockInv, ComponentsAreBase, IsCombo
<1>6. RowsApart' /\ LinesApart'
  <2>1. NoTrade.held = {} /\ NoTrade.line = 0 /\ NoTrade.added = 0 /\ \A l \in Lines : l # 0
    BY DEF NoTrade, NoLine, Lines
  <2> QED
    BY <1>4, <2>1 DEF StockInv, RowsApart, LinesApart, Touches
<1>7. StockRead'
  <2> SUFFICES ASSUME NEW u \in Transactions
               PROVE  ReadBy(u)'
    BY DEF StockRead
  <2>1. CASE u = t
    BY <1>4, <2>1 DEF ReadBy, NoTrade
  <2>2. CASE u # t
    <3>1. trade'[u] = trade[u] /\ ReadBy(u)
      BY <1>4, <2>2 DEF StockInv, StockRead
    <3>2. \A p \in Products : p \in trade[u].held => onHand'[p] = onHand[p]
      BY <2>2, CommitStock DEF StockInv, RowsApart
    <3> QED
      BY <3>1, <3>2 DEF ReadBy
  <2> QED
    BY <2>1, <2>2
<1>8. StockIsItsMovements'
  <2>1. ASSUME NEW p \in Products, StrictStock, ~forced'
        PROVE  onHand'[p] >= 0
    <3>1. ~forced
      BY <2>1 DEF Commit, StockInv, InventoryTypeOK
    <3>2. onHand[p] >= 0
      BY <2>1, <3>1 DEF StockInv, StockIsItsMovements
    <3> QED
      BY <2>1, <3>2, CommitStock
  <2> QED
    BY <1>1, <2>1 DEF StockIsItsMovements
<1>9. CommitsLines(t)
  BY CommitLines
<1>10. PICK k, m : k = trade[t].line /\ m = trade[t].added
  OBVIOUS
<1>11. LinesKnown'
  <2> SUFFICES ASSUME NEW l \in Lines
               PROVE  /\ line'[l].state = "none" => line'[l] = NoLineYet
                      /\ line'[l].state # "none" => line'[l].item \in Products
    BY DEF LinesKnown
  <2>1. CASE l \notin {k, m}
    BY <1>9, <1>10, <2>1 DEF CommitsLines, StockInv, LinesKnown
  <2>2. CASE l = k
    BY <1>9, <1>10, <2>2 DEF CommitsLines, GivesFollow, StockInv, LinesKnown
  <2>3. CASE l = m /\ m # k
    BY <1>9, <1>10, <2>3 DEF CommitsLines, AdditionFollows, NoLine, Lines
  <2> QED
    BY <2>1, <2>2, <2>3
<1>12. TradesFollow'
  <2> SUFFICES ASSUME NEW u \in Transactions
               PROVE  Follows(u)'
    BY DEF TradesFollow
  <2>1. CASE u = t
    BY <1>4, <2>1 DEF Follows, NoTrade
  <2>2. CASE u # t
    <3>1. /\ trade'[u] = trade[u] /\ Follows(u)
          /\ trade[u].added \in Lines \cup {NoLine} /\ trade[u].line \in Lines \cup {NoLine}
      BY <1>4, <2>2 DEF StockInv, TradesFollow, InventoryTypeOK, Trade
    <3>2. \A l \in Lines : Touches(u, l) => l \notin {k, m}
      BY <1>10, <2>2 DEF StockInv, LinesApart, Touches
    <3>3. \A l \in Lines : Touches(u, l) => line'[l] = line[l]
      BY <1>9, <1>10, <3>2 DEF CommitsLines
    <3>4. /\ \A i, q, f, recipe : UnitsOf(i, q, f, recipe)' = UnitsOf(i, q, f, recipe)
          /\ \A i : RecipeToFreeze(i)' = RecipeToFreeze(i)
      BY <1>1 DEF UnitsOf, IsCombo, Target, RecipeUsed, RecipeToFreeze
    <3>5. \A n : \A l \in Lines : Touches(u, l) => UnitsOfLine(l, n)' = UnitsOfLine(l, n)
      BY <3>3, <3>4 DEF UnitsOfLine
    <3>6. /\ trade[u].line \in Lines => Touches(u, trade[u].line)
          /\ trade[u].added \in Lines => Touches(u, trade[u].added)
      BY DEF Touches
    <3>7. GivesFollow(u) => GivesFollow(u)'
      BY <3>1, <3>3, <3>5, <3>6 DEF GivesFollow
    <3>8. GivesFollow(u) /\ DeliveryFollows(u) => DeliveryFollows(u)'
      BY <3>1, <3>3, <3>5, <3>6 DEF GivesFollow, DeliveryFollows
    <3>9. GivesFollow(u) /\ trade[u].added # NoLine /\ AdditionFollows(u) => AdditionFollows(u)'
      BY <3>1, <3>3, <3>4, <3>6 DEF GivesFollow, AdditionFollows
    <3> QED
      BY <3>1, <3>7, <3>8, <3>9 DEF Follows
  <2> QED
    BY <2>1, <2>2
<1> QED
  BY <1>2, <1>3, <1>5, <1>6, <1>7, <1>8, <1>11, <1>12 DEF StockInv
-----------------------------------------------------------------------------
(* Edits of the catalogue.                                                 *)

\* An edit of p after which units of an item are what they were: another item,
\* or one that stays what it is; and p takes its components elsewhere only when
\* it is none.
KeepsUnits(p, row, item, recipe) ==
    /\ item = p => /\ row.type = product[p].type /\ row.parent = product[p].parent
                   /\ recipe # NotFrozen \/ row.recipe = product[p].recipe
    /\ row.parent # product[p].parent =>
          ~UsedInCombos(p) /\ (recipe # NotFrozen => recipe[p] = 0)

LEMMA EditUnits ==
    ASSUME InventoryTypeOK, InventoryTypeOK', NEW p \in Products, NEW row \in ProductRow,
           product' = [product EXCEPT ![p] = row],
           NEW item \in Products, NEW quantity \in Nat, NEW factor \in Nat,
           NEW recipe \in Frozen, KeepsUnits(p, row, item, recipe)
    PROVE  UnitsOf(item, quantity, factor, recipe)' = UnitsOf(item, quantity, factor, recipe)
<1>1. product'[p] = row /\ \A q \in Products \ {p} : product'[q] = product[q]
  BY DEF InventoryTypeOK
<1>2. IsCombo(item)' <=> IsCombo(item)
  BY <1>1 DEF IsCombo, KeepsUnits
<1>3. ~IsCombo(item) => Target(item)' = Target(item)
  BY <1>1 DEF Target, KeepsUnits
<1>4. RecipeUsed(item, recipe)' = RecipeUsed(item, recipe)
  BY <1>1 DEF RecipeUsed, KeepsUnits
<1>5. ASSUME IsCombo(item), NEW q \in Products, RecipeUsed(item, recipe)[q] > 0
      PROVE  Target(q)' = Target(q)
  <2>1. CASE q # p \/ row.parent = product[p].parent
    BY <1>1, <2>1 DEF Target
  <2>2. CASE q = p /\ row.parent # product[p].parent
    <3>1. ~UsedInCombos(p) /\ (recipe # NotFrozen => recipe[p] = 0)
      BY <2>2 DEF KeepsUnits
    <3> QED
      BY <1>5, <2>2, <3>1 DEF UsedInCombos, RecipeUsed
  <2> QED
    BY <2>1, <2>2
<1> QED
  BY <1>2, <1>3, <1>4, <1>5, UnitsStand

LEMMA EditKeeps ==
    ASSUME StockInv, NEW kind, NEW p \in Products, NEW row \in ProductRow,
           NEW lines, NEW additions, EditProduct(kind, p, row, lines, additions),
           ComponentsAreBase',
           \A l \in Lines : line[l] = NoLineYet => l \notin lines,
           \A t \in Transactions : trade[t] = NoTrade => t \notin additions,
           \A l \in Lines : line[l].state # "none" /\ l \notin lines =>
               KeepsUnits(p, row, line[l].item, line[l].recipe),
           \A t \in Transactions : trade[t].added # NoLine /\ t \notin additions =>
               /\ KeepsUnits(p, row, trade[t].item, trade[t].recipe)
               /\ trade[t].item = p => row.recipe = product[p].recipe
    PROVE  StockInv'
<1>0. InventoryTypeOK
  BY DEF StockInv
<1>1. /\ product' = [product EXCEPT ![p] = row]
      /\ line' = [l \in Lines |-> [line[l] EXCEPT !.shaken = line[l].shaken \/ l \in lines]]
      /\ trade' = [t \in Transactions |->
                      [trade[t] EXCEPT !.shaken = trade[t].shaken \/ t \in additions]]
      /\ catalogueEdits' = catalogueEdits + 1
      /\ UNCHANGED <<onHand, booked, out, forced>>
  BY DEF EditProduct
<1>2. InventoryTypeOK'
  <2>1. product' \in [Products -> ProductRow] /\ catalogueEdits' \in Nat
    BY <1>1 DEF StockInv, InventoryTypeOK
  <2>2. line' \in [Lines -> LineRow]
    <3>1. ASSUME NEW l \in Lines, NEW s \in BOOLEAN
          PROVE  [line[l] EXCEPT !.shaken = s] \in LineRow
      BY DEF StockInv, InventoryTypeOK, LineRow
    <3> QED
      BY <1>1, <3>1
  <2>3. trade' \in [Transactions -> Trade]
    <3>1. ASSUME NEW t \in Transactions, NEW s \in BOOLEAN
          PROVE  [trade[t] EXCEPT !.shaken = s] \in Trade
      <4>1. trade[t] \in Trade
        BY TradeFields DEF StockInv
      <4> QED
        BY <4>1 DEF Trade
    <3> QED
      BY <1>1, <3>1
  <2> QED
    BY <1>1, <2>1, <2>2, <2>3 DEF StockInv, InventoryTypeOK
<1>2a. /\ product' = [product EXCEPT ![p] = row]
       /\ p \in Products /\ row \in ProductRow
  BY <1>1
<1>3. ASSUME NEW l \in Lines
      PROVE  /\ line'[l].state = line[l].state /\ line'[l].item = line[l].item
             /\ line'[l].quantity = line[l].quantity /\ line'[l].factor = line[l].factor
             /\ line'[l].recipe = line[l].recipe
             /\ l \notin lines => line'[l] = line[l]
             /\ ~line'[l].shaken => ~line[l].shaken /\ l \notin lines
  <2>1. PICK s \in BOOLEAN : s = (line[l].shaken \/ l \in lines)
    OBVIOUS
  <2>2. line[l] \in LineRow /\ line'[l] = [line[l] EXCEPT !.shaken = s]
    BY <1>1, <2>1 DEF StockInv, InventoryTypeOK
  <2>3. line[l].shaken \in BOOLEAN
    BY <2>2 DEF LineRow
  <2>4. l \notin lines => s = line[l].shaken
    BY ONLY <2>1, <2>3
  <2>5. s = line[l].shaken => line'[l] = line[l]
    BY <2>2 DEF LineRow
  <2>6. /\ line'[l].state = line[l].state /\ line'[l].item = line[l].item
        /\ line'[l].quantity = line[l].quantity /\ line'[l].factor = line[l].factor
        /\ line'[l].recipe = line[l].recipe /\ line'[l].shaken = s
    BY <2>2 DEF LineRow
  <2> QED
    BY ONLY <2>1, <2>3, <2>4, <2>5, <2>6
<1>4. ASSUME NEW t \in Transactions
      PROVE  /\ trade'[t].step = trade[t].step /\ trade'[t].line = trade[t].line
             /\ trade'[t].added = trade[t].added /\ trade'[t].back = trade[t].back
             /\ trade'[t].take = trade[t].take /\ trade'[t].item = trade[t].item
             /\ trade'[t].gives = trade[t].gives /\ trade'[t].takes = trade[t].takes
             /\ trade'[t].factor = trade[t].factor /\ trade'[t].recipe = trade[t].recipe
             /\ trade'[t].wrote = trade[t].wrote /\ trade'[t].locked = trade[t].locked
             /\ trade'[t].held = trade[t].held
             /\ t \notin additions => trade'[t] = trade[t]
             /\ ~trade'[t].shaken => ~trade[t].shaken /\ t \notin additions
  <2>1. PICK s \in BOOLEAN : s = (trade[t].shaken \/ t \in additions)
    OBVIOUS
  <2>2. trade[t] \in Trade /\ trade'[t] = [trade[t] EXCEPT !.shaken = s]
    BY <1>1, <2>1 DEF StockInv, InventoryTypeOK
  <2>3. trade[t].shaken \in BOOLEAN
    BY <2>2 DEF Trade
  <2>4. t \notin additions => s = trade[t].shaken
    BY ONLY <2>1, <2>3
  <2>5. s = trade[t].shaken => trade'[t] = trade[t]
    BY <2>2 DEF Trade
  <2>6. /\ trade'[t].step = trade[t].step /\ trade'[t].line = trade[t].line
        /\ trade'[t].added = trade[t].added /\ trade'[t].back = trade[t].back
        /\ trade'[t].take = trade[t].take /\ trade'[t].item = trade[t].item
        /\ trade'[t].gives = trade[t].gives /\ trade'[t].takes = trade[t].takes
        /\ trade'[t].factor = trade[t].factor /\ trade'[t].recipe = trade[t].recipe
        /\ trade'[t].wrote = trade[t].wrote /\ trade'[t].locked = trade[t].locked
        /\ trade'[t].held = trade[t].held /\ trade'[t].shaken = s
    BY <2>2 DEF Trade
  <2> QED
    BY ONLY <2>1, <2>3, <2>4, <2>5, <2>6
<1>5. ASSUME NEW l \in Lines, line[l].state # "none", ~line'[l].shaken, NEW n \in Nat
      PROVE  UnitsOfLine(l, n)' = UnitsOfLine(l, n)
  <2>1. PICK i \in Products, f \in Nat, c \in Frozen :
            i = line[l].item /\ f = line[l].factor /\ c = line[l].recipe
    BY <1>5, ItemKnown
  <2>2. KeepsUnits(p, row, i, c)
    BY <1>3, <1>5, <2>1
  <2>3. UnitsOf(i, n, f, c)' = UnitsOf(i, n, f, c)
    <3>1. i \in Products /\ n \in Nat /\ f \in Nat /\ c \in Frozen
      BY <1>5, <2>1
    <3> QED
      BY ONLY <1>0, <1>2, <1>2a, <2>2, <3>1, EditUnits
  <2> QED
    BY <1>3, <2>1, <2>3 DEF UnitsOfLine
<1>6. RowsApart' /\ LinesApart' /\ StockIsItsMovements'
  <2>1. RowsApart'
    BY <1>4 DEF StockInv, RowsApart
  <2>2. LinesApart'
    BY <1>4 DEF StockInv, LinesApart, Touches
  <2>3. StockIsItsMovements'
    BY <1>1 DEF StockInv, StockIsItsMovements
  <2> QED
    BY <2>1, <2>2, <2>3
<1>7. StockRead'
  <2> SUFFICES ASSUME NEW t \in Transactions
               PROVE  ReadBy(t)'
    BY DEF StockRead
  <2>1. ReadBy(t)
    BY DEF StockInv, StockRead
  <2>2. trade'[t].step = "idle" => trade'[t] = NoTrade
    BY <1>4, <2>1 DEF ReadBy
  <2> QED
    BY <1>1, <1>4, <2>1, <2>2 DEF ReadBy
<1>8. LinesKnown'
  BY <1>3 DEF StockInv, LinesKnown
<1>9. ReturnsWhatItTook'
  <2> SUFFICES ASSUME NEW l \in Lines, ~line'[l].shaken
               PROVE  out'[l] = IF Delivered(l)' THEN UnitsOfLine(l, line[l].quantity)' ELSE Empty
    BY DEF ReturnsWhatItTook
  <2>1. out[l] = IF Delivered(l) THEN UnitsOfLine(l, line[l].quantity) ELSE Empty
    BY <1>3 DEF StockInv, ReturnsWhatItTook
  <2>2. CASE Delivered(l)
    <3>1. PICK n \in Nat : n = line[l].quantity
      BY <2>2, ItemKnown DEF Delivered
    <3>2. UnitsOfLine(l, n)' = UnitsOfLine(l, n)
      BY <1>5, <2>2, <3>1 DEF Delivered
    <3> QED
      BY <1>1, <1>3, <2>1, <2>2, <3>1, <3>2 DEF Delivered
  <2>3. CASE ~Delivered(l)
    BY <1>1, <1>3, <2>1, <2>3 DEF Delivered
  <2> QED
    BY <2>2, <2>3
<1>10. TradesFollow'
  <2> SUFFICES ASSUME NEW t \in Transactions, trade[t].step # "idle"
               PROVE  Follows(t)'
    BY <1>4 DEF TradesFollow, Follows
  <2>0. trade[t].back \in Nat /\ trade[t].take \in Nat
    BY <1>0 DEF InventoryTypeOK, Trade
  <2>1. PICK k, m, back, take : /\ k = trade[t].line /\ m = trade[t].added
                                /\ back = trade[t].back /\ take = trade[t].take
                                /\ back \in Nat /\ take \in Nat
    BY <2>0
  <2>2. Follows(t) /\ GivesFollow(t) /\ k \in Lines /\ line[k].state # "none"
        /\ m \in Lines \cup {NoLine}
    BY <2>1 DEF StockInv, TradesFollow, Follows, GivesFollow, InventoryTypeOK, Trade
  <2>3. ~line'[k].shaken => /\ UnitsOfLine(k, back)' = UnitsOfLine(k, back)
                            /\ UnitsOfLine(k, take)' = UnitsOfLine(k, take)
                            /\ ~line[k].shaken
    <3>1. back \in Nat /\ take \in Nat
      BY <2>1
    <3> QED
      BY <1>3, <1>5, <2>2, <3>1
  <2>4. GivesFollow(t)'
    BY <1>3, <1>4, <2>1, <2>2, <2>3 DEF GivesFollow
  <2>5. DeliveryFollows(t) => DeliveryFollows(t)'
    BY <1>3, <1>4, <2>1, <2>2, <2>3 DEF DeliveryFollows
  <2>6. ASSUME m # NoLine
        PROVE  AdditionFollows(t)'
    <3>1. AdditionFollows(t) /\ m \in Lines
      BY <2>1, <2>2, <2>6 DEF Follows
    <3>2. PICK i \in Products, f \in Nat, c \in Frozen :
              i = trade[t].item /\ f = trade[t].factor /\ c = trade[t].recipe
      BY <3>1 DEF AdditionFollows, StockInv, InventoryTypeOK, Trade, Frozen
    <3>3. ASSUME ~trade'[t].shaken
          PROVE  /\ UnitsOf(i, take, f, c)' = UnitsOf(i, take, f, c)
                 /\ RecipeToFreeze(i)' = RecipeToFreeze(i)
                 /\ ~trade[t].shaken
      <4>1. /\ ~trade[t].shaken /\ KeepsUnits(p, row, i, c)
            /\ i = p => row.recipe = product[p].recipe
        BY <1>4, <2>1, <2>6, <3>2, <3>3
      <4>2. UnitsOf(i, take, f, c)' = UnitsOf(i, take, f, c)
        <5>1. i \in Products /\ take \in Nat /\ f \in Nat /\ c \in Frozen
          BY <2>1, <3>2
        <5> QED
          BY ONLY <1>0, <1>2, <1>2a, <4>1, <5>1, EditUnits
      <4>3. product'[p] = row /\ \A q \in Products \ {p} : product'[q] = product[q]
        BY <1>1 DEF StockInv, InventoryTypeOK
      <4>4. RecipeToFreeze(i)' = RecipeToFreeze(i)
        BY <4>1, <4>3 DEF RecipeToFreeze, IsCombo, KeepsUnits
      <4> QED
        BY <4>1, <4>2, <4>4
    <3>4. /\ trade'[t].step = "deduct" /\ trade'[t].item \in Products
          /\ m = k => trade'[t].back = 0 /\ trade'[t].item = line'[k].item
          /\ m # k => line'[m].state = "none"
      BY <1>3, <1>4, <2>1, <2>2, <3>1 DEF AdditionFollows
    <3>5. ~trade'[t].shaken =>
              /\ trade'[t].takes = UnitsOf(trade[t].item, trade[t].take, trade[t].factor,
                                           trade[t].recipe)'
              /\ trade'[t].recipe = RecipeToFreeze(trade[t].item)'
      BY <1>4, <2>1, <3>1, <3>2, <3>3 DEF AdditionFollows
    <3> QED
      BY <1>4, <2>1, <3>4, <3>5 DEF AdditionFollows
  <2> QED
    BY <1>4, <2>1, <2>2, <2>4, <2>5, <2>6 DEF Follows
<1> QED
  BY <1>2, <1>6, <1>7, <1>8, <1>9, <1>10 DEF StockInv
LEMMA EditedProduct ==
    ASSUME StockInv, NEW kind, NEW p \in Products, NEW row, NEW lines, NEW additions,
           EditProduct(kind, p, row, lines, additions)
    PROVE  product'[p] = row /\ \A q \in Products \ {p} : product'[q] = product[q]
BY DEF EditProduct, StockInv, InventoryTypeOK

LEMMA ProductFields ==
    ASSUME StockInv, NEW p \in Products
    PROVE  /\ product[p] \in ProductRow /\ product[p].recipe \in Recipe
           /\ product[p].parent \in Products \cup {NoParent} /\ p # NoParent
BY InventoryAssumption DEF StockInv, InventoryTypeOK, ProductRow, NoParent

LEMMA BlankRows ==
    ASSUME NEW p \in Products
    PROVE  /\ NoLineYet.item # p /\ NoLineYet.recipe = NotFrozen /\ ~Composed(p, NoLineYet)
           /\ NoTrade.item # p /\ NoTrade.recipe = NotFrozen /\ ~Composed(p, NoTrade)
BY InventoryAssumption DEF NoLineYet, NoTrade, NoParent, Composed

LEMMA EditFactorKeeps ==
    ASSUME StockInv, NEW p \in Products, NEW factor \in Factors, EditFactor(p, factor)
    PROVE  StockInv'
<1>1. PICK row : row = [product[p] EXCEPT !.factor = factor]
  OBVIOUS
<1>2. EditProduct("packaging", p, row, {}, {})
  BY <1>1 DEF EditFactor
<1>3. factor \in Nat \ {0}
  BY InventoryAssumption
<1>4. /\ row \in ProductRow /\ row.type = product[p].type /\ row.parent = product[p].parent
      /\ row.recipe = product[p].recipe
  BY <1>1, <1>3, ProductFields DEF ProductRow
<1>5. product'[p] = row /\ \A q \in Products \ {p} : product'[q] = product[q]
  BY <1>2, EditedProduct
<1>6. ComponentsAreBase'
  BY <1>4, <1>5 DEF StockInv, ComponentsAreBase, IsCombo
<1>7. \A item, recipe : KeepsUnits(p, row, item, recipe)
  BY <1>4 DEF KeepsUnits
<1> QED
  BY <1>2, <1>4, <1>6, <1>7, EditKeeps

LEMMA EditRecipeKeeps ==
    ASSUME StockInv, NEW p \in Products, NEW recipe \in Recipes, EditRecipe(p, recipe)
    PROVE  StockInv'
<1>1. PICK row : row = [product[p] EXCEPT !.recipe = recipe]
  OBVIOUS
<1>2. PICK lines, additions :
          /\ lines = {l \in Lines : line[l].item = p /\ line[l].recipe = NotFrozen}
          /\ additions = {t \in Transactions : trade[t].item = p}
  OBVIOUS
<1>3. EditProduct("recipe", p, row, lines, additions) /\ IsCombo(p) /\ Composes(p, recipe)
  BY <1>1, <1>2 DEF EditRecipe
<1>4. recipe \in Recipe
  BY InventoryAssumption
<1>5. /\ row \in ProductRow /\ row.type = product[p].type /\ row.parent = product[p].parent
      /\ row.recipe = recipe
  BY <1>1, <1>4, ProductFields DEF ProductRow
<1>6. product'[p] = row /\ \A q \in Products \ {p} : product'[q] = product[q]
  BY <1>3, EditedProduct
<1>7. ComponentsAreBase'
  BY <1>3, <1>5, <1>6 DEF StockInv, ComponentsAreBase, IsCombo, Composes
<1>8. \A l \in Lines : line[l].state # "none" /\ l \notin lines =>
          KeepsUnits(p, row, line[l].item, line[l].recipe)
  BY <1>2, <1>5 DEF KeepsUnits
<1>9. \A t \in Transactions : trade[t].added # NoLine /\ t \notin additions =>
          /\ KeepsUnits(p, row, trade[t].item, trade[t].recipe)
          /\ trade[t].item = p => row.recipe = product[p].recipe
  BY <1>2, <1>5 DEF KeepsUnits
<1>10. /\ \A l \in Lines : line[l] = NoLineYet => l \notin lines
       /\ \A t \in Transactions : trade[t] = NoTrade => t \notin additions
  BY <1>2, BlankRows
<1> QED
  BY <1>3, <1>5, <1>7, <1>8, <1>9, <1>10, EditKeeps

LEMMA ReshapeKeeps ==
    ASSUME StockInv, NEW p \in Products, NEW row \in ProductRow, Reshape(p, row),
           ComponentsAreBase', row.parent # product[p].parent => ~UsedInCombos(p)
    PROVE  StockInv'
<1>1. PICK lines, additions :
          /\ lines = {l \in Lines : Composed(p, line[l])}
          /\ additions = {t \in Transactions : Composed(p, trade[t])}
  OBVIOUS
<1>2. EditProduct("shape", p, row, lines, additions)
  BY <1>1 DEF Reshape
<1>3. ASSUME NEW item, NEW recipe \in Frozen, item # p,
             ~(recipe # NotFrozen /\ recipe[p] > 0)
      PROVE  KeepsUnits(p, row, item, recipe)
  <2>1. recipe # NotFrozen => recipe[p] \in Nat
    BY DEF Frozen, Recipe
  <2> QED
    BY <1>3, <2>1 DEF KeepsUnits
<1>4. ASSUME NEW l \in Lines, line[l].state # "none", l \notin lines
      PROVE  KeepsUnits(p, row, line[l].item, line[l].recipe)
  <2>1. line[l].recipe \in Frozen
    BY <1>4, ItemKnown
  <2> QED
    BY <1>1, <1>3, <1>4, <2>1 DEF Composed
<1>5. ASSUME NEW t \in Transactions, t \notin additions
      PROVE  KeepsUnits(p, row, trade[t].item, trade[t].recipe) /\ trade[t].item # p
  <2>1. trade[t].recipe \in Frozen
    BY TradeFields DEF StockInv, Trade, Frozen
  <2> QED
    BY <1>1, <1>3, <1>5, <2>1 DEF Composed
<1>6. /\ \A l \in Lines : line[l] = NoLineYet => l \notin lines
      /\ \A t \in Transactions : trade[t] = NoTrade => t \notin additions
  BY <1>1, BlankRows
<1>7. \A t \in Transactions : trade[t].added # NoLine /\ t \notin additions =>
          /\ KeepsUnits(p, row, trade[t].item, trade[t].recipe)
          /\ trade[t].item = p => row.recipe = product[p].recipe
  BY <1>5
<1>8. \A l \in Lines : line[l].state # "none" /\ l \notin lines =>
          KeepsUnits(p, row, line[l].item, line[l].recipe)
  BY <1>4
<1> QED
  BY <1>2, <1>6, <1>7, <1>8, EditKeeps

LEMMA ReparentKeeps ==
    ASSUME StockInv, NEW p \in Products, NEW parent \in Products \cup {NoParent},
           Reparent(p, parent)
    PROVE  StockInv'
<1>1. PICK row : row = [product[p] EXCEPT !.parent = parent]
  OBVIOUS
<1>2. Reshape(p, row) /\ ~IsCombo(p)
  BY <1>1 DEF Reparent
<1>3. /\ row \in ProductRow /\ row.type = product[p].type /\ row.parent = parent
      /\ row.recipe = product[p].recipe
  BY <1>1, ProductFields DEF ProductRow
<1>4. product'[p] = row /\ \A q \in Products \ {p} : product'[q] = product[q]
  BY <1>2, EditedProduct DEF Reshape
<1>5. parent # product[p].parent => ~UsedInCombos(p)
  BY DEF Reparent, StockInv, ComponentsAreBase, UsedInCombos
<1>6. ComponentsAreBase'
  BY <1>2, <1>3, <1>4, <1>5 DEF StockInv, ComponentsAreBase, IsCombo, UsedInCombos
<1> QED
  BY <1>2, <1>3, <1>5, <1>6, ReshapeKeeps

LEMMA MakeComboKeeps ==
    ASSUME StockInv, NEW p \in Products, NEW recipe \in Recipes, MakeCombo(p, recipe)
    PROVE  StockInv'
<1>1. PICK row : row = [type |-> "COMBO", parent |-> NoParent, factor |-> 1, recipe |-> recipe]
  OBVIOUS
<1>2. Reshape(p, row) /\ ~IsCombo(p) /\ ~UsedInCombos(p) /\ Composes(p, recipe)
  BY <1>1 DEF MakeCombo
<1>3. recipe \in Recipe
  BY InventoryAssumption
<1>4. /\ row \in ProductRow /\ row.recipe = recipe
  BY <1>1, <1>3 DEF ProductRow
<1>5. product'[p] = row /\ \A q \in Products \ {p} : product'[q] = product[q]
  BY <1>2, EditedProduct DEF Reshape
<1>6. ComponentsAreBase'
  BY <1>2, <1>4, <1>5 DEF StockInv, ComponentsAreBase, IsCombo, UsedInCombos, Composes
<1> QED
  BY <1>2, <1>4, <1>6, ReshapeKeeps

LEMMA UnmakeComboKeeps ==
    ASSUME StockInv, NEW p \in Products, UnmakeCombo(p)
    PROVE  StockInv'
<1>1. PICK row : row = [product[p] EXCEPT !.type = "SIMPLE", !.recipe = Empty]
  OBVIOUS
<1>2. Reshape(p, row) /\ IsCombo(p)
  BY <1>1 DEF UnmakeCombo
<1>3. Empty \in Recipe
  BY DEF Empty, Recipe
<1>4. /\ row \in ProductRow /\ row.type = "SIMPLE" /\ row.parent = product[p].parent
  BY <1>1, <1>3, ProductFields DEF ProductRow
<1>5. product'[p] = row /\ \A q \in Products \ {p} : product'[q] = product[q]
  BY <1>2, EditedProduct DEF Reshape
<1>6. ComponentsAreBase'
  BY <1>2, <1>4, <1>5 DEF StockInv, ComponentsAreBase, IsCombo
<1> QED
  BY <1>2, <1>4, <1>6, ReshapeKeeps

-----------------------------------------------------------------------------
LEMMA StockStep == StockInv /\ [InventoryNext]_inventoryVars => StockInv'
<1> SUFFICES ASSUME StockInv, [InventoryNext]_inventoryVars
             PROVE  StockInv'
  OBVIOUS
<1>1. ASSUME NEW l \in Lines, NEW item \in Products, NEW q \in 1..MaxQuantity,
             WriteOrder(l, item, q)
      PROVE  StockInv'
  BY <1>1, WriteOrderKeeps
<1>2. ASSUME NEW t \in Transactions, NEW l \in Lines, NEW force \in BOOLEAN,
             StartDelivery(t, l, force)
      PROVE  StockInv'
  BY <1>2, StartDeliveryKeeps
<1>3. ASSUME NEW t \in Transactions, NEW l \in Lines, NEW back \in 0..MaxQuantity,
             StartReturn(t, l, back)
      PROVE  StockInv'
  BY <1>3, StartReturnKeeps
<1>4. ASSUME NEW t \in Transactions, NEW m \in Lines, NEW item \in Products,
             NEW q \in 1..MaxQuantity, NEW force \in BOOLEAN,
             StartAddition(t, m, item, q, force)
      PROVE  StockInv'
  BY <1>4, StartAdditionKeeps
<1>5. ASSUME NEW t \in Transactions, LockRow(t)
      PROVE  StockInv'
  BY <1>5, LockRowKeeps
<1>6. ASSUME NEW t \in Transactions, Commit(t)
      PROVE  StockInv'
  BY <1>6, CommitKeeps
<1>7. ASSUME NEW t \in Transactions, RefuseTrade(t)
      PROVE  StockInv'
  BY <1>7, RefuseTradeKeeps
<1>8. ASSUME NEW p \in Products, NEW f \in Factors, EditFactor(p, f)
      PROVE  StockInv'
  BY <1>8, EditFactorKeeps
<1>9. ASSUME NEW p \in Products, NEW r \in Recipes, EditRecipe(p, r)
      PROVE  StockInv'
  BY <1>9, EditRecipeKeeps
<1>10. ASSUME NEW p \in Products, NEW r \in Recipes, MakeCombo(p, r)
       PROVE  StockInv'
  BY <1>10, MakeComboKeeps
<1>11. ASSUME NEW p \in Products, NEW parent \in Products \cup {NoParent}, Reparent(p, parent)
       PROVE  StockInv'
  BY <1>11, ReparentKeeps
<1>12. ASSUME NEW p \in Products, UnmakeCombo(p)
       PROVE  StockInv'
  BY <1>12, UnmakeComboKeeps
<1>13. ASSUME NEW p \in Products, NEW n \in Stocks, SetStock(p, n)
       PROVE  StockInv'
  BY <1>13, SetStockKeeps
<1>14. CASE UNCHANGED inventoryVars
  <2>1. UNCHANGED <<product, onHand, booked, line, out, trade, forced, catalogueEdits>>
    BY <1>14 DEF inventoryVars
  <2>2. InventoryTypeOK' /\ ComponentsAreBase' /\ RowsApart' /\ LinesApart' /\ StockRead'
        /\ LinesKnown' /\ StockIsItsMovements'
    BY <2>1 DEF StockInv, InventoryTypeOK, ComponentsAreBase, IsCombo, RowsApart, LinesApart,
                Touches, StockRead, ReadBy, LinesKnown, StockIsItsMovements
  <2>3. TradesFollow'
    BY <2>1, UnitsUntouched DEF StockInv, TradesFollow, Follows, GivesFollow,
                                DeliveryFollows, AdditionFollows
  <2>4. ReturnsWhatItTook'
    BY <2>1, UnitsUntouched DEF StockInv, ReturnsWhatItTook, Delivered
  <2> QED
    BY <2>2, <2>3, <2>4 DEF StockInv
<1> QED
  BY <1>1, <1>2, <1>3, <1>4, <1>5, <1>6, <1>7, <1>8, <1>9, <1>10, <1>11, <1>12, <1>13, <1>14
     DEF InventoryNext

LEMMA StockAlways == InventorySpec => []StockInv
BY StockStart, StockStep, PTL DEF InventorySpec

-----------------------------------------------------------------------------
\* The variables keep their types: no sequence of sales, returns and edits of
\* the catalogue leaves a line, a recipe or a transaction that is none, for
\* any catalogue whose combos are made of base products.
THEOREM InventoryTypes == InventorySpec => []InventoryTypeOK
BY StockAlways, PTL DEF StockInv

\* Whatever transactions of adjustInventory overlap on the same base products,
\* and however often one of them holds the rows for what comes back and for
\* what goes out, each stock is what the forms and the inventory_movements
\* add up to, and with strict control only a forced sale takes it below zero.
THEOREM StockAddsUp == InventorySpec => []StockIsItsMovements
BY StockAlways, PTL DEF StockInv

\* A line that nothing shook has out exactly what its live quantity stands for
\* by the factor and the recipe it froze, so that returning it gives back what
\* was taken, for any edits of packagings, recipes and shapes in between.
THEOREM ReturnsAreExact == InventorySpec => []ReturnsWhatItTook
BY StockAlways, PTL DEF StockInv

-----------------------------------------------------------------------------
(* Where packagings, recipes and shapes are not edited.                    *)

\* A line, and what a transaction adds, have the factor and the recipe of
\* their product, and nothing shook them.
LineAsWritten(l) ==
    /\ ~line[l].shaken
    /\ line[l].state # "none" =>
          /\ line[l].factor = product[line[l].item].factor
          /\ line[l].recipe \in {NotFrozen, RecipeToFreeze(line[l].item)}

AdditionAsWritten(t) ==
    /\ ~trade[t].shaken
    /\ trade[t].added # NoLine =>
          /\ trade[t].factor = product[trade[t].item].factor
          /\ trade[t].recipe = RecipeToFreeze(trade[t].item)

AsWritten ==
    /\ \A l \in Lines : LineAsWritten(l)
    /\ \A t \in Transactions : AdditionAsWritten(t)

SettledCatalogue == CatalogueEdits \cap {"packaging", "recipe", "shape"} = {}

LEMMA LineStaysAsWritten ==
    ASSUME NEW l \in Lines, LineAsWritten(l), UNCHANGED product, UNCHANGED line
    PROVE  LineAsWritten(l)'
BY DEF LineAsWritten, RecipeToFreeze, IsCombo

LEMMA AdditionStaysAsWritten ==
    ASSUME NEW t \in Transactions, AdditionAsWritten(t), UNCHANGED product,
           trade'[t] = NoTrade
           \/ (/\ trade'[t].shaken = trade[t].shaken /\ trade'[t].added = trade[t].added
               /\ trade'[t].factor = trade[t].factor /\ trade'[t].recipe = trade[t].recipe
               /\ trade'[t].item = trade[t].item)
    PROVE  AdditionAsWritten(t)'
BY DEF AdditionAsWritten, RecipeToFreeze, IsCombo, NoTrade

\* More of a line comes under the factor and the recipe of the line.
LEMMA NeverMixed ==
    ASSUME StockInv, AsWritten, NEW t \in Transactions, trade[t].step # "idle",
           trade[t].added = trade[t].line
    PROVE  ~Mixed(t)
<1> DEFINE l == trade[t].line
<1>1. /\ l \in Lines /\ l # NoLine /\ line[l].state # "none"
      /\ trade[t].item = line[l].item
  BY DEF StockInv, TradesFollow, Follows, GivesFollow, AdditionFollows, Lines, NoLine
<1>2. LineAsWritten(l) /\ AdditionAsWritten(t)
  BY <1>1 DEF AsWritten
<1> QED
  BY <1>1, <1>2 DEF LineAsWritten, AdditionAsWritten, Mixed, RecipeUsed, RecipeToFreeze

LEMMA AsWrittenStep ==
    ASSUME SettledCatalogue, StockInv, AsWritten, [InventoryNext]_inventoryVars
    PROVE  AsWritten'
<1>1. /\ line \in [Lines -> LineRow] /\ trade \in [Transactions -> Trade]
      /\ product \in [Products -> ProductRow]
  BY DEF StockInv, InventoryTypeOK
<1>2. \A l \in Lines : LineAsWritten(l)
  BY DEF AsWritten
<1>3. \A t \in Transactions : AdditionAsWritten(t)
  BY DEF AsWritten
<1>4. ASSUME UNCHANGED <<product, line, trade>>
      PROVE  AsWritten'
  BY <1>2, <1>3, <1>4, LineStaysAsWritten DEF AsWritten, AdditionAsWritten, RecipeToFreeze,
     IsCombo
<1>5. ASSUME NEW l \in Lines, NEW item \in Products, NEW q \in 1..MaxQuantity,
             WriteOrder(l, item, q)
      PROVE  AsWritten'
  <2>1. UNCHANGED <<product, trade>>
    BY <1>5 DEF WriteOrder
  <2>2. ASSUME NEW k \in Lines
        PROVE  LineAsWritten(k)'
    <3>1. CASE k = l
      <4>1. /\ ~line'[l].shaken /\ line'[l].item = item
            /\ line'[l].factor = product[item].factor
            /\ line'[l].recipe = RecipeToFreeze(item)
        BY <1>1, <1>5 DEF WriteOrder
      <4> QED
        BY <2>1, <3>1, <4>1 DEF LineAsWritten, RecipeToFreeze, IsCombo
    <3>2. CASE k # l
      <4>1. line'[k] = line[k]
        BY <1>1, <1>5, <3>2 DEF WriteOrder
      <4> QED
        BY <1>2, <2>1, <4>1 DEF LineAsWritten, RecipeToFreeze, IsCombo
    <3> QED
      BY <3>1, <3>2
  <2>3. ASSUME NEW t \in Transactions
        PROVE  AdditionAsWritten(t)'
    BY <1>3, <2>1 DEF AdditionAsWritten, RecipeToFreeze, IsCombo
  <2> QED
    BY <2>2, <2>3 DEF AsWritten
\* A transaction starts, goes on or gives up: no line changes.
<1>6. ASSUME NEW t \in Transactions, UNCHANGED <<product, line>>, NEW r,
             trade' = [trade EXCEPT ![t] = r],
             ~r.shaken,
             r.added # NoLine => /\ r.factor = product[r.item].factor
                                 /\ r.recipe = RecipeToFreeze(r.item)
      PROVE  AsWritten'
  <2>1. ASSUME NEW u \in Transactions
        PROVE  AdditionAsWritten(u)'
    <3>1. CASE u = t
      <4>1. trade'[t] = r
        BY <1>1, <1>6
      <4> QED
        BY <1>6, <3>1, <4>1 DEF AdditionAsWritten, RecipeToFreeze, IsCombo
    <3>2. CASE u # t
      <4>1. trade'[u] = trade[u]
        BY <1>1, <1>6, <3>2
      <4> QED
        BY <1>3, <1>6, <4>1 DEF AdditionAsWritten, RecipeToFreeze, IsCombo
    <3> QED
      BY <3>1, <3>2
  <2> QED
    BY <1>2, <1>6, <2>1, LineStaysAsWritten DEF AsWritten
<1>7. ASSUME NEW t \in Transactions, NEW l \in Lines, NEW force \in BOOLEAN,
             StartDelivery(t, l, force)
      PROVE  AsWritten'
  <2> DEFINE r == [NoTrade EXCEPT
          !.step = "deduct", !.line = l, !.item = line[l].item, !.take = line[l].quantity,
          !.takes = UnitsOfLine(l, line[l].quantity), !.factor = line[l].factor,
          !.recipe = line[l].recipe, !.force = force]
  <2>1. trade' = [trade EXCEPT ![t] = r] /\ UNCHANGED <<product, line>>
    BY <1>7 DEF StartDelivery
  <2>2. ~r.shaken /\ r.added = NoLine
    BY DEF NoTrade
  <2> HIDE DEF r
  <2> QED
    BY <1>6, <2>1, <2>2
<1>8. ASSUME NEW t \in Transactions, NEW l \in Lines, NEW back \in 0..MaxQuantity,
             StartReturn(t, l, back)
      PROVE  AsWritten'
  <2> DEFINE r == [NoTrade EXCEPT
          !.step = "return", !.line = l, !.back = back, !.gives = UnitsOfLine(l, back)]
  <2>1. trade' = [trade EXCEPT ![t] = r] /\ UNCHANGED <<product, line>>
    BY <1>8 DEF StartReturn
  <2>2. ~r.shaken /\ r.added = NoLine
    BY DEF NoTrade
  <2> HIDE DEF r
  <2> QED
    BY <1>6, <2>1, <2>2
<1>9. ASSUME NEW t \in Transactions, NEW m \in Lines, NEW item \in Products,
             NEW q \in 1..MaxQuantity, NEW force \in BOOLEAN,
             StartAddition(t, m, item, q, force)
      PROVE  AsWritten'
  <2> DEFINE r == [trade[t] EXCEPT
          !.step = "deduct", !.item = item, !.take = q, !.added = m,
          !.takes = UnitsOf(item, q, product[item].factor, RecipeToFreeze(item)),
          !.factor = product[item].factor, !.recipe = RecipeToFreeze(item),
          !.force = force, !.locked = {}, !.wrote = Written(t)]
  <2>1. trade' = [trade EXCEPT ![t] = r] /\ UNCHANGED <<product, line>>
    BY <1>9 DEF StartAddition
  <2>2. /\ r.shaken = trade[t].shaken /\ r.factor = product[item].factor
        /\ r.recipe = RecipeToFreeze(item) /\ r.item = item
    BY <1>1 DEF Trade
  <2>3. ~r.shaken
    BY <1>3, <2>2 DEF AdditionAsWritten
  <2> HIDE DEF r
  <2> QED
    BY <1>6, <2>1, <2>2, <2>3
<1>10. ASSUME NEW t \in Transactions, LockRow(t)
       PROVE  AsWritten'
  <2> DEFINE p == Min(ToLock(t))
             r == [trade[t] EXCEPT
          !.locked = @ \cup {p}, !.held = @ \cup {p},
          !.wrote = IF p \in trade[t].held THEN @ ELSE [@ EXCEPT ![p] = onHand[p]]]
  <2>1. trade' = [trade EXCEPT ![t] = r] /\ UNCHANGED <<product, line>>
    BY <1>10 DEF LockRow
  <2>2. /\ r.shaken = trade[t].shaken /\ r.factor = trade[t].factor
        /\ r.recipe = trade[t].recipe /\ r.item = trade[t].item /\ r.added = trade[t].added
    BY <1>1 DEF Trade
  <2> HIDE DEF r
  <2> QED
    BY <1>3, <1>6, <2>1, <2>2 DEF AdditionAsWritten
<1>11. ASSUME NEW t \in Transactions, RefuseTrade(t)
       PROVE  AsWritten'
  <2>1. ~NoTrade.shaken /\ NoTrade.added = NoLine
    BY DEF NoTrade
  <2> QED
    BY <1>6, <1>11, <2>1 DEF RefuseTrade
<1>12. ASSUME NEW t \in Transactions, Commit(t)
       PROVE  AsWritten'
  <2>1. /\ UNCHANGED product /\ trade[t].step # "idle"
        /\ line' = [l \in Lines |-> IF l = trade[t].line THEN LineAfter(t)
                                    ELSE IF l = trade[t].added THEN LineAdded(t) ELSE line[l]]
        /\ trade' = [trade EXCEPT ![t] = NoTrade]
    BY <1>12 DEF Commit, LinesAfter
  <2>2. ASSUME NEW l \in Lines
        PROVE  LineAsWritten(l)'
    <3>1. CASE l = trade[t].line
      <4>1. /\ line'[l].shaken = (line[l].shaken
                   \/ (trade[t].added = l /\ (trade[t].shaken \/ Mixed(t))))
            /\ line'[l].item = line[l].item /\ line'[l].factor = line[l].factor
            /\ line'[l].recipe = line[l].recipe
        BY <1>1, <2>1, <3>1 DEF LineAfter, LineRow
      <4>2. line[l].state # "none"
        BY <2>1, <3>1 DEF StockInv, TradesFollow, Follows, GivesFollow
      <4>3. ~line'[l].shaken
        BY <1>2, <1>3, <2>1, <3>1, <4>1, NeverMixed DEF LineAsWritten, AdditionAsWritten
      <4> QED
        BY <1>2, <2>1, <4>1, <4>2, <4>3 DEF LineAsWritten, RecipeToFreeze, IsCombo
    <3>2. CASE l # trade[t].line /\ l = trade[t].added
      <4>1. /\ line'[l].shaken = trade[t].shaken /\ line'[l].item = trade[t].item
            /\ line'[l].factor = trade[t].factor /\ line'[l].recipe = NotFrozen
        BY <2>1, <3>2 DEF LineAdded
      <4>2. trade[t].added # NoLine
        BY <3>2 DEF Lines, NoLine
      <4> QED
        BY <1>3, <2>1, <4>1, <4>2 DEF LineAsWritten, AdditionAsWritten
    <3>3. CASE l # trade[t].line /\ l # trade[t].added
      <4>1. line'[l] = line[l]
        BY <2>1, <3>3
      <4> QED
        BY <1>2, <2>1, <4>1 DEF LineAsWritten, RecipeToFreeze, IsCombo
    <3> QED
      BY <3>1, <3>2, <3>3
  <2>3. ASSUME NEW u \in Transactions
        PROVE  AdditionAsWritten(u)'
    <3>1. trade'[u] = NoTrade \/ trade'[u] = trade[u]
      BY <1>1, <2>1
    <3> QED
      BY <1>3, <2>1, <3>1, AdditionStaysAsWritten
  <2> QED
    BY <2>2, <2>3 DEF AsWritten
<1>13. ASSUME NEW kind \in {"packaging", "recipe", "shape"}, NEW p, NEW row, NEW ls, NEW ads,
              EditProduct(kind, p, row, ls, ads)
       PROVE  FALSE
  BY <1>13 DEF EditProduct, SettledCatalogue
<1>14. ASSUME NEW p \in Products
       PROVE  /\ \A f \in Factors : ~EditFactor(p, f)
              /\ \A r \in Recipes : ~EditRecipe(p, r) /\ ~MakeCombo(p, r)
              /\ \A parent \in Products \cup {NoParent} : ~Reparent(p, parent)
              /\ ~UnmakeCombo(p)
  BY <1>13 DEF EditFactor, EditRecipe, MakeCombo, Reparent, UnmakeCombo, Reshape
<1>15. ASSUME NEW p \in Products, NEW n \in Stocks, SetStock(p, n)
       PROVE  AsWritten'
  BY <1>4, <1>15 DEF SetStock
<1>16. CASE UNCHANGED inventoryVars
  BY <1>4, <1>16 DEF inventoryVars
<1> QED
  BY <1>5, <1>7, <1>8, <1>9, <1>10, <1>11, <1>12, <1>14, <1>15, <1>16 DEF InventoryNext

\* Where nobody edits packagings, recipes or shapes, every line, with what was
\* added to it and with the lines of debit notes, is returned exactly as it
\* was taken: the three kinds of edit are all there is that breaks it.
THEOREM SettledReturnsAreExact ==
    ASSUME SettledCatalogue
    PROVE  InventorySpec =>
             [](\A l \in Lines :
                   out[l] = IF Delivered(l) THEN UnitsOfLine(l, line[l].quantity) ELSE Empty)
<1>1. InventoryInit => AsWritten
  BY DEF InventoryInit, AsWritten, LineAsWritten, AdditionAsWritten, NoLineYet, NoTrade
<1>2. StockInv /\ AsWritten /\ [InventoryNext]_inventoryVars => AsWritten'
  BY AsWrittenStep
<1>3. StockInv /\ AsWritten =>
        \A l \in Lines :
           out[l] = IF Delivered(l) THEN UnitsOfLine(l, line[l].quantity) ELSE Empty
  BY DEF StockInv, ReturnsWhatItTook, AsWritten, LineAsWritten
<1> QED
  BY <1>1, <1>2, <1>3, StockAlways, PTL DEF InventorySpec
=============================================================================

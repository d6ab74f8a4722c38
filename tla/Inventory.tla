----------------------------- MODULE Inventory -----------------------------
(***************************************************************************)
(* The stock that sales take and give back: products, presentations that   *)
(* draw on a base product by the factor of their packaging, and combos     *)
(* that draw on the components of their recipe.                            *)
(*                                                                         *)
(* The line of a sale freezes factor and recipe when it is written, so     *)
(* that a later return undoes exactly what was taken although the          *)
(* catalogue was edited in between.  adjustInventory reads the products    *)
(* without locks, works out the units for each base product, locks those   *)
(* rows one after the other in the order of their ids, reads their stock   *)
(* and writes it back; an edited sale does it twice in its transaction,    *)
(* for what comes back and for what goes out.                              *)
(*                                                                         *)
(* A sale is one line here, and the line its edit adds; sales lock their   *)
(* row first, so a line is in one transaction at a time.  Quantities are   *)
(* whole; prices, and the company that owns a product, are left out.       *)
(***************************************************************************)
EXTENDS Integers, FiniteSetsExt, Totals

CONSTANTS
    Products,       \* ids of the catalogue, a set of numbers
    Transactions,   \* sales delivered, edited or voided at the same time
    Catalogue,      \* the products as the company wrote them
    Factors,        \* units in a packaging
    Recipes,        \* recipes that the form sends
    StrictStock,    \* strict_inventory_control of the owner
    CatalogueEdits, \* kinds of edit, of "packaging", "recipe", "shape", "stock"
    Stocks,         \* stock that the form sends, and opening stock
    MaxQuantity,    \* bound: units in a line
    MaxLines,       \* bound: lines written
    MaxCatalogueEdits   \* bound: edits of the catalogue

NoParent == 0
NoLine == 0

Recipe == [Products -> Nat]
Empty == [p \in Products |-> 0]

\* A line that is not a combo's, and every line of a debit note, has none.
NotFrozen == [p \in {} |-> 0]

ProductRow == [type : {"SIMPLE", "COMBO"}, parent : Products \cup {NoParent},
               factor : Nat \ {0}, recipe : Recipe]

\* The components of combos are base products.
ASSUME InventoryAssumption ==
    /\ Products \subseteq Nat \ {0} /\ IsFiniteSet(Products)
    /\ Catalogue \in [Products -> ProductRow]
    /\ \A p, q \in Products :
          Catalogue[p].type = "COMBO" /\ Catalogue[p].recipe[q] > 0
          => Catalogue[q].type # "COMBO" /\ Catalogue[q].parent = NoParent
    /\ Factors \subseteq Nat \ {0} /\ Recipes \subseteq Recipe /\ Stocks \subseteq Nat
    /\ StrictStock \in BOOLEAN
    /\ MaxQuantity \in Nat /\ MaxLines \in Nat /\ MaxCatalogueEdits \in Nat

Lines == 1..MaxLines

VARIABLES
    product,    \* the catalogue: type, parent, factor of the packaging, recipe
    onHand,     \* products.stock
    booked,     \* opening stock, forms, and the sum of inventory_movements
    line,       \* lines of sales and of debit notes
    out,        \* units that each line took and has not given back
    trade,      \* the transactions
    forced,     \* some sale was allowed to ignore the stock (history)
    catalogueEdits  \* edits of the catalogue so far

inventoryVars == <<product, onHand, booked, line, out, trade, forced, catalogueEdits>>

-----------------------------------------------------------------------------
\* `shaken` is history: the product of the line changed in a way that none of
\* its snapshots covers.
NoLineYet == [state |-> "none", item |-> NoParent, quantity |-> 0, factor |-> 1,
              recipe |-> NotFrozen, shaken |-> FALSE]

LineRow == [state : {"none", "order", "live"}, item : Products \cup {NoParent},
            quantity : Nat, factor : Nat \ {0}, recipe : Recipe \cup {NotFrozen},
            shaken : BOOLEAN]

\* A transaction gives back `back` units of `line`, then takes `take` units of
\* `item` for that line or for a new one, `added`.  `gives` and `takes` are
\* the units of stock they stand for, as read; `wrote` is the stock of the
\* rows it holds.
NoTrade == [step |-> "idle", line |-> NoLine, back |-> 0, gives |-> Empty,
            item |-> NoParent, take |-> 0, takes |-> Empty, added |-> NoLine,
            factor |-> 1, recipe |-> NotFrozen, shaken |-> FALSE, force |-> FALSE,
            locked |-> {}, wrote |-> Empty, held |-> {}]

Trade == [step : {"idle", "return", "deduct"}, line : Lines \cup {NoLine}, back : Nat,
          gives : Recipe, item : Products \cup {NoParent}, take : Nat, takes : Recipe,
          added : Lines \cup {NoLine}, factor : Nat \ {0},
          recipe : Recipe \cup {NotFrozen}, shaken : BOOLEAN, force : BOOLEAN,
          locked : SUBSET Products, wrote : [Products -> Int], held : SUBSET Products]

InventoryTypeOK ==
    /\ product \in [Products -> ProductRow]
    /\ onHand \in [Products -> Int]
    /\ booked \in [Products -> Int]
    /\ line \in [Lines -> LineRow]
    /\ out \in [Lines -> [Products -> Int]]
    /\ trade \in [Transactions -> Trade]
    /\ forced \in BOOLEAN
    /\ catalogueEdits \in Nat

InventoryInit ==
    /\ product = Catalogue
    /\ onHand \in [Products -> Stocks]
    /\ booked = onHand
    /\ line = [l \in Lines |-> NoLineYet]
    /\ out = [l \in Lines |-> Empty]
    /\ trade = [t \in Transactions |-> NoTrade]
    /\ forced = FALSE
    /\ catalogueEdits = 0

-----------------------------------------------------------------------------
IsCombo(p) == product[p].type = "COMBO"

\* The row that holds the stock of a product.
Target(p) == IF product[p].parent = NoParent THEN p ELSE product[p].parent

\* Mutant: a frozen recipe is not looked at.
RecipeToday(item, recipe) == product[item].recipe

\* The recipe a combo is taken apart by: the frozen one, or today's.
RecipeUsed(item, recipe) == IF recipe = NotFrozen THEN product[item].recipe ELSE recipe

\* Units of each row that some units of an item stand for, from the catalogue
\* as it is and from what the line froze.
UnitsOf(item, quantity, factor, recipe) ==
    [p \in Products |->
        IF IsCombo(item)
        THEN Total([q \in Products |-> IF Target(q) = p
                                       THEN quantity * RecipeUsed(item, recipe)[q] ELSE 0],
                   Products)
        ELSE IF Target(item) = p THEN quantity * factor ELSE 0]

UnitsOfLine(l, quantity) == UnitsOf(line[l].item, quantity, line[l].factor, line[l].recipe)

RecipeToFreeze(item) == IF IsCombo(item) THEN product[item].recipe ELSE NotFrozen

Unwritten(l) == line[l].state = "none" /\ \A k \in 1..(l - 1) : line[k].state # "none"

\* The sale of a line is locked, or an edit is about to write the line.
Busy(l) == \E t \in Transactions : trade[t].line = l \/ trade[t].added = l

-----------------------------------------------------------------------------
\* An order is written; its stock is not touched.
WriteOrder(l, item, quantity) ==
    /\ Unwritten(l) /\ ~Busy(l)
    /\ line' = [line EXCEPT ![l] = [state |-> "order", item |-> item, quantity |-> quantity,
                                    factor |-> product[item].factor,
                                    recipe |-> RecipeToFreeze(item), shaken |-> FALSE]]
    /\ UNCHANGED <<product, onHand, booked, out, trade, forced, catalogueEdits>>

\* An order is paid for or lent: the line is deducted as it was frozen.
StartDelivery(t, l, force) ==
    /\ trade[t] = NoTrade /\ ~Busy(l) /\ line[l].state = "order"
    /\ trade' = [trade EXCEPT ![t] = [NoTrade EXCEPT
          !.step = "deduct", !.line = l, !.item = line[l].item, !.take = line[l].quantity,
          !.takes = UnitsOfLine(l, line[l].quantity), !.factor = line[l].factor,
          !.recipe = line[l].recipe, !.force = force]]
    /\ UNCHANGED <<product, onHand, booked, line, out, forced, catalogueEdits>>

\* A sale is voided or edited: units of a line come back, none if the edit
\* only adds.
StartReturn(t, l, back) ==
    /\ trade[t] = NoTrade /\ ~Busy(l)
    /\ line[l].state = "live" /\ back \in 0..line[l].quantity
    /\ trade' = [trade EXCEPT ![t] = [NoTrade EXCEPT
          !.step = "return", !.line = l, !.back = back, !.gives = UnitsOfLine(l, back)]]
    /\ UNCHANGED <<product, onHand, booked, line, out, forced, catalogueEdits>>

UnitsOfStep(t) == IF trade[t].step = "return" THEN trade[t].gives ELSE trade[t].takes

Sign(t) == IF trade[t].step = "return" THEN 1 ELSE -1

ToLock(t) == {p \in Products : UnitsOfStep(t)[p] > 0} \ trade[t].locked

\* Mutant: rows are read without FOR UPDATE.
RowFreeAlways(t, p) == TRUE

RowFree(t, p) == \A u \in Transactions \ {t} : p \notin trade[u].held

\* The next row, in the order of the ids; its stock is read under the lock.
LockRow(t) ==
    LET p == Min(ToLock(t)) IN
    /\ trade[t].step # "idle" /\ ToLock(t) # {} /\ RowFree(t, p)
    /\ trade' = [trade EXCEPT ![t] = [trade[t] EXCEPT
          !.locked = @ \cup {p}, !.held = @ \cup {p},
          !.wrote = IF p \in trade[t].held THEN @ ELSE [@ EXCEPT ![p] = onHand[p]]]]
    /\ UNCHANGED <<product, onHand, booked, line, out, forced, catalogueEdits>>

Written(t) == [p \in Products |-> trade[t].wrote[p] + Sign(t) * UnitsOfStep(t)[p]]

Short(t) ==
    /\ StrictStock /\ ~trade[t].force /\ trade[t].step = "deduct"
    /\ \E p \in Products : trade[t].takes[p] > 0 /\ Written(t)[p] < 0

\* The edit goes on with what it adds, frozen and read now: more of the same
\* line, or a product the sale had not.
StartAddition(t, m, item, quantity, force) ==
    /\ trade[t].step = "return" /\ ToLock(t) = {}
    /\ \/ m = trade[t].line /\ trade[t].back = 0 /\ item = line[m].item
          /\ line[m].quantity > 0 /\ line[m].quantity + quantity <= MaxQuantity
       \/ Unwritten(m) /\ ~Busy(m)
    /\ trade' = [trade EXCEPT ![t] = [trade[t] EXCEPT
          !.step = "deduct", !.item = item, !.take = quantity, !.added = m,
          !.takes = UnitsOf(item, quantity, product[item].factor, RecipeToFreeze(item)),
          !.factor = product[item].factor, !.recipe = RecipeToFreeze(item),
          !.force = force, !.locked = {}, !.wrote = Written(t)]]
    /\ UNCHANGED <<product, onHand, booked, line, out, forced, catalogueEdits>>

-----------------------------------------------------------------------------
\* More of a line comes under another factor or recipe than the line's.
Mixed(t) ==
    LET r == trade[t] IN
    \/ r.factor # line[r.line].factor
    \/ IsCombo(r.item) /\ r.recipe # RecipeUsed(r.item, line[r.line].recipe)

\* The line of a transaction that commits; more of it is counted with it.
LineAfter(t) ==
    LET r == trade[t]
        more == r.added = r.line
    IN  [line[r.line] EXCEPT !.state = "live",
                             !.quantity = IF more THEN @ + r.take ELSE @ - r.back,
                             !.shaken = @ \/ (more /\ (r.shaken \/ Mixed(t)))]

\* A debit note keeps the factor it took its line by, and no recipe.
LineAdded(t) ==
    LET r == trade[t] IN
    [state |-> "live", item |-> r.item, quantity |-> r.take, factor |-> r.factor,
     recipe |-> NotFrozen, shaken |-> r.shaken]

LinesAfter(t) == [l \in Lines |-> IF l = trade[t].line THEN LineAfter(t)
                                  ELSE IF l = trade[t].added THEN LineAdded(t) ELSE line[l]]

OutAfter(t) ==
    LET r == trade[t]
        taker == IF r.added = NoLine THEN r.line ELSE r.added
    IN  [l \in Lines |-> [p \in Products |->
            out[l][p] - (IF l = r.line THEN r.gives[p] ELSE 0)
                      + (IF l = taker THEN r.takes[p] ELSE 0)]]

\* Stocks, movements and lines commit together.
Commit(t) ==
    LET r == trade[t] IN
    /\ r.step # "idle" /\ ToLock(t) = {} /\ r.back + r.take > 0 /\ ~Short(t)
    /\ onHand' = [p \in Products |-> IF p \in r.held THEN Written(t)[p] ELSE onHand[p]]
    /\ booked' = [p \in Products |-> booked[p] + r.gives[p] - r.takes[p]]
    /\ line' = LinesAfter(t)
    /\ out' = OutAfter(t)
    /\ forced' = (forced \/ r.force)
    /\ trade' = [trade EXCEPT ![t] = NoTrade]
    /\ UNCHANGED <<product, catalogueEdits>>

\* Not enough stock, a deadlock with another edit, or whatever else the
\* operation refuses: nothing stays.
RefuseTrade(t) ==
    /\ trade[t].step # "idle"
    /\ trade' = [trade EXCEPT ![t] = NoTrade]
    /\ UNCHANGED <<product, onHand, booked, line, out, forced, catalogueEdits>>

-----------------------------------------------------------------------------
\* An edit of the catalogue, and the lines and additions it shakes.
EditProduct(kind, p, row, lines, additions) ==
    /\ kind \in CatalogueEdits /\ catalogueEdits < MaxCatalogueEdits
    /\ row # product[p]
    /\ product' = [product EXCEPT ![p] = row]
    /\ line' = [l \in Lines |-> [line[l] EXCEPT !.shaken = @ \/ l \in lines]]
    /\ trade' = [t \in Transactions |-> [trade[t] EXCEPT !.shaken = @ \/ t \in additions]]
    /\ catalogueEdits' = catalogueEdits + 1
    /\ UNCHANGED <<onHand, booked, out, forced>>

\* The packaging has another value, or the product another packaging.
EditFactor(p, factor) ==
    /\ ~IsCombo(p)
    /\ EditProduct("packaging", p, [product[p] EXCEPT !.factor = factor], {}, {})

\* Only base products are components, and none of them a combo.
Composes(p, recipe) ==
    /\ recipe \in Recipes /\ recipe # Empty
    /\ \A q \in Products : recipe[q] > 0 => /\ q # p /\ ~IsCombo(q)
                                            /\ product[q].parent = NoParent

UsedInCombos(p) == \E q \in Products : IsCombo(q) /\ product[q].recipe[p] > 0

\* A line of a debit note has no recipe of its own and follows the combo's.
EditRecipe(p, recipe) ==
    /\ IsCombo(p) /\ Composes(p, recipe)
    /\ EditProduct("recipe", p, [product[p] EXCEPT !.recipe = recipe],
            {l \in Lines : line[l].item = p /\ line[l].recipe = NotFrozen},
            {t \in Transactions : trade[t].item = p})

\* Lines that a product of another shape takes apart in another way: its own,
\* and those of combos that froze it as a component.
Composed(p, r) == r.item = p \/ (r.recipe # NotFrozen /\ r.recipe[p] > 0)

Reshape(p, row) == EditProduct("shape", p, row, {l \in Lines : Composed(p, line[l])},
                                         {t \in Transactions : Composed(p, trade[t])})

\* A base product becomes a presentation, a presentation goes to another base
\* product or becomes one.
Reparent(p, parent) ==
    /\ ~IsCombo(p) /\ parent # p
    /\ parent # NoParent => /\ ~IsCombo(parent)
                            /\ product[p].parent = NoParent => ~UsedInCombos(p)
    /\ Reshape(p, [product[p] EXCEPT !.parent = parent])

\* A product becomes a combo, without parent or packaging, or stops being one.
MakeCombo(p, recipe) ==
    /\ ~IsCombo(p) /\ ~UsedInCombos(p) /\ Composes(p, recipe)
    /\ Reshape(p, [type |-> "COMBO", parent |-> NoParent, factor |-> 1, recipe |-> recipe])

UnmakeCombo(p) ==
    /\ IsCombo(p)
    /\ Reshape(p, [product[p] EXCEPT !.type = "SIMPLE", !.recipe = Empty])

\* The form writes the stock it was sent with, and no movement; its UPDATE
\* waits for the row.
SetStock(p, n) ==
    /\ "stock" \in CatalogueEdits /\ catalogueEdits < MaxCatalogueEdits
    /\ ~IsCombo(p) /\ onHand[p] # n
    /\ \A t \in Transactions : p \notin trade[t].held
    /\ onHand' = [onHand EXCEPT ![p] = n]
    /\ booked' = [booked EXCEPT ![p] = n]
    /\ catalogueEdits' = catalogueEdits + 1
    /\ UNCHANGED <<product, line, out, trade, forced>>

InventoryNext ==
    \/ \E l \in Lines, item \in Products, q \in 1..MaxQuantity : WriteOrder(l, item, q)
    \/ \E t \in Transactions :
          \/ \E l \in Lines, force \in BOOLEAN : StartDelivery(t, l, force)
          \/ \E l \in Lines, back \in 0..MaxQuantity : StartReturn(t, l, back)
          \/ \E m \in Lines, item \in Products, q \in 1..MaxQuantity, force \in BOOLEAN :
                StartAddition(t, m, item, q, force)
          \/ LockRow(t) \/ Commit(t) \/ RefuseTrade(t)
    \/ \E p \in Products :
          \/ \E f \in Factors : EditFactor(p, f)
          \/ \E r \in Recipes : EditRecipe(p, r) \/ MakeCombo(p, r)
          \/ \E parent \in Products \cup {NoParent} : Reparent(p, parent)
          \/ UnmakeCombo(p)
          \/ \E n \in Stocks : SetStock(p, n)

InventorySpec == InventoryInit /\ [][InventoryNext]_inventoryVars

-----------------------------------------------------------------------------
Delivered(l) == line[l].state = "live"

\* What a line took and has not given back is what its live quantity stands
\* for, by the factor and the recipe it froze: whatever packagings and recipes
\* were edited since, returning the rest of it leaves nothing behind and gives
\* nothing that was not taken.  Not for lines whose product changed its shape,
\* for more of a line added under another factor or recipe, nor for combos of
\* a debit note whose recipe was edited.
ReturnsWhatItTook ==
    \A l \in Lines : ~line[l].shaken =>
        out[l] = IF Delivered(l) THEN UnitsOfLine(l, line[l].quantity) ELSE Empty

\* Whatever sales, returns and edits of the same base products overlap, a
\* stock is what the forms and the movements say; under strict control it
\* never goes below zero unless a sale was forced.
StockIsItsMovements ==
    \A p \in Products : /\ onHand[p] = booked[p]
                        /\ StrictStock /\ ~forced => onHand[p] >= 0
=============================================================================

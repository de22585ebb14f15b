-------------------------------- MODULE Shop --------------------------------
(***************************************************************************)
(* The members' shop around one product of one size.  Every writer is a    *)
(* transaction that takes its row locks one after another (the product,    *)
(* then the size, then the order) and waits where another holds one; what  *)
(* it reads and writes under them is one step, its commit.                 *)
(***************************************************************************)
EXTENDS Integers, Sequences, FiniteSets, FiniteSetsExt

CONSTANTS Writers,     \* the transactions that may be open at once
          Orders,      \* the rows of shop_orders, numbered as they are placed
          Quantities,  \* what one order may ask for
          StockMax,    \* bound: STOCK_MAX
          SavesMax     \* bound: how often the product is saved

NoLimit == 0 - 1       \* a size whose stock nobody counts

VARIABLES product,     \* shop_products: in the shop, archived or deleted; its version
          size,        \* shop_product_variants: whether it is there, and its stock
          order,       \* shop_orders
          writer       \* what each open transaction wants, and how many locks it holds

shopVars == <<product, size, order, writer>>

OrderStatuses == {"PLACED", "PAID", "HANDED_OVER", "CANCELLED"}
Verbs == {"pay", "handOver", "cancel"}
Typed == 0..StockMax \cup {NoLimit}     \* what the editor may type as the stock

Absent == [status |-> "none", quantity |-> 0, taken |-> FALSE, fresh |-> FALSE]
NoWrite == [kind |-> "none"]

ShopTypeOK ==
  /\ product \in [state : {"listed", "archived", "deleted"}, version : 0..SavesMax]
  /\ size \in [there : BOOLEAN, stock : Nat \cup {NoLimit}]
  /\ order \in [Orders -> [status : OrderStatuses \cup {"none"}, quantity : Quantities \cup {0},
                           taken : BOOLEAN, fresh : BOOLEAN]]
  /\ DOMAIN writer = Writers

ShopInit ==
  /\ product = [state |-> "listed", version |-> 0]
  /\ size = [there |-> TRUE, stock |-> StockMax]
  /\ order = [o \in Orders |-> Absent]
  /\ writer = [w \in Writers |-> NoWrite]

Placed(o) == order[o].status # "none"
Ordered == \E o \in Orders : Placed(o)

-----------------------------------------------------------------------------
(* The locks. *)

(* Mutant: a move that locks the size before its product. *)
SizeFirst(kind) == IF kind = "move" THEN <<"size", "product", "order">> ELSE <<"product", "size">>

(* The rows each writer locks, in order. *)
LocksOf(kind) == IF kind = "move" THEN <<"product", "size", "order">> ELSE <<"product", "size">>

Shares(kind, row) == row = "product" /\ kind \in {"place", "move"}

Writing(w) == writer[w].kind # "none"
HasAllLocks(w) == Writing(w) /\ writer[w].locks = Len(LocksOf(writer[w].kind))
Holds(w, row) == Writing(w) /\ \E i \in 1..writer[w].locks : LocksOf(writer[w].kind)[i] = row
Wants(w) == LocksOf(writer[w].kind)[writer[w].locks + 1]

BlockedBy(w) ==
  IF ~Writing(w) \/ HasAllLocks(w) THEN {}
  ELSE {v \in Writers \ {w} :
          /\ Holds(v, Wants(w))
          /\ ~(Shares(writer[v].kind, Wants(w)) /\ Shares(writer[w].kind, Wants(w)))
          /\ Wants(w) = "order" => writer[v].order = writer[w].order}

TakeLock(w) ==
  /\ Writing(w) /\ ~HasAllLocks(w) /\ BlockedBy(w) = {}
  /\ writer' = [writer EXCEPT ![w].locks = @ + 1]
  /\ UNCHANGED <<product, size, order>>

BeginWrite(w, what) ==
  /\ ~Writing(w)
  /\ writer' = [writer EXCEPT ![w] = what]
  /\ UNCHANGED <<product, size, order>>

WriteDone(w) == writer' = [writer EXCEPT ![w] = NoWrite]

-----------------------------------------------------------------------------
(* An order placed, by a member or by the club in a member's name. *)

BeginPlace(w) == BeginWrite(w, [kind |-> "place", locks |-> 0])

(* The same press within ORDER_REPEAT_WINDOW_MS. *)
IsRepeat(quantity) ==
  \E o \in Orders : /\ Placed(o) /\ order[o].fresh
                    /\ order[o].status # "CANCELLED" /\ order[o].quantity = quantity

(* Mutant: a size nobody counts is counted down too. *)
CountedDown(quantity) == size.stock - quantity

StockAfterOrder(quantity) == IF size.stock = NoLimit THEN NoLimit ELSE size.stock - quantity

CanPlace(quantity) ==
  /\ product.state = "listed" /\ size.there
  /\ size.stock = NoLimit \/ size.stock >= quantity

NextOrder(o) == ~Placed(o) /\ \A p \in Orders : p < o => Placed(p)

(* insertOrder, and the payment in the same transaction when the club says so. *)
PlaceOrder(w, o, asked, paid) ==
  /\ writer[w].kind = "place" /\ HasAllLocks(w)
  /\ CanPlace(asked) /\ ~IsRepeat(asked) /\ NextOrder(o)
  /\ size' = [size EXCEPT !.stock = StockAfterOrder(asked)]
  /\ order' = [order EXCEPT ![o] =
                 [status |-> IF paid THEN "PAID" ELSE "PLACED", quantity |-> asked,
                  taken |-> size.stock # NoLimit, fresh |-> TRUE]]
  /\ WriteDone(w) /\ UNCHANGED product

-----------------------------------------------------------------------------
(* An order moved on: the club's verbs, and the member's cancellation. *)

BeginMove(w, o) == Placed(o) /\ BeginWrite(w, [kind |-> "move", locks |-> 0, order |-> o])

NextOrderStatus(status, verb, actor) ==
  IF verb = "pay" THEN IF actor = "CLUB" /\ status = "PLACED" THEN "PAID" ELSE "none"
  ELSE IF verb = "handOver" THEN IF actor = "CLUB" /\ status = "PAID" THEN "HANDED_OVER" ELSE "none"
  ELSE IF status = "PLACED" \/ (actor = "CLUB" /\ status = "PAID") THEN "CANCELLED" ELSE "none"

(* Given back where the stock is still counted; a size made unlimited since keeps no count. *)
GivesBack(o, next) == next = "CANCELLED" /\ order[o].taken /\ size.there /\ size.stock # NoLimit

MoveOrder(w, verb, actor) ==
  LET o == writer[w].order
      next == NextOrderStatus(order[o].status, verb, actor)
  IN /\ writer[w].kind = "move" /\ HasAllLocks(w) /\ next # "none"
     /\ order' = [order EXCEPT ![o].status = next, ![o].taken = @ /\ next # "CANCELLED"]
     /\ size' = IF GivesBack(o, next) THEN [size EXCEPT !.stock = @ + order[o].quantity] ELSE size
     /\ WriteDone(w) /\ UNCHANGED product

-----------------------------------------------------------------------------
(* The product saved from a form that was opened earlier, and deleted. *)

BeginSave(w) ==
  /\ product.state = "listed" /\ product.version < SavesMax
  /\ BeginWrite(w, [kind |-> "save", locks |-> 0, version |-> product.version, loaded |-> size.stock])

(* Mutant: the form's number is written whether or not it was touched. *)
AsTyped(typed, loaded, current) == typed

(* stockToSave: the number somebody typed, or the stock as it stands now. *)
StockToSave(typed, loaded, current) == IF typed = loaded THEN current ELSE typed

(* listsSize: the form still has the size among its lines. *)
SaveProduct(w, typed, listsSize) ==
  /\ writer[w].kind = "save" /\ HasAllLocks(w)
  /\ product.state = "listed" /\ product.version = writer[w].version
  /\ listsSize \/ ~Ordered \/ ~size.there
  /\ product' = [product EXCEPT !.version = @ + 1]
  /\ size' = IF ~listsSize THEN [there |-> FALSE, stock |-> 0]
             ELSE IF size.there
             THEN [there |-> TRUE, stock |-> StockToSave(typed, writer[w].loaded, size.stock)]
             ELSE [there |-> TRUE, stock |-> typed]
  /\ WriteDone(w) /\ UNCHANGED order

BeginDelete(w) == BeginWrite(w, [kind |-> "delete", locks |-> 0])

DeleteProduct(w) ==
  /\ writer[w].kind = "delete" /\ HasAllLocks(w) /\ product.state = "listed"
  /\ product' = [product EXCEPT !.state = IF Ordered THEN "archived" ELSE "deleted"]
  /\ size' = IF Ordered THEN size ELSE [there |-> FALSE, stock |-> 0]
  /\ WriteDone(w) /\ UNCHANGED order

-----------------------------------------------------------------------------
(* Any transaction may end without a write: refused, answered with an earlier order, cut off. *)
GiveUp(w) == Writing(w) /\ WriteDone(w) /\ UNCHANGED <<product, size, order>>

(* Ten seconds after an order, the same order again is a new one. *)
WindowEnds(o) ==
  /\ order[o].fresh
  /\ order' = [order EXCEPT ![o].fresh = FALSE]
  /\ UNCHANGED <<product, size, writer>>

ShopNext ==
  \/ \E w \in Writers :
       \/ BeginPlace(w) \/ BeginSave(w) \/ BeginDelete(w)
       \/ TakeLock(w) \/ GiveUp(w) \/ DeleteProduct(w)
       \/ MoveOrder(w, "cancel", "MEMBER")
       \/ \E verb \in Verbs : MoveOrder(w, verb, "CLUB")
       \/ \E typed \in Typed, listsSize \in BOOLEAN : SaveProduct(w, typed, listsSize)
       \/ \E o \in Orders : \/ BeginMove(w, o)
                           \/ \E asked \in Quantities, paid \in BOOLEAN : PlaceOrder(w, o, asked, paid)
  \/ \E o \in Orders : WindowEnds(o)

ShopSpec == ShopInit /\ [][ShopNext]_shopVars

-----------------------------------------------------------------------------
(* Properties. *)

(* No set of the shop's writers waits in a circle, which the database would break by killing
   one of them. *)
NoCircularWait ==
  \A S \in (SUBSET Writers) \ {{}} : \E w \in S : BlockedBy(w) \cap S = {}

TakenByOrders == MapThenSumSet(LAMBDA o : order[o].quantity, {o \in Orders : order[o].taken})

Counted == size.there /\ size.stock # NoLimit

Recounted(w) ==
  /\ writer[w].kind = "save" /\ writer'[w] = NoWrite
  /\ product'.version # product.version /\ size'.stock # writer[w].loaded

(* What lies on the shelf and what the open orders hold add up to what the club counted: only a
   number typed anew changes the sum, never an order, a cancellation, or a save of a form that was
   open while somebody ordered. *)
StockConserved ==
  [][Counted /\ Counted' /\ ~(\E w \in Writers : Recounted(w))
       => size'.stock + TakenByOrders' = size.stock + TakenByOrders]_shopVars
=============================================================================

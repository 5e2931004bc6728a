---------------------------- MODULE ReceiptIntake ----------------------------
(***************************************************************************)
(* From the form of a POST request to what a device is told: the form is   *)
(* checked (receipt/serializers.py), the factory makes a receipt of it     *)
(* part by part (receipt/domain), and the Atol adapter turns the receipt   *)
(* into parameters of its driver (hardware/adapters/atol/adapter.py).      *)
(*                                                                         *)
(* Money and quantities are whole numbers: thousandths as they come in a   *)
(* form, cents once they are rounded.  Decimals are computed in a context  *)
(* of 28 digits: numbers below Capacity, 10^28, are held.  Texts are       *)
(* "none", "ok", or what is wrong with them.  A ValueError is an answer    *)
(* 400 (refused), any other exception an answer 500 (crashed).             *)
(***************************************************************************)
EXTENDS Integers, Sequences, Functions

CONSTANTS Forms,     \* what clients may send
          Capacity,  \* the first whole number of too many digits
          Unfit,     \* an infinite amount
          NaN,       \* "NaN", which Decimal takes for an amount
          Rough,     \* a sum known to the first digits only
          None       \* null, or nothing

(* The tables of the domain and of the adapter. *)
ReceiptTypes == {1, 2, 4, 5, 7, 8, 9, 10}
CorrectingTypes == {7, 8, 9, 10}
CommodityTypes == {1, 4}
PaymentStates == {1, 2, 3, 4}
TaxTypes == 0..8
PaymentTypes == {0, 1, 2}
DeviceReceiptTypes == {1, 2, 4, 5, 7, 8, 9, 10}
(* The tax systems have texts for keys. *)
Key(kind, n) == <<kind, n>>
TaxSystems == {Key("text", n) : n \in {1, 2, 4, 8, 16, 32}}

Texts == {"none", "ok", "wrong"}
Asked == Int \cup {Unfit, NaN}
ProductForms == [quantity: Asked, prec: Int \cup {None}, price: Asked,
                 type: Nat, state: Nat, tax: Nat \cup {None}]
PaymentForms == [type: Nat, sum: Asked \cup {None}]
FormTypes ==
    [type: Nat, mistaken: Texts, products: Seq(ProductForms), payments: Seq(PaymentForms),
     tax: Nat, email: Texts, phone: Texts, reason: Texts, date: BOOLEAN, number: Texts]

ASSUME IntakeAssumption ==
    /\ Forms \subseteq FormTypes
    /\ Capacity \in Nat \ {0}
    /\ {Unfit, NaN, Rough, None} \cap Int = {}
    /\ None \notin {Unfit, NaN, Rough} /\ NaN \notin {Unfit, Rough} /\ Rough # Unfit

VARIABLES
    form,     \* what the client has sent
    receipt,  \* the receipt being made
    at,       \* the part that comes next, or how it ended
    told      \* what the device was told

vars == <<form, receipt, at, told>>

Ended == {"refused", "crashed", "unfit", "told"}

-----------------------------------------------------------------------------
(* Rounding, as Decimal.quantize does it with ROUND_HALF_UP: to the nearest multiple, *)
(* and from the middle away from zero. *)
Truncated(x, unit) == IF x >= 0 THEN x \div unit ELSE -((-x) \div unit)
HalfUp(x, unit) == IF x >= 0 THEN (x + unit \div 2) \div unit
                   ELSE -((-x + unit \div 2) \div unit)

(* What is NaN stays NaN, without an error.                                         *)
Cents(x) == IF x = NaN THEN NaN ELSE HalfUp(x, 10)
(* Places of a quantity; a form that has none, or less than none, keeps no fraction. *)
Place(prec) == CASE prec <= 0 -> 1000 [] prec = 1 -> 100 [] prec = 2 -> 10 [] OTHER -> 1
QuantityTruncated(x, prec) == IF x = NaN THEN NaN ELSE Truncated(x, Place(prec)) * Place(prec)
Quantity(x, prec) == IF x = NaN THEN NaN ELSE HalfUp(x, Place(prec)) * Place(prec)

(* get_total_cost.  (That a product of more than 28 digits is itself rounded before is *)
(* left out.)                                                                          *)
CostTruncated(c) ==
    IF NaN \in {c.quantity, c.price} THEN NaN ELSE Truncated(c.quantity * c.price, 1000)
Cost(c) == IF NaN \in {c.quantity, c.price} THEN NaN ELSE HalfUp(c.quantity * c.price, 1000)

(* quantize raises InvalidOperation if the result has more digits than the context. *)
Held(n) == -Capacity < n /\ n < Capacity
SumFits(x) == x # Unfit /\ (x # NaN => Held(Cents(x)))
LastPlaces(x, prec) == IF prec > 3 THEN x * 10^(prec - 3) ELSE HalfUp(x, Place(prec))
QuantityFits(x, prec) == x # Unfit /\ (x # NaN => Held(LastPlaces(x, prec)))
CostFits(c) == Cost(c) # NaN => Held(Cost(c))

(* A sum raises nothing: it loses its last digits. *)
Plus(a, b) == IF NaN \in {a, b} THEN NaN
              ELSE IF Rough \in {a, b} \/ ~Held(a + b) THEN Rough ELSE a + b

-----------------------------------------------------------------------------
(* ReceiptSerializer.validate: what must be there, and not be zero. *)
Complete(f) ==
    /\ f.type # 0 /\ f.products # <<>> /\ f.payments # <<>>
    /\ \A i \in DOMAIN f.products :
          LET p == f.products[i] IN p.quantity # 0 /\ p.price # 0 /\ p.type # 0 /\ p.state # 0

(* CommodityFactory.get_commodity and PaymentFactory.get_payment *)
ProductFitsUntaxed(p) ==
    /\ p.type \in CommodityTypes /\ p.state \in PaymentStates
    /\ QuantityFits(p.quantity, p.prec) /\ SumFits(p.price)
ProductFits(p) ==
    /\ p.type \in CommodityTypes /\ p.state \in PaymentStates /\ p.tax \in TaxTypes \cup {None}
    /\ QuantityFits(p.quantity, p.prec) /\ SumFits(p.price)
Commodity(p) == [quantity |-> Quantity(p.quantity, p.prec), price |-> Cents(p.price),
                 type |-> p.type, state |-> p.state, tax |-> p.tax]
Payment(p) == [type |-> p.type, sum |-> Cents(p.sum)]

(* A receipt: what it is made of, and its totals as they grow. *)
Amounts == Int \cup {NaN}
Sums == Amounts \cup {Rough}
Commodities == [quantity: Amounts, price: Amounts, type: CommodityTypes, state: PaymentStates,
                tax: TaxTypes \cup {None}]
Payments == [type: PaymentTypes, sum: Amounts]
Receipts == [type: ReceiptTypes \cup {0}, mistaken: BOOLEAN,
             commodities: Seq(Commodities), total: Sums, payments: Seq(Payments), paid: Sums,
             tax: Nat, email: BOOLEAN, phone: BOOLEAN]
Empty == [type |-> 0, mistaken |-> FALSE, commodities |-> <<>>, total |-> 0,
          payments |-> <<>>, paid |-> 0, tax |-> 0, email |-> FALSE, phone |-> FALSE]

Init ==
    /\ form \in Forms
    /\ receipt = Empty
    /\ at = "form"
    /\ told = None

Goes(where) == at' = where /\ UNCHANGED <<form, told>>
Stops(where) == Goes(where) /\ UNCHANGED receipt

CheckForm == at = "form" /\ Stops(IF Complete(form) THEN "type" ELSE "refused")

-----------------------------------------------------------------------------
(* ReceiptFromDictFactory.create_receipt *)

Create ==
    /\ at = "type"
    /\ \/ (form.type \notin ReceiptTypes \/ form.mistaken = "wrong") /\ Stops("refused")
       \/ /\ form.type \in ReceiptTypes /\ form.mistaken # "wrong"
          /\ receipt' = [Empty EXCEPT !.type = form.type, !.mistaken = form.mistaken = "ok"]
          /\ Goes("products")

(* The class of a commodity is looked up first; a precision that is null is no number *)
(* to count up to, and a cost of too many digits is no ValueError.                    *)
SetCommodity ==
    LET i == Len(receipt.commodities) + 1
        p == form.products[i]
        c == Commodity(p)
    IN  /\ at = "products"
        /\ \/ i > Len(form.products) /\ Stops("payments")
           \/ /\ i <= Len(form.products) /\ p.type \notin CommodityTypes
              /\ Stops("refused")
           \/ /\ i <= Len(form.products) /\ p.type \in CommodityTypes /\ p.prec = None
              /\ Stops("crashed")
           \/ /\ i <= Len(form.products) /\ p.type \in CommodityTypes /\ p.prec # None
              /\ ~ProductFits(p)
              /\ Stops("refused")
           \/ /\ i <= Len(form.products) /\ p.prec # None /\ ProductFits(p) /\ ~CostFits(c)
              /\ Stops("crashed")
           \/ /\ i <= Len(form.products) /\ p.prec # None /\ ProductFits(p) /\ CostFits(c)
              /\ receipt' = [receipt EXCEPT !.commodities = Append(@, c),
                                            !.total = Plus(@, Cost(c))]
              /\ Goes("products")

(* A sum that is missing is no ValueError for Decimal. *)
SetPayment ==
    LET i == Len(receipt.payments) + 1
        p == form.payments[i]
    IN  /\ at = "payments"
        /\ \/ i > Len(form.payments) /\ Stops("tax")
           \/ /\ i <= Len(form.payments)
              /\ p.type \notin PaymentTypes \/ (p.sum # None /\ ~SumFits(p.sum))
              /\ Stops("refused")
           \/ /\ i <= Len(form.payments) /\ p.type \in PaymentTypes /\ p.sum = None
              /\ Stops("crashed")
           \/ /\ i <= Len(form.payments) /\ p.type \in PaymentTypes
              /\ p.sum # None /\ SumFits(p.sum)
              /\ receipt' = [receipt EXCEPT !.payments = Append(@, Payment(p)),
                                            !.paid = Plus(@, Cents(p.sum))]
              /\ Goes("payments")

(* The map is asked for the number as the form has it; a key it has not is a KeyError. *)
SetTaxSystem ==
    /\ at = "tax"
    /\ IF form.tax = 0 THEN Stops("email")
       ELSE IF Key("number", form.tax) \in TaxSystems
            THEN Goes("email") /\ receipt' = [receipt EXCEPT !.tax = form.tax]
            ELSE Stops("crashed")

SetEmail ==
    /\ at = "email"
    /\ \/ form.email = "wrong" /\ Stops("refused")
       \/ /\ form.email # "wrong"
          /\ receipt' = [receipt EXCEPT !.email = form.email = "ok"]
          /\ Goes("phone")

SetPhone ==
    /\ at = "phone"
    /\ \/ form.phone = "wrong" /\ Stops("refused")
       \/ /\ form.phone # "wrong"
          /\ receipt' = [receipt EXCEPT !.phone = form.phone = "ok"]
          /\ Goes("correction")

(* CorrectionData; but a receipt has no method set_correction_data, and no number is *)
(* no text to take the length of. *)
CorrectionFits(f) == f.reason = "ok" /\ f.date /\ f.number # "wrong"
SetCorrection ==
    /\ at = "correction"
    /\ Stops(CASE receipt.type \notin CorrectingTypes -> "announce"
               [] receipt.type \in CorrectingTypes /\ ~CorrectionFits(form) -> "refused"
               [] OTHER -> "crashed")

(* ReceiptCreated asks every line for its tax, which is none if the form had null. *)
Announce ==
    /\ at = "announce"
    /\ Stops(IF \E i \in DOMAIN receipt.commodities : receipt.commodities[i].tax = None
             THEN "crashed" ELSE "tell")

-----------------------------------------------------------------------------
(* AtlCashRegister._register_receipt, as far as the device takes it: the contact, the *)
(* lines, the payments and the sum of the lines' costs.  (How the driver answers is   *)
(* in AtolDocument.) *)
Telling(r) == [type |-> r.type, mistaken |-> r.mistaken,
               contact |-> IF r.email THEN "email" ELSE IF r.phone THEN "phone" ELSE "None",
               tax |-> r.tax,
               lines |-> r.commodities, payments |-> r.payments, sum |-> r.total]
Tell ==
    /\ at = "tell"
    /\ at' = IF receipt.type \in DeviceReceiptTypes THEN "told" ELSE "unfit"
    /\ told' = IF receipt.type \in DeviceReceiptTypes THEN Telling(receipt) ELSE None
    /\ UNCHANGED <<form, receipt>>

Next == \/ CheckForm \/ Create \/ SetCommodity \/ SetPayment \/ SetTaxSystem
        \/ SetEmail \/ SetPhone \/ SetCorrection \/ Announce \/ Tell
        \/ at \in Ended /\ UNCHANGED vars

Spec == Init /\ [][Next]_vars

-----------------------------------------------------------------------------
(* Properties *)

Tellings == [type: DeviceReceiptTypes, mistaken: BOOLEAN, tax: Nat,
             contact: {"email", "phone", "None"}, lines: Seq(Commodities),
             payments: Seq(Payments), sum: Sums]

TypeOK ==
    /\ form \in FormTypes
    /\ receipt \in Receipts
    /\ at \in Ended \cup {"form", "type", "products", "payments", "tax", "email", "phone",
                          "correction", "announce", "tell"}
    /\ told \in Tellings \cup {None}

(* What the domain finds wrong with a form, whatever it looks at first: numbers the    *)
(* tables have not, amounts of too many digits, but not NaN, *)
WellFormed(f) ==
    /\ Complete(f)
    /\ f.type \in ReceiptTypes
    /\ \A i \in DOMAIN f.products : LET p == f.products[i] IN
          /\ p.type \in CommodityTypes /\ p.state \in PaymentStates
          /\ p.tax # None => p.tax \in TaxTypes
          /\ p.prec # None => QuantityFits(p.quantity, p.prec)
          /\ SumFits(p.price)
    /\ \A i \in DOMAIN f.payments : LET p == f.payments[i] IN
          p.type \in PaymentTypes /\ (p.sum # None => SumFits(p.sum))
    /\ "wrong" \notin {f.mistaken, f.email, f.phone}
    /\ f.type \in CorrectingTypes => CorrectionFits(f)
(* and what it cannot deal with: any tax system, a correction, a missing sum, a null for *)
(* a precision or a tax, and amounts that are fit but too large together. *)
Unforeseen(f) ==
    \/ f.tax # 0
    \/ f.type \in CorrectingTypes
    \/ \E i \in DOMAIN f.payments : f.payments[i].sum = None
    \/ \E i \in DOMAIN f.products : LET p == f.products[i] IN
          None \in {p.prec, p.tax} \/ (ProductFits(p) /\ ~CostFits(Commodity(p)))

(* What is told to a device was well formed in every part; a refusal has a reason in *)
(* the form, a crash is one of those known; and no receipt the factory makes is one  *)
(* the tables of the adapter do not have. *)
Verdict ==
    /\ at = "told" => WellFormed(form) /\ ~Unforeseen(form)
    /\ at = "refused" => ~WellFormed(form)
    /\ at = "crashed" => Unforeseen(form)
    /\ at # "unfit"

Within(x, y, d) == x - y <= d /\ y - x <= d

(* The device is told the lines and payments of the form, each once and in order, with *)
(* prices and sums to the nearest cent and quantities to the nearest of their places;  *)
(* and NaN where the form has it. *)
Nearest(y, x, unit) == IF x = NaN THEN y = NaN ELSE Within(2 * unit * y, 2 * x, unit)
LinesAsAsked ==
    at = "told" =>
        /\ Len(told.lines) = Len(form.products) /\ Len(told.payments) = Len(form.payments)
        /\ \A i \in DOMAIN told.lines :
              LET c == told.lines[i]  p == form.products[i] IN
              /\ <<c.type, c.state, c.tax>> = <<p.type, p.state, p.tax>>
              /\ Nearest(c.price, p.price, 10)
              /\ IF p.quantity = NaN THEN c.quantity = NaN
                 ELSE Within(2 * c.quantity, 2 * p.quantity, Place(p.prec))
        /\ \A i \in DOMAIN told.payments :
              LET c == told.payments[i]  p == form.payments[i] IN
              c.type = p.type /\ Nearest(c.sum, p.sum, 10)

(* The sum it is told is that of the lines it is told, as it would make it out itself: *)
(* within half a cent a line of the exact sum of price by quantity.  It is NaN if one  *)
(* of the lines is, and loses digits only if some first lines come to more than the    *)
(* context holds.                                                                      *)
NoNumber(c) == NaN \in {c.price, c.quantity}
ExactSum(lines, n) == SumFunction([i \in 1..n |-> lines[i].price * lines[i].quantity])
SumIsTrue ==
    at = "told" =>
        LET lines == told.lines IN
        IF \E i \in DOMAIN lines : NoNumber(lines[i]) THEN told.sum = NaN
        ELSE IF told.sum = Rough
        THEN \E n \in DOMAIN lines :
                ~Within(ExactSum(lines, n), 0, 1000 * Capacity - 500 * n - 1)
        ELSE Within(1000 * told.sum, ExactSum(lines, Len(lines)), 500 * Len(lines))
=============================================================================

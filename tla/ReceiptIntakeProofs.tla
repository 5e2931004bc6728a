------------------------- MODULE ReceiptIntakeProofs -------------------------
(* Proofs about ReceiptIntake, for any forms, of any length and with any amounts. *)
EXTENDS ReceiptIntake, FiniteSetTheorems, WellFoundedInduction, TLAPS

-----------------------------------------------------------------------------
(* The inductive invariant: what each part that is behind has made sure of. *)

FromTell == {"tell", "told"}
FromAnnounce == {"announce"} \cup FromTell
FromCorrection == {"correction"} \cup FromAnnounce
FromPhone == {"phone"} \cup FromCorrection
FromEmail == {"email"} \cup FromPhone
FromTax == {"tax"} \cup FromEmail
FromPayments == {"payments"} \cup FromTax
FromProducts == {"products"} \cup FromPayments

(* The receipt is of the form's type, *)
TypeInv ==
    /\ at \in {"form", "type"} => receipt = Empty
    /\ at \in {"type"} \cup FromProducts => Complete(form)
    /\ at \in FromProducts =>
          form.type \in ReceiptTypes /\ receipt.type = form.type /\ form.mistaken # "wrong"

(* has the lines of the form as far as it has gone through them, *)
LineFits(p) == p.prec # None /\ ProductFits(p) /\ CostFits(Commodity(p))
LinesInv ==
    at \in FromProducts =>
        /\ Len(receipt.commodities) <= Len(form.products)
        /\ \A i \in 1..Len(receipt.commodities) :
              /\ LineFits(form.products[i])
              /\ receipt.commodities[i] = Commodity(form.products[i])
        /\ at # "products" => Len(receipt.commodities) = Len(form.products)

(* and the payments, *)
PaymentFits(p) == p.type \in PaymentTypes /\ p.sum # None /\ SumFits(p.sum)
PaymentsInv ==
    /\ at = "products" => receipt.payments = <<>>
    /\ at \in FromPayments =>
        /\ Len(receipt.payments) <= Len(form.payments)
        /\ \A i \in 1..Len(receipt.payments) :
              /\ PaymentFits(form.payments[i])
              /\ receipt.payments[i] = Payment(form.payments[i])
        /\ at # "payments" => Len(receipt.payments) = Len(form.payments)

(* and what comes after has been looked at. *)
TextsInv ==
    /\ at \in FromEmail => form.tax = 0
    /\ at \in FromPhone => form.email # "wrong"
    /\ at \in FromCorrection => form.phone # "wrong"
    /\ at \in FromAnnounce => form.type \notin CorrectingTypes
    /\ at \in FromTell =>
          \A i \in DOMAIN receipt.commodities : receipt.commodities[i].tax # None

EndInv ==
    /\ at = "told" => told = Telling(receipt)
    /\ at # "told" => told = None
    /\ at = "refused" => ~WellFormed(form)
    /\ at = "crashed" => Unforeseen(form)
    /\ at # "unfit"

Inv == TypeInv /\ LinesInv /\ PaymentsInv /\ TextsInv /\ EndInv

-----------------------------------------------------------------------------
(* Rounding *)

(* Of whatever number, negative ones too, HalfUp gives a nearest multiple of the unit. *)
LEMMA HalfUpNearest ==
  ASSUME NEW x \in Int, NEW unit \in {1, 10, 100, 1000}
  PROVE  /\ HalfUp(x, unit) \in Int
         /\ HalfUp(x, unit) * unit \in Int
         /\ Within(2 * (HalfUp(x, unit) * unit), 2 * x, unit)
<1>1. CASE unit = 1
  BY <1>1 DEF HalfUp, Within
<1>2. CASE unit = 10
  BY <1>2 DEF HalfUp, Within
<1>3. CASE unit = 100
  BY <1>3 DEF HalfUp, Within
<1>4. CASE unit = 1000
  BY <1>4 DEF HalfUp, Within
<1> QED
  BY <1>1, <1>2, <1>3, <1>4

(* No number is one of the other amounts. *)
LEMMA NoAmounts ==
  /\ NaN \notin Int /\ Rough \notin Int /\ None \notin Int /\ Unfit \notin Int
  /\ None # NaN /\ None # Unfit /\ NaN # Unfit /\ NaN # Rough
BY IntakeAssumption

(* Cents are an amount, within half a cent of what was asked. *)
LEMMA CentsNear ==
  ASSUME NEW x \in Amounts
  PROVE  Cents(x) \in Amounts /\ Nearest(Cents(x), x, 10)
<1>1. CASE x = NaN
  BY <1>1 DEF Cents, Amounts, Nearest
<1>2. CASE x # NaN
  <2>1. x \in Int
    BY <1>2 DEF Amounts
  <2>2. HalfUp(x, 10) \in Int /\ Within(2 * (HalfUp(x, 10) * 10), 2 * x, 10)
    BY <2>1, HalfUpNearest
  <2>3. Cents(x) = HalfUp(x, 10)
    BY <1>2 DEF Cents
  <2>4. PICK y \in Int : y = HalfUp(x, 10)
    BY <2>2
  <2>5. Within(2 * 10 * y, 2 * x, 10)
    BY <2>1, <2>2, <2>4 DEF Within
  <2> QED
    BY <1>2, <2>3, <2>4, <2>5 DEF Amounts, Nearest
<1> QED
  BY <1>1, <1>2

(* A quantity is within half of its last place. *)
LEMMA QuantityNear ==
  ASSUME NEW x \in Int, NEW prec \in Int
  PROVE  Quantity(x, prec) \in Int /\ Within(2 * Quantity(x, prec), 2 * x, Place(prec))
<1>0. Quantity(x, prec) = HalfUp(x, Place(prec)) * Place(prec)
  BY NoAmounts DEF Quantity
<1>1. CASE prec <= 0
  <2>1. Place(prec) = 1000
    BY <1>1 DEF Place
  <2>2. HalfUp(x, 1000) * 1000 \in Int /\ Within(2 * (HalfUp(x, 1000) * 1000), 2 * x, 1000)
    BY HalfUpNearest
  <2> QED
    BY <1>0, <2>1, <2>2
<1>2. CASE prec = 1
  <2>1. Place(prec) = 100
    BY <1>2 DEF Place
  <2>2. HalfUp(x, 100) * 100 \in Int /\ Within(2 * (HalfUp(x, 100) * 100), 2 * x, 100)
    BY HalfUpNearest
  <2> QED
    BY <1>0, <2>1, <2>2
<1>3. CASE prec = 2
  <2>1. Place(prec) = 10
    BY <1>3 DEF Place
  <2>2. HalfUp(x, 10) * 10 \in Int /\ Within(2 * (HalfUp(x, 10) * 10), 2 * x, 10)
    BY HalfUpNearest
  <2> QED
    BY <1>0, <2>1, <2>2
<1>4. CASE prec > 2
  <2>1. Place(prec) = 1
    BY <1>4 DEF Place
  <2>2. HalfUp(x, 1) * 1 \in Int /\ Within(2 * (HalfUp(x, 1) * 1), 2 * x, 1)
    BY HalfUpNearest
  <2> QED
    BY <1>0, <2>1, <2>2
<1> QED
  BY <1>1, <1>2, <1>3, <1>4

(* The cost of a line is a number if its price and quantity are, and else NaN. *)
LEMMA CostIsInt ==
  ASSUME NEW c \in Commodities
  PROVE  /\ NoNumber(c) => Cost(c) = NaN
         /\ ~NoNumber(c) => c.price \in Int /\ c.quantity \in Int /\ Cost(c) \in Int
<1>1. CASE NoNumber(c)
  BY <1>1 DEF NoNumber, Cost
<1>2. CASE ~NoNumber(c)
  <2>1. c.price \in Int /\ c.quantity \in Int
    BY <1>2 DEF NoNumber, Commodities, Amounts
  <2>2. PICK x \in Int : x = c.quantity * c.price
    BY <2>1
  <2>3. Cost(c) = HalfUp(x, 1000)
    BY <1>2, <2>2 DEF NoNumber, Cost
  <2> QED
    BY <1>2, <2>1, <2>3, HalfUpNearest
<1> QED
  BY <1>1, <1>2

(* So is a sum of two, or it is rough. *)
LEMMA PlusIsSum ==
  ASSUME NEW a \in Sums, NEW b \in Amounts
  PROVE  Plus(a, b) \in Sums
<1>1. a \in Int /\ b \in Int => a + b \in Int
  OBVIOUS
<1> QED
  BY <1>1 DEF Plus, Sums, Amounts

-----------------------------------------------------------------------------
(* What a form is. *)
LEMMA FormFacts ==
  ASSUME NEW f \in FormTypes
  PROVE  /\ f.products \in Seq(ProductForms) /\ f.payments \in Seq(PaymentForms)
         /\ f.type \in Nat /\ f.tax \in Nat
BY DEF FormTypes

(* An element of a sequence. *)
LEMMA ElementOf ==
  ASSUME NEW S, NEW s \in Seq(S), NEW i \in 1..Len(s)
  PROVE  s[i] \in S
OBVIOUS

LEMMA Longer ==
  ASSUME NEW S, NEW s \in Seq(S), NEW e \in S
  PROVE  /\ Append(s, e) \in Seq(S)
         /\ Len(Append(s, e)) = Len(s) + 1
         /\ \A i \in 1..Len(s) : Append(s, e)[i] = s[i]
         /\ Append(s, e)[Len(s) + 1] = e
OBVIOUS

(* A line that fits can be made, *)
LEMMA ProductFacts ==
  ASSUME NEW p \in ProductForms, p.prec # None, ProductFits(p)
  PROVE  /\ p.prec \in Int /\ p.quantity \in Amounts /\ p.price \in Amounts
         /\ Commodity(p) \in Commodities /\ Cost(Commodity(p)) \in Amounts
<1>1. p.prec \in Int
  BY DEF ProductForms
<1>2. p.quantity \in Amounts /\ p.price \in Amounts
  BY DEF ProductFits, ProductForms, QuantityFits, SumFits, Asked, Amounts
<1>3. Quantity(p.quantity, p.prec) \in Amounts
  BY <1>1, <1>2, QuantityNear DEF Amounts, Quantity
<1>4. Cents(p.price) \in Amounts
  BY <1>2, CentsNear
<1>5. Commodity(p) \in Commodities
  BY <1>3, <1>4 DEF Commodity, Commodities, ProductFits
<1> QED
  BY <1>1, <1>2, <1>5, CostIsInt DEF Amounts

(* and a payment. *)
LEMMA PaymentFacts ==
  ASSUME NEW p \in PaymentForms, PaymentFits(p)
  PROVE  p.sum \in Amounts /\ Cents(p.sum) \in Amounts /\ Payment(p) \in Payments
<1>1. p.sum \in Amounts
  BY DEF PaymentFits, PaymentForms, SumFits, Asked, Amounts
<1> QED
  BY <1>1, CentsNear DEF Payment, Payments, PaymentFits

-----------------------------------------------------------------------------
(* Types *)

(* The keys of the tax systems are texts, so no number is one. *)
LEMMA NoSuchKey ==
  ASSUME NEW x
  PROVE  Key("number", x) \notin TaxSystems
<1>1. "number" # "text"
  OBVIOUS
<1> QED
  BY <1>1 DEF Key, TaxSystems

LEMMA TypeInit == Init => TypeOK
<1> SUFFICES ASSUME Init PROVE TypeOK
  OBVIOUS
<1>1. Empty \in Receipts
  BY DEF Empty, Receipts, Sums, Amounts
<1> QED
  BY <1>1, IntakeAssumption DEF Init, TypeOK

LEMMA TypeStep ==
  ASSUME TypeOK, [Next]_vars
  PROVE  TypeOK'
<1> USE DEF Goes, Stops, Ended
<1>1. CASE CheckForm
  BY <1>1 DEF CheckForm, TypeOK
<1>2. CASE Create
  <2>1. CASE Stops("refused")
    BY <1>2, <2>1 DEF Create, TypeOK
  <2>2. CASE ~Stops("refused")
    <3>1. /\ form.type \in ReceiptTypes
          /\ receipt' = [Empty EXCEPT !.type = form.type, !.mistaken = form.mistaken = "ok"]
          /\ Goes("products")
      BY <1>2, <2>2 DEF Create
    <3>2. PICK m \in BOOLEAN : m = (form.mistaken = "ok")
      OBVIOUS
    <3>3. receipt' = [Empty EXCEPT !.type = form.type, !.mistaken = m]
      BY <3>1, <3>2
    <3>4. Empty \in Receipts
      BY DEF Empty, Receipts, Sums, Amounts
    <3>5. receipt' \in Receipts
      BY <3>1, <3>3, <3>4 DEF Receipts
    <3> QED
      BY <3>1, <3>5 DEF TypeOK
  <2> QED
    BY <2>1, <2>2
<1>3. CASE SetCommodity
  <2> DEFINE i == Len(receipt.commodities) + 1
             p == form.products[i]
             c == Commodity(p)
  <2>1. CASE Stops("refused") \/ Stops("crashed") \/ Stops("payments")
    BY <2>1 DEF TypeOK
  <2>2. CASE /\ i <= Len(form.products) /\ p.prec # None /\ ProductFits(p) /\ CostFits(c)
             /\ receipt' = [receipt EXCEPT !.commodities = Append(@, c),
                                           !.total = Plus(@, Cost(c))]
             /\ Goes("products")
    <3>1. form.products \in Seq(ProductForms)
      BY FormFacts DEF TypeOK
    <3>2. receipt.commodities \in Seq(Commodities)
      BY DEF TypeOK, Receipts
    <3>3. i \in 1..Len(form.products)
      BY <2>2, <3>1, <3>2
    <3>4. p \in ProductForms
      BY <3>1, <3>3, ElementOf
    <3>5. c \in Commodities /\ Cost(c) \in Amounts
      BY <2>2, <3>4, ProductFacts
    <3>6. receipt.total \in Sums
      BY DEF TypeOK, Receipts
    <3>7. PICK s \in Seq(Commodities) : s = Append(receipt.commodities, c)
      BY <3>2, <3>5, Longer
    <3>8. PICK n \in Sums : n = Plus(receipt.total, Cost(c))
      BY <3>5, <3>6, PlusIsSum
    <3>10. receipt' = [receipt EXCEPT !.commodities = s, !.total = n]
      BY <2>2, <3>7, <3>8
    <3>11. receipt' \in Receipts
      BY <3>10 DEF Receipts, TypeOK
    <3> QED
      BY <2>2, <3>11 DEF TypeOK
  <2> QED
    BY <1>3, <2>1, <2>2 DEF SetCommodity
<1>4. CASE SetPayment
  <2> DEFINE i == Len(receipt.payments) + 1
             p == form.payments[i]
  <2>1. CASE Stops("refused") \/ Stops("crashed") \/ Stops("tax")
    BY <2>1 DEF TypeOK
  <2>2. CASE /\ i <= Len(form.payments) /\ PaymentFits(p)
             /\ receipt' = [receipt EXCEPT !.payments = Append(@, Payment(p)),
                                           !.paid = Plus(@, Cents(p.sum))]
             /\ Goes("payments")
    <3>1. form.payments \in Seq(PaymentForms)
      BY FormFacts DEF TypeOK
    <3>2. receipt.payments \in Seq(Payments)
      BY DEF TypeOK, Receipts
    <3>3. i \in 1..Len(form.payments)
      BY <2>2, <3>1, <3>2
    <3>4. p \in PaymentForms
      BY <3>1, <3>3, ElementOf
    <3>5. Cents(p.sum) \in Amounts /\ Payment(p) \in Payments
      BY <2>2, <3>4, PaymentFacts
    <3>7. receipt.paid \in Sums
      BY DEF TypeOK, Receipts
    <3>8. PICK s \in Seq(Payments) : s = Append(receipt.payments, Payment(p))
      BY <3>2, <3>5, Longer
    <3>9. PICK n \in Sums : n = Plus(receipt.paid, Cents(p.sum))
      BY <3>5, <3>7, PlusIsSum
    <3>10. receipt' = [receipt EXCEPT !.payments = s, !.paid = n]
      BY <2>2, <3>8, <3>9
    <3>11. receipt' \in Receipts
      BY <3>10 DEF Receipts, TypeOK
    <3> QED
      BY <2>2, <3>11 DEF TypeOK
  <2> QED
    BY <1>4, <2>1, <2>2 DEF SetPayment, PaymentFits
<1>5. CASE SetTaxSystem
  BY <1>5, NoSuchKey DEF SetTaxSystem, TypeOK
<1>6. CASE SetEmail
  <2>1. receipt' \in Receipts
    BY <1>6 DEF SetEmail, TypeOK, Receipts
  <2> QED
    BY <1>6, <2>1 DEF SetEmail, TypeOK
<1>7. CASE SetPhone
  <2>1. receipt' \in Receipts
    BY <1>7 DEF SetPhone, TypeOK, Receipts
  <2> QED
    BY <1>7, <2>1 DEF SetPhone, TypeOK
<1>8. CASE SetCorrection
  BY <1>8 DEF SetCorrection, TypeOK
<1>11. CASE Announce
  BY <1>11 DEF Announce, TypeOK
<1>9. CASE Tell
  <2>1. receipt.type \in DeviceReceiptTypes => Telling(receipt) \in Tellings
    BY DEF Telling, Tellings, Receipts, TypeOK
  <2> QED
    BY <1>9, <2>1 DEF Tell, TypeOK
<1>10. CASE UNCHANGED vars
  BY <1>10 DEF vars, TypeOK
<1> QED
  BY <1>1, <1>2, <1>3, <1>4, <1>5, <1>6, <1>7, <1>8, <1>9, <1>10, <1>11 DEF Next

(* THEOREM TypeCorrect: whatever clients send, what the factory makes of it and what a *)
(* device is told has the types of the domain (receipt.py, products.py, payments.py).  *)
THEOREM TypeCorrect == Spec => []TypeOK
<1>1. TypeOK /\ [Next]_vars => TypeOK'
  BY TypeStep
<1> QED
  BY <1>1, TypeInit, PTL DEF Spec

-----------------------------------------------------------------------------
(* The invariant is kept *)

(* An end that has its reason keeps the invariant: nothing is behind it but the form. *)
LEMMA Ending ==
  ASSUME form' = form, told' = None,
         \/ at' = "refused" /\ ~WellFormed(form)
         \/ at' = "crashed" /\ Unforeseen(form)
  PROVE  Inv'
<1>1. ~(at' \in {"type", "form"} \cup FromProducts)
  BY DEF FromProducts, FromPayments, FromTax, FromEmail, FromPhone, FromCorrection,
         FromAnnounce, FromTell
<1>2. (TypeInv /\ LinesInv /\ PaymentsInv /\ TextsInv)'
  BY <1>1 DEF TypeInv, LinesInv, PaymentsInv, TextsInv, FromProducts, FromPayments, FromTax,
              FromEmail, FromPhone, FromCorrection, FromAnnounce, FromTell
<1>3. (at' = "refused" => ~WellFormed(form)') /\ (at' = "crashed" => Unforeseen(form)')
  BY DEF WellFormed, Unforeseen, Complete
<1>4. EndInv'
  BY <1>3 DEF EndInv
<1> QED
  BY <1>2, <1>4 DEF Inv

(* The parts after the payments leave type, lines and payments alone. *)
LEMMA PartsKept ==
  ASSUME TypeInv, LinesInv, PaymentsInv,
         at \in FromTax, at' \in FromTax, form' = form,
         receipt'.type = receipt.type, receipt'.commodities = receipt.commodities,
         receipt'.payments = receipt.payments
  PROVE  (TypeInv /\ LinesInv /\ PaymentsInv)'
<1> USE DEF FromProducts, FromPayments, FromTax, FromEmail, FromPhone,
            FromCorrection, FromAnnounce, FromTell
<1>1. TypeInv'
  <2>1. Complete(form)'
    BY DEF TypeInv, Complete
  <2> QED
    BY <2>1 DEF TypeInv
<1>2. LinesInv'
  BY DEF LinesInv
<1>3. PaymentsInv'
  BY DEF PaymentsInv
<1> QED
  BY <1>1, <1>2, <1>3

(* A step that goes on, to a part that is no end, keeps what is said of ends. *)
LEMMA GoingOn ==
  ASSUME EndInv, at # "told", told' = told,
         at' \in {"type"} \cup FromProducts, at' # "told"
  PROVE  EndInv'
BY DEF EndInv, FromProducts, FromPayments, FromTax, FromEmail, FromPhone, FromCorrection,
       FromAnnounce, FromTell

(* A line that is not well formed makes the form so, and a payment, *)
LEMMA UnfitLine ==
  ASSUME NEW f, NEW i \in DOMAIN f.products,
         \/ f.products[i].type \notin CommodityTypes
         \/ f.products[i].prec # None /\ ~ProductFits(f.products[i])
  PROVE  ~WellFormed(f)
BY DEF WellFormed, ProductFits

LEMMA UnfitPayment ==
  ASSUME NEW f, NEW i \in DOMAIN f.payments,
         \/ f.payments[i].type \notin PaymentTypes
         \/ f.payments[i].sum # None /\ ~SumFits(f.payments[i].sum)
  PROVE  ~WellFormed(f)
BY DEF WellFormed

(* one that cannot be dealt with makes it unforeseen, *)
LEMMA UnforeseenLine ==
  ASSUME NEW f, NEW i \in DOMAIN f.products,
         \/ None \in {f.products[i].prec, f.products[i].tax}
         \/ ProductFits(f.products[i]) /\ ~CostFits(Commodity(f.products[i]))
  PROVE  Unforeseen(f)
BY DEF Unforeseen

(* and what has been gone through whole is well formed. *)
LEMMA ThroughAll ==
  ASSUME TypeOK, Inv, at \in FromTell
  PROVE  WellFormed(form) /\ ~Unforeseen(form)
<1> USE DEF FromProducts, FromPayments, FromTax, FromEmail, FromPhone,
            FromCorrection, FromAnnounce, FromTell
<1>1. form.products \in Seq(ProductForms) /\ form.payments \in Seq(PaymentForms)
  BY FormFacts DEF TypeOK
<1>2. \A i \in DOMAIN form.products : LineFits(form.products[i])
  <2>1. Len(receipt.commodities) = Len(form.products)
    BY DEF Inv, LinesInv
  <2>2. \A i \in 1..Len(form.products) : LineFits(form.products[i])
    BY <2>1 DEF Inv, LinesInv
  <2>3. DOMAIN form.products = 1..Len(form.products)
    BY <1>1
  <2> QED
    BY <2>2, <2>3
<1>3. \A i \in DOMAIN form.payments : PaymentFits(form.payments[i])
  <2>1. Len(receipt.payments) = Len(form.payments)
    BY DEF Inv, PaymentsInv
  <2>2. \A i \in 1..Len(form.payments) : PaymentFits(form.payments[i])
    BY <2>1 DEF Inv, PaymentsInv
  <2>3. DOMAIN form.payments = 1..Len(form.payments)
    BY <1>1
  <2> QED
    BY <2>2, <2>3
<1>4. /\ Complete(form) /\ form.type \in ReceiptTypes /\ form.tax = 0
      /\ "wrong" \notin {form.mistaken, form.email, form.phone}
      /\ form.type \notin CorrectingTypes
  BY DEF Inv, TypeInv, TextsInv
<1>5. WellFormed(form)
  BY <1>2, <1>3, <1>4 DEF WellFormed, LineFits, ProductFits, PaymentFits
<1>6. \A i \in DOMAIN form.products : form.products[i].tax # None
  <2>1. DOMAIN form.products = DOMAIN receipt.commodities
        /\ DOMAIN form.products = 1..Len(receipt.commodities)
    BY <1>1 DEF Inv, LinesInv, TypeOK, Receipts
  <2>2. ASSUME NEW i \in DOMAIN form.products
        PROVE  form.products[i].tax # None
    <3>1. receipt.commodities[i] = Commodity(form.products[i])
      BY <2>1 DEF Inv, LinesInv
    <3>2. receipt.commodities[i].tax # None
      BY <2>1 DEF Inv, TextsInv
    <3> QED
      BY <3>1, <3>2 DEF Commodity
  <2> QED
    BY <2>2
<1>7. ~Unforeseen(form)
  BY <1>2, <1>3, <1>4, <1>6 DEF Unforeseen, PaymentFits, LineFits
<1> QED
  BY <1>5, <1>7

LEMMA InvInit == Init => Inv
BY DEF Init, Inv, TypeInv, LinesInv, PaymentsInv, TextsInv, EndInv, FromProducts, FromPayments,
       FromTax, FromEmail, FromPhone, FromCorrection, FromAnnounce, FromTell

LEMMA InvStep ==
  ASSUME TypeOK, Inv, [Next]_vars
  PROVE  Inv'
<1> USE DEF FromProducts, FromPayments, FromTax, FromEmail, FromPhone,
            FromCorrection, FromAnnounce, FromTell
<1>0. at \notin Ended => told = None
  BY DEF Inv, EndInv, Ended
<1> USE DEF Ended
<1>1. CASE CheckForm
  <2> USE DEF CheckForm, Goes, Stops
  <2>1. CASE Complete(form)
    <3>1. at = "form" /\ at' = "type" /\ UNCHANGED <<form, told, receipt>>
      BY <1>1, <2>1
    <3>2. Complete(form)'
      BY <2>1, <3>1 DEF Complete
    <3>3. EndInv'
      BY <3>1, GoingOn DEF Inv
    <3> QED
      BY <3>1, <3>2, <3>3 DEF Inv, TypeInv, LinesInv, PaymentsInv, TextsInv
  <2>2. CASE ~Complete(form)
    <3>1. ~WellFormed(form)
      BY <2>2 DEF WellFormed
    <3> QED
      BY <1>0, <1>1, <2>2, <3>1, Ending
  <2> QED
    BY <2>1, <2>2
<1>2. CASE Create
  <2> USE DEF Create, Goes, Stops
  <2>1. CASE form.type \notin ReceiptTypes \/ form.mistaken = "wrong"
    <3>1. ~WellFormed(form)
      BY <2>1 DEF WellFormed
    <3> QED
      BY <1>0, <1>2, <2>1, <3>1, Ending
  <2>2. CASE form.type \in ReceiptTypes /\ form.mistaken # "wrong"
    <3>1. /\ at = "type" /\ at' = "products" /\ form' = form /\ told' = told
          /\ receipt' = [Empty EXCEPT !.type = form.type, !.mistaken = form.mistaken = "ok"]
      BY <1>2, <2>2
    <3>2. /\ receipt'.type = form.type /\ receipt'.commodities = <<>>
          /\ receipt'.payments = <<>>
      BY <3>1 DEF Empty
    <3>3. TypeInv'
      <4>1. Complete(form)'
        BY <3>1 DEF Inv, TypeInv, Complete
      <4> QED
        BY <2>2, <3>1, <3>2, <4>1 DEF TypeInv
    <3>4. LinesInv'
      <4>1. form.products \in Seq(ProductForms)
        BY FormFacts DEF TypeOK
      <4>2. Len(receipt'.commodities) = 0 /\ Len(form.products) \in Nat
        BY <3>2, <4>1
      <4> QED
        BY <3>1, <4>2 DEF LinesInv
    <3>5. PaymentsInv' /\ TextsInv' /\ EndInv'
      BY <3>1, <3>2, GoingOn DEF PaymentsInv, TextsInv, Inv
    <3> QED
      BY <3>3, <3>4, <3>5 DEF Inv
  <2> QED
    BY <2>1, <2>2
<1>3. CASE SetCommodity
  <2> DEFINE i == Len(receipt.commodities) + 1
             p == form.products[i]
             c == Commodity(p)
  <2>0. /\ form.products \in Seq(ProductForms) /\ receipt.commodities \in Seq(Commodities)
        /\ Len(form.products) \in Nat /\ Len(receipt.commodities) \in Nat
        /\ DOMAIN form.products = 1..Len(form.products)
        /\ at = "products" /\ form' = form /\ told' = told
    BY <1>3, FormFacts DEF TypeOK, Receipts, SetCommodity, Goes, Stops
  <2>1. CASE i > Len(form.products) /\ Stops("payments")
    <3>1. at' = "payments" /\ receipt' = receipt
      BY <2>1 DEF Stops, Goes
    <3>2. TypeInv'
      <4>1. Complete(form)'
        BY <2>0 DEF Inv, TypeInv, Complete
      <4> QED
        BY <2>0, <3>1, <4>1 DEF Inv, TypeInv
    <3>3. LinesInv'
      BY <2>0, <2>1, <3>1 DEF Inv, LinesInv
    <3>4. PaymentsInv'
      <4>1. Len(form.payments) \in Nat
        BY FormFacts DEF TypeOK
      <4>2. receipt'.payments = <<>>
        BY <2>0, <3>1 DEF Inv, PaymentsInv
      <4> QED
        BY <2>0, <3>1, <4>1, <4>2 DEF PaymentsInv
    <3>5. TextsInv' /\ EndInv'
      BY <2>0, <3>1, GoingOn DEF TextsInv, Inv
    <3> QED
      BY <3>2, <3>3, <3>4, <3>5 DEF Inv
  <2>4. CASE /\ i <= Len(form.products)
             /\ p.prec = None \/ (ProductFits(p) /\ ~CostFits(c))
             /\ Stops("crashed")
    <3>1. i \in DOMAIN form.products
      BY <2>0, <2>4
    <3>2. Unforeseen(form)
      BY <2>4, <3>1, UnforeseenLine
    <3> QED
      BY <1>0, <2>0, <2>4, <3>2, Ending DEF Stops, Goes
  <2>2. CASE /\ i <= Len(form.products)
             /\ p.type \notin CommodityTypes \/ (p.prec # None /\ ~ProductFits(p))
             /\ Stops("refused")
    <3>1. i \in DOMAIN form.products
      BY <2>0, <2>2
    <3>2. ~WellFormed(form)
      BY <2>2, <3>1, UnfitLine
    <3> QED
      BY <1>0, <2>0, <2>2, <3>2, Ending DEF Stops, Goes
  <2>3. CASE /\ i <= Len(form.products) /\ p.prec # None /\ ProductFits(p) /\ CostFits(c)
             /\ receipt' = [receipt EXCEPT !.commodities = Append(@, c),
                                           !.total = Plus(@, Cost(c))]
             /\ Goes("products")
    <3>1. at' = "products"
      BY <2>3 DEF Goes
    <3>2. /\ receipt'.type = receipt.type /\ receipt'.payments = receipt.payments
          /\ receipt'.commodities = Append(receipt.commodities, c)
      BY <2>3 DEF TypeOK, Receipts
    <3>3. TypeInv'
      <4>1. Complete(form)'
        BY <2>0 DEF Inv, TypeInv, Complete
      <4> QED
        BY <2>0, <3>1, <3>2, <4>1 DEF Inv, TypeInv
    <3>4. LinesInv'
      <4>1. p \in ProductForms
        BY <2>0, <2>3, ElementOf
      <4>2. c \in Commodities
        BY <2>3, <4>1, ProductFacts
      <4>3. /\ Len(receipt'.commodities) = i
            /\ \A j \in 1..Len(receipt.commodities) :
                  receipt'.commodities[j] = receipt.commodities[j]
            /\ receipt'.commodities[i] = c
        BY <2>0, <3>2, <4>2, Longer
      <4>4. ASSUME NEW j \in 1..i
            PROVE  /\ LineFits(form.products[j])
                   /\ receipt'.commodities[j] = Commodity(form.products[j])
        <5>1. CASE j = i
          BY <2>3, <4>3, <5>1 DEF LineFits
        <5>2. CASE j # i
          <6>1. j \in 1..Len(receipt.commodities)
            BY <2>0, <5>2
          <6>2. /\ LineFits(form.products[j])
                /\ receipt.commodities[j] = Commodity(form.products[j])
            BY <2>0, <6>1 DEF Inv, LinesInv
          <6> QED
            BY <4>3, <6>1, <6>2
        <5> QED
          BY <5>1, <5>2
      <4> HIDE DEF i, p, c
      <4>5. i <= Len(form.products)
        BY <2>3
      <4> QED
        BY <2>0, <3>1, <4>3, <4>4, <4>5 DEF LinesInv
    <3>5. PaymentsInv' /\ TextsInv' /\ EndInv'
      BY <2>0, <3>1, <3>2, GoingOn DEF PaymentsInv, TextsInv, Inv
    <3> QED
      BY <3>3, <3>4, <3>5 DEF Inv
  <2> QED
    BY <1>3, <2>1, <2>2, <2>3, <2>4 DEF SetCommodity
<1>4. CASE SetPayment
  <2> DEFINE i == Len(receipt.payments) + 1
             p == form.payments[i]
  <2>0. /\ form.payments \in Seq(PaymentForms) /\ receipt.payments \in Seq(Payments)
        /\ Len(form.payments) \in Nat /\ Len(receipt.payments) \in Nat
        /\ DOMAIN form.payments = 1..Len(form.payments)
        /\ at = "payments" /\ form' = form /\ told' = told
    BY <1>4, FormFacts DEF TypeOK, Receipts, SetPayment, Goes, Stops
  <2>1. CASE i > Len(form.payments) /\ Stops("tax")
    <3>1. at' = "tax" /\ receipt' = receipt
      BY <2>1 DEF Stops, Goes
    <3>2. TypeInv'
      <4>1. Complete(form)'
        BY <2>0 DEF Inv, TypeInv, Complete
      <4> QED
        BY <2>0, <3>1, <4>1 DEF Inv, TypeInv
    <3>3. LinesInv'
      BY <2>0, <3>1 DEF Inv, LinesInv
    <3>4. PaymentsInv'
      BY <2>0, <2>1, <3>1 DEF Inv, PaymentsInv
    <3>5. TextsInv' /\ EndInv'
      BY <2>0, <3>1, GoingOn DEF TextsInv, Inv
    <3> QED
      BY <3>2, <3>3, <3>4, <3>5 DEF Inv
  <2>2. CASE /\ i <= Len(form.payments)
             /\ p.type \notin PaymentTypes \/ (p.sum # None /\ ~SumFits(p.sum))
             /\ Stops("refused")
    <3>1. i \in DOMAIN form.payments
      BY <2>0, <2>2
    <3>2. ~WellFormed(form)
      BY <2>2, <3>1, UnfitPayment
    <3> QED
      BY <1>0, <2>0, <2>2, <3>2, Ending DEF Stops, Goes
  <2>3. CASE i <= Len(form.payments) /\ p.sum = None /\ Stops("crashed")
    <3>1. i \in DOMAIN form.payments
      BY <2>0, <2>3
    <3>2. Unforeseen(form)
      BY <2>3, <3>1 DEF Unforeseen
    <3> QED
      BY <1>0, <2>0, <2>3, <3>2, Ending DEF Stops, Goes
  <2>4. CASE /\ i <= Len(form.payments) /\ PaymentFits(p)
             /\ receipt' = [receipt EXCEPT !.payments = Append(@, Payment(p)),
                                           !.paid = Plus(@, Cents(p.sum))]
             /\ Goes("payments")
    <3>1. at' = "payments"
      BY <2>4 DEF Goes
    <3>2. /\ receipt'.type = receipt.type /\ receipt'.commodities = receipt.commodities
          /\ receipt'.payments = Append(receipt.payments, Payment(p))
      BY <2>4 DEF TypeOK, Receipts
    <3>3. TypeInv'
      <4>1. Complete(form)'
        BY <2>0 DEF Inv, TypeInv, Complete
      <4> QED
        BY <2>0, <3>1, <3>2, <4>1 DEF Inv, TypeInv
    <3>4. LinesInv'
      BY <2>0, <3>1, <3>2 DEF Inv, LinesInv
    <3>5. PaymentsInv'
      <4>1. p \in PaymentForms
        BY <2>0, <2>4, ElementOf
      <4>2. Payment(p) \in Payments
        BY <2>4, <4>1, PaymentFacts
      <4>3. /\ Len(receipt'.payments) = i
            /\ \A j \in 1..Len(receipt.payments) :
                  receipt'.payments[j] = receipt.payments[j]
            /\ receipt'.payments[i] = Payment(p)
        BY <2>0, <3>2, <4>2, Longer
      <4>4. ASSUME NEW j \in 1..i
            PROVE  /\ PaymentFits(form.payments[j])
                   /\ receipt'.payments[j] = Payment(form.payments[j])
        <5>1. CASE j = i
          BY <2>4, <4>3, <5>1
        <5>2. CASE j # i
          <6>1. j \in 1..Len(receipt.payments)
            BY <2>0, <5>2
          <6>2. /\ PaymentFits(form.payments[j])
                /\ receipt.payments[j] = Payment(form.payments[j])
            BY <2>0, <6>1 DEF Inv, PaymentsInv
          <6> QED
            BY <4>3, <6>1, <6>2
        <5> QED
          BY <5>1, <5>2
      <4> HIDE DEF i, p
      <4>5. i <= Len(form.payments)
        BY <2>4
      <4> QED
        BY <2>0, <3>1, <4>3, <4>4, <4>5 DEF PaymentsInv
    <3>6. TextsInv' /\ EndInv'
      BY <2>0, <3>1, GoingOn DEF TextsInv, Inv
    <3> QED
      BY <3>3, <3>4, <3>5, <3>6 DEF Inv
  <2> QED
    BY <1>4, <2>1, <2>2, <2>3, <2>4 DEF SetPayment, PaymentFits
<1>5. CASE SetTaxSystem
  <2> USE DEF SetTaxSystem, Goes, Stops
  <2>1. CASE form.tax = 0
    <3>1. at = "tax" /\ at' = "email" /\ UNCHANGED <<form, told, receipt>>
      BY <1>5, <2>1
    <3>2. (TypeInv /\ LinesInv /\ PaymentsInv)'
      BY <3>1, PartsKept DEF Inv
    <3>3. TextsInv' /\ EndInv'
      BY <2>1, <3>1, GoingOn DEF Inv, TextsInv
    <3> QED
      BY <3>2, <3>3 DEF Inv
  <2>2. CASE form.tax # 0
    <3>1. Unforeseen(form)
      BY <2>2 DEF Unforeseen
    <3> QED
      BY <1>0, <1>5, <2>2, <3>1, NoSuchKey, Ending
  <2> QED
    BY <2>1, <2>2
<1>6. CASE SetEmail
  <2> USE DEF SetEmail, Goes, Stops
  <2>1. CASE form.email = "wrong"
    <3>1. ~WellFormed(form)
      BY <2>1 DEF WellFormed
    <3> QED
      BY <1>6, <2>1, <3>1, <1>0, Ending
  <2>2. CASE form.email # "wrong"
    <3>1. /\ receipt' = [receipt EXCEPT !.email = form.email = "ok"]
          /\ at = "email" /\ at' = "phone" /\ form' = form /\ told' = told
      BY <1>6, <2>2
    <3>2. /\ receipt'.type = receipt.type /\ receipt'.commodities = receipt.commodities
          /\ receipt'.payments = receipt.payments
      BY <3>1 DEF TypeOK, Receipts
    <3>3. (TypeInv /\ LinesInv /\ PaymentsInv)'
      BY <3>1, <3>2, PartsKept DEF Inv
    <3>4. TextsInv' /\ EndInv'
      BY <2>2, <3>1, GoingOn DEF Inv, TextsInv
    <3> QED
      BY <3>3, <3>4 DEF Inv
  <2> QED
    BY <2>1, <2>2
<1>7. CASE SetPhone
  <2> USE DEF SetPhone, Goes, Stops
  <2>1. CASE form.phone = "wrong"
    <3>1. ~WellFormed(form)
      BY <2>1 DEF WellFormed
    <3> QED
      BY <1>7, <2>1, <3>1, <1>0, Ending
  <2>2. CASE form.phone # "wrong"
    <3>1. /\ receipt' = [receipt EXCEPT !.phone = form.phone = "ok"]
          /\ at = "phone" /\ at' = "correction" /\ form' = form /\ told' = told
      BY <1>7, <2>2
    <3>2. /\ receipt'.type = receipt.type /\ receipt'.commodities = receipt.commodities
          /\ receipt'.payments = receipt.payments
      BY <3>1 DEF TypeOK, Receipts
    <3>3. (TypeInv /\ LinesInv /\ PaymentsInv)'
      BY <3>1, <3>2, PartsKept DEF Inv
    <3>4. TextsInv' /\ EndInv'
      BY <2>2, <3>1, GoingOn DEF Inv, TextsInv
    <3> QED
      BY <3>3, <3>4 DEF Inv
  <2> QED
    BY <2>1, <2>2
<1>8. CASE SetCorrection
  <2> USE DEF SetCorrection, CorrectionFits, Goes, Stops
  <2>0. at = "correction" /\ receipt.type = form.type /\ form' = form /\ told' = told
    BY <1>8 DEF Inv, TypeInv
  <2>1. CASE form.type \notin CorrectingTypes
    <3>1. at' = "announce" /\ receipt' = receipt
      BY <1>8, <2>0, <2>1
    <3>2. (TypeInv /\ LinesInv /\ PaymentsInv)'
      BY <2>0, <3>1, PartsKept DEF Inv
    <3>3. TextsInv' /\ EndInv'
      BY <2>0, <2>1, <3>1, GoingOn DEF Inv, TextsInv
    <3> QED
      BY <3>2, <3>3 DEF Inv
  <2>2. CASE /\ form.type \in CorrectingTypes
             /\ form.reason # "ok" \/ ~form.date \/ form.number = "wrong"
    <3>1. ~WellFormed(form)
      BY <2>2 DEF WellFormed
    <3>2. at' = "refused"
      BY <1>8, <2>0, <2>2
    <3> QED
      BY <1>0, <2>0, <3>1, <3>2, Ending
  <2>3. CASE /\ form.type \in CorrectingTypes
             /\ ~(form.reason # "ok" \/ ~form.date \/ form.number = "wrong")
    <3>1. Unforeseen(form)
      BY <2>3 DEF Unforeseen
    <3>2. at' = "crashed"
      BY <1>8, <2>0, <2>3
    <3> QED
      BY <1>0, <2>0, <3>1, <3>2, Ending
  <2> QED
    BY <2>1, <2>2, <2>3
<1>11. CASE Announce
  <2> USE DEF Announce, Goes, Stops
  <2> DEFINE untaxed == \E i \in DOMAIN receipt.commodities : receipt.commodities[i].tax = None
  <2>1. CASE untaxed
    <3>1. PICK i \in DOMAIN receipt.commodities : receipt.commodities[i].tax = None
      BY <2>1
    <3>2. /\ form.products \in Seq(ProductForms) /\ receipt.commodities \in Seq(Commodities)
          /\ Len(receipt.commodities) = Len(form.products) /\ at = "announce"
      BY <1>11, FormFacts DEF TypeOK, Receipts, Inv, LinesInv
    <3>3. i \in 1..Len(receipt.commodities) /\ i \in DOMAIN form.products
      BY <3>2
    <3>4. receipt.commodities[i] = Commodity(form.products[i])
      BY <3>2, <3>3 DEF Inv, LinesInv
    <3>5. form.products[i].tax = None
      BY <3>1, <3>4 DEF Commodity
    <3>6. Unforeseen(form)
      BY <3>3, <3>5, UnforeseenLine
    <3> QED
      BY <1>0, <1>11, <2>1, <3>6, Ending
  <2>2. CASE ~untaxed
    <3>1. at = "announce" /\ at' = "tell" /\ UNCHANGED <<form, told, receipt>>
      BY <1>11, <2>2
    <3>2. (TypeInv /\ LinesInv /\ PaymentsInv)'
      BY <3>1, PartsKept DEF Inv
    <3>3. TextsInv' /\ EndInv'
      BY <2>2, <3>1, GoingOn DEF Inv, TextsInv
    <3> QED
      BY <3>2, <3>3 DEF Inv
  <2> QED
    BY <2>1, <2>2
<1>9. CASE Tell
  <2>1. at = "tell" /\ form' = form /\ receipt' = receipt
    BY <1>9 DEF Tell
  <2>2. receipt.type \in DeviceReceiptTypes
    BY <2>1 DEF Inv, TypeInv, ReceiptTypes, DeviceReceiptTypes
  <2>3. at' = "told" /\ told' = Telling(receipt)
    BY <1>9, <2>2 DEF Tell
  <2>4. (TypeInv /\ LinesInv /\ PaymentsInv)'
    BY <2>1, <2>3, PartsKept DEF Inv
  <2>5. TextsInv'
    BY <2>1, <2>3 DEF Inv, TextsInv
  <2>6. EndInv'
    BY <2>1, <2>3 DEF EndInv, Telling
  <2> QED
    BY <2>4, <2>5, <2>6 DEF Inv
<1>10. CASE UNCHANGED vars
  <2> USE <1>10 DEF vars
  <2>1. TypeInv'
    BY DEF Inv, TypeInv, Complete
  <2>2. LinesInv'
    BY DEF Inv, LinesInv, LineFits, ProductFits, CostFits, Cost, SumFits, QuantityFits, Commodity,
           Quantity, Cents
  <2>3. PaymentsInv'
    BY DEF Inv, PaymentsInv, PaymentFits, SumFits, Payment, Cents
  <2>4. TextsInv'
    BY DEF Inv, TextsInv
  <2>5. WellFormed(form)' <=> WellFormed(form)
    BY DEF WellFormed, Complete, SumFits, QuantityFits
  <2>6. Unforeseen(form)' <=> Unforeseen(form)
    BY DEF Unforeseen, ProductFits, CostFits, Cost, SumFits, QuantityFits, Commodity, Quantity,
           Cents
  <2>7. Telling(receipt)' = Telling(receipt)
    BY DEF Telling
  <2>8. EndInv'
    BY <2>5, <2>6, <2>7 DEF Inv, EndInv
  <2> QED
    BY <2>1, <2>2, <2>3, <2>4, <2>8 DEF Inv
<1> QED
  BY <1>1, <1>2, <1>3, <1>4, <1>5, <1>6, <1>7, <1>8, <1>9, <1>10, <1>11 DEF Next

LEMMA Always == Spec => [](TypeOK /\ Inv)
<1>1. Init => TypeOK /\ Inv
  BY TypeInit, InvInit
<1>2. TypeOK /\ Inv /\ [Next]_vars => (TypeOK /\ Inv)'
  BY TypeStep, InvStep
<1> QED
  BY <1>1, <1>2, PTL DEF Spec

-----------------------------------------------------------------------------
(* Theorems *)

(* THEOREM VerdictIsFair: whatever the forms, a device is told only what was well formed *)
(* in every line and every payment, a client is refused (ValueError, 400) only for       *)
(* something that is wrong in the form, and the factory crashes (500) only on what it    *)
(* cannot deal with; the tables of the adapter have every receipt the factory makes.     *)
THEOREM VerdictIsFair == Spec => []Verdict
<1>1. TypeOK /\ Inv => Verdict
  <2> SUFFICES ASSUME TypeOK, Inv PROVE Verdict
    OBVIOUS
  <2>1. at = "told" => WellFormed(form) /\ ~Unforeseen(form)
    BY ThroughAll DEF FromTell
  <2> QED
    BY <2>1 DEF Inv, EndInv, Verdict
<1> QED
  BY <1>1, Always, PTL

(* What a commodity and a payment have of the form. *)
LEMMA CommodityParts ==
  ASSUME NEW p
  PROVE  LET c == Commodity(p) IN
         /\ c.type = p.type /\ c.state = p.state /\ c.tax = p.tax
         /\ c.price = Cents(p.price) /\ c.quantity = Quantity(p.quantity, p.prec)
BY DEF Commodity

LEMMA PaymentParts ==
  ASSUME NEW p
  PROVE  Payment(p).type = p.type /\ Payment(p).sum = Cents(p.sum)
BY DEF Payment

(* THEOREM NothingIsLost: whatever the amounts and however long the form, the device gets *)
(* the lines and payments of the form, each once and in order, prices and sums to the     *)
(* nearest cent, quantities to the nearest of their places (Decimal.quantize), NaN as NaN. *)
THEOREM NothingIsLost == Spec => []LinesAsAsked
<1>1. TypeOK /\ Inv => LinesAsAsked
  <2> SUFFICES ASSUME TypeOK, Inv, at = "told" PROVE LinesAsAsked
    BY DEF LinesAsAsked
  <2> USE DEF FromProducts, FromPayments, FromTax, FromEmail, FromPhone,
              FromCorrection, FromAnnounce, FromTell
  <2>1. told.lines = receipt.commodities /\ told.payments = receipt.payments
    BY DEF Inv, EndInv, Telling
  <2>2. /\ form.products \in Seq(ProductForms) /\ form.payments \in Seq(PaymentForms)
        /\ receipt.commodities \in Seq(Commodities) /\ receipt.payments \in Seq(Payments)
    BY FormFacts DEF TypeOK, Receipts
  <2>3. Len(receipt.commodities) = Len(form.products) /\ Len(receipt.payments) = Len(form.payments)
    BY DEF Inv, LinesInv, PaymentsInv
  <2>4. ASSUME NEW i \in DOMAIN told.lines
        PROVE  LET c == told.lines[i]  p == form.products[i] IN
               /\ <<c.type, c.state, c.tax>> = <<p.type, p.state, p.tax>>
               /\ Nearest(c.price, p.price, 10)
               /\ IF p.quantity = NaN THEN c.quantity = NaN
                  ELSE Within(2 * c.quantity, 2 * p.quantity, Place(p.prec))
    <3> DEFINE p == form.products[i]
    <3>1. i \in 1..Len(form.products) /\ i \in 1..Len(receipt.commodities)
      BY <2>1, <2>2, <2>3
    <3>2. LineFits(p) /\ told.lines[i] = Commodity(p)
      BY <2>1, <3>1 DEF Inv, LinesInv
    <3>3. p \in ProductForms
      BY <2>2, <3>1, ElementOf
    <3>4. p.prec \in Int /\ p.quantity \in Amounts /\ p.price \in Amounts
      BY <3>2, <3>3, ProductFacts DEF LineFits
    <3>5. Nearest(Cents(p.price), p.price, 10)
      BY <3>4, CentsNear
    <3>6. p.quantity = NaN => Quantity(p.quantity, p.prec) = NaN
      BY DEF Quantity
    <3>7. p.quantity # NaN =>
             Within(2 * Quantity(p.quantity, p.prec), 2 * p.quantity, Place(p.prec))
      BY <3>4, QuantityNear DEF Amounts
    <3> HIDE DEF p
    <3> QED
      BY <3>2, <3>5, <3>6, <3>7, CommodityParts DEF p
  <2>5. ASSUME NEW i \in DOMAIN told.payments
        PROVE  LET c == told.payments[i]  p == form.payments[i] IN
               c.type = p.type /\ Nearest(c.sum, p.sum, 10)
    <3> DEFINE p == form.payments[i]
    <3>1. i \in 1..Len(form.payments) /\ i \in 1..Len(receipt.payments)
      BY <2>1, <2>2, <2>3
    <3>2. PaymentFits(p) /\ told.payments[i] = Payment(p)
      BY <2>1, <3>1 DEF Inv, PaymentsInv
    <3>3. p \in PaymentForms
      BY <2>2, <3>1, ElementOf
    <3>4. p.sum \in Amounts
      BY <3>2, <3>3, PaymentFacts
    <3>5. Nearest(Cents(p.sum), p.sum, 10)
      BY <3>4, CentsNear
    <3> HIDE DEF p
    <3> QED
      BY <3>2, <3>5, PaymentParts DEF p
  <2> QED
    BY <2>1, <2>3, <2>4, <2>5 DEF LinesAsAsked
<1> QED
  BY <1>1, Always, PTL

-----------------------------------------------------------------------------
(* What SumFunction computes *)

(* Induction over the natural numbers, stated with a set. *)
LEMMA Induct ==
  ASSUME NEW T, 0 \in T, \A n \in Nat : n \in T => n + 1 \in T
  PROVE  \A n \in Nat : n \in T
<1> SUFFICES ASSUME NEW k \in Nat, k \notin T PROVE FALSE
  OBVIOUS
<1> DEFINE U == {n \in Nat : n \notin T}
<1>1. IsWellFoundedOn(OpToRel(<, Nat), Nat)
  BY NatLessThanWellFounded
<1>2. U \subseteq Nat /\ U # {}
  OBVIOUS
<1>3. PICK R : R = OpToRel(<, Nat)
  OBVIOUS
<1>4. PICK x \in U : \A y \in U : ~(<<y, x>> \in R)
  <2> HIDE DEF U
  <2> QED
    BY <1>1, <1>2, <1>3, WFMin
<1>5. \A y \in Nat : y < x => <<y, x>> \in R
  BY <1>3, <1>4 DEF OpToRel
<1>6. x # 0 /\ x - 1 \in Nat /\ x - 1 < x /\ (x - 1) + 1 = x
  BY <1>4
<1> QED
  BY <1>4, <1>5, <1>6

(* The fold takes one element after the other, in the order CHOOSE gives them.  Its   *)
(* recursive function is g when g is this of every set of elements, or of every one of *)
(* at most n elements.                                                                 *)
First(s) == CHOOSE x \in s : TRUE
Added(g, f, s) == IF s = {} THEN 0 ELSE f[First(s)] + g[s \ {First(s)}]
Parts(D, n) == {s \in SUBSET D : Cardinality(s) <= n}
AddsUp(g, f, S) == g \in [S -> Int] /\ \A s \in S : g[s] = Added(g, f, s)

LEMMA FirstIn == \A s : s # {} => First(s) \in s
BY DEF First

(* Without an element a part is a smaller one. *)
LEMMA SmallerPart ==
  ASSUME NEW D, IsFiniteSet(D), NEW n \in Nat, NEW s \in Parts(D, n + 1), NEW x \in s
  PROVE  s \ {x} \in Parts(D, n)
<1>1. s \in SUBSET D /\ Cardinality(s) <= n + 1
  BY DEF Parts
<1>2. IsFiniteSet(s) /\ Cardinality(s) \in Nat
  BY <1>1, FS_Subset, FS_CardinalityType
<1>3. Cardinality(s \ {x}) = Cardinality(s) - 1
  BY <1>2, FS_RemoveElement
<1> QED
  BY <1>1, <1>2, <1>3 DEF Parts

(* Of no elements there is the empty part, of all of them there are all parts. *)
LEMMA AllParts ==
  ASSUME NEW D, IsFiniteSet(D)
  PROVE  /\ Parts(D, 0) = {{}}
         /\ Cardinality(D) \in Nat /\ Parts(D, Cardinality(D)) = SUBSET D
         /\ \A n \in Nat : Parts(D, n) \subseteq Parts(D, n + 1)
<1>1. ASSUME NEW s \in SUBSET D
      PROVE  /\ Cardinality(s) \in Nat /\ Cardinality(s) <= Cardinality(D)
             /\ Cardinality(s) = 0 <=> s = {}
  BY FS_Subset, FS_CardinalityType, FS_EmptySet
<1>2. Cardinality(D) \in Nat
  BY FS_CardinalityType
<1>3. Parts(D, 0) = {{}}
  BY <1>1 DEF Parts
<1>4. Parts(D, Cardinality(D)) = SUBSET D
  BY <1>1 DEF Parts
<1>5. \A n \in Nat : Parts(D, n) \subseteq Parts(D, n + 1)
  BY <1>1 DEF Parts
<1> QED
  BY <1>2, <1>3, <1>4, <1>5

(* There is such a function: of the parts with one element more it is made of that of *)
(* the smaller ones. *)
LEMMA SumExists ==
  ASSUME NEW D, IsFiniteSet(D), NEW f \in [D -> Int]
  PROVE  \E g : AddsUp(g, f, SUBSET D)
<1> DEFINE T == {n \in Nat : \E g : AddsUp(g, f, Parts(D, n))}
<1>1. 0 \in T
  <2>1. PICK g : g = [s \in Parts(D, 0) |-> 0]
    OBVIOUS
  <2>2. AddsUp(g, f, Parts(D, 0))
    BY <2>1, AllParts DEF AddsUp, Added
  <2> QED
    BY <2>2
<1>2. ASSUME NEW n \in Nat, n \in T PROVE n + 1 \in T
  <2>1. PICK g : AddsUp(g, f, Parts(D, n))
    BY <1>2
  <2>2. PICK h : h = [s \in Parts(D, n + 1) |-> Added(g, f, s)]
    OBVIOUS
  <2>3. ASSUME NEW s \in Parts(D, n + 1)
        PROVE  h[s] \in Int /\ h[s] = Added(h, f, s)
    <3>1. h[s] = Added(g, f, s)
      BY <2>2
    <3>2. CASE s = {}
      BY <3>1, <3>2 DEF Added
    <3>3. CASE s # {}
      <4>1. First(s) \in s /\ s \subseteq D
        BY <3>3, FirstIn DEF Parts
      <4>2. s \ {First(s)} \in Parts(D, n)
        BY <4>1, SmallerPart
      <4>3. s \ {First(s)} \in Parts(D, n + 1)
        BY <4>2, AllParts
      <4>4. g[s \ {First(s)}] \in Int /\ g[s \ {First(s)}] = Added(g, f, s \ {First(s)})
        BY <2>1, <4>2 DEF AddsUp
      <4>5. h[s \ {First(s)}] = g[s \ {First(s)}]
        BY <2>2, <4>3, <4>4
      <4>6. f[First(s)] \in Int
        BY <4>1
      <4> QED
        BY <3>1, <3>3, <4>4, <4>5, <4>6 DEF Added
    <3> QED
      BY <3>2, <3>3
  <2>4. AddsUp(h, f, Parts(D, n + 1))
    BY <2>2, <2>3 DEF AddsUp
  <2> QED
    BY <2>4
<1> HIDE DEF T
<1>3. Cardinality(D) \in T
  BY <1>1, <1>2, AllParts, Induct
<1>4. \E g : AddsUp(g, f, Parts(D, Cardinality(D)))
  BY <1>3 DEF T
<1>5. Parts(D, Cardinality(D)) = SUBSET D
  BY AllParts
<1> QED
  BY <1>4, <1>5

(* The fold is such a function's value of the whole set. *)
LEMMA SumAddsUp ==
  ASSUME NEW D, IsFiniteSet(D), NEW f \in [D -> Int]
  PROVE  \E g : AddsUp(g, f, SUBSET D) /\ SumFunctionOnSet(f, D) = g[D]
<1> DEFINE Rec(g) == g = [s \in SUBSET D |-> IF s = {} THEN 0
                    ELSE f[CHOOSE x \in s : TRUE] + g[s \ {CHOOSE x \in s : TRUE}]]
<1>1. PICK c : c = CHOOSE g : Rec(g)
  OBVIOUS
<1>2. SumFunctionOnSet(f, D) = c[D]
  BY <1>1 DEF SumFunctionOnSet, FoldFunctionOnSet, MapThenFoldSet
<1>3. PICK g : AddsUp(g, f, SUBSET D)
  BY SumExists
<1>4. Rec(g)
  BY <1>3 DEF AddsUp, Added, First
<1>5. Rec(c)
  <2> HIDE DEF Rec
  <2> QED
    BY <1>1, <1>4
<1>6. \A s \in SUBSET D : c[s] = Added(c, f, s)
  BY <1>5 DEF Added, First
<1> DEFINE T == {n \in Nat : \A s \in Parts(D, n) : c[s] \in Int}
<1>7. 0 \in T
  BY <1>6, AllParts DEF Added
<1>8. ASSUME NEW n \in Nat, n \in T PROVE n + 1 \in T
  <2>1. ASSUME NEW s \in Parts(D, n + 1), s # {} PROVE c[s] \in Int
    <3>1. First(s) \in s /\ s \in SUBSET D
      BY <2>1, FirstIn DEF Parts
    <3>2. c[s \ {First(s)}] \in Int
      BY <1>8, <3>1, SmallerPart
    <3>3. c[s] = f[First(s)] + c[s \ {First(s)}]
      BY <1>6, <2>1, <3>1 DEF Added
    <3>4. f[First(s)] \in Int
      BY <3>1
    <3> QED
      BY <3>2, <3>3, <3>4
  <2>2. c[{}] \in Int
    <3>1. {} \in SUBSET D
      OBVIOUS
    <3>2. c[{}] = Added(c, f, {})
      BY <1>6, <3>1
    <3> QED
      BY <3>2 DEF Added
  <2> QED
    BY <2>1, <2>2
<1> HIDE DEF T
<1>9. Cardinality(D) \in T
  BY <1>7, <1>8, AllParts, Induct
<1>10. \A s \in SUBSET D : c[s] \in Int
  BY <1>9, AllParts DEF T
<1>11. AddsUp(c, f, SUBSET D)
  <2>1. c \in [SUBSET D -> Int]
    BY <1>5, <1>10
  <2> QED
    BY <1>6, <2>1 DEF AddsUp
<1> QED
  BY <1>2, <1>11

(* The order does not matter: whichever element is taken last. *)
TakenLast(g, f, s, x) == g[s] = f[x] + g[s \ {x}]

LEMMA AnyOrder ==
  ASSUME NEW D, IsFiniteSet(D), NEW f \in [D -> Int], NEW g, AddsUp(g, f, SUBSET D),
         NEW whole \in SUBSET D, NEW e \in whole
  PROVE  TakenLast(g, f, whole, e)
<1> DEFINE T == {n \in Nat : \A s \in Parts(D, n) : \A x \in s : g[s] = f[x] + g[s \ {x}]}
<1>1. 0 \in T
  BY AllParts
<1>2. ASSUME NEW n \in Nat, n \in T PROVE n + 1 \in T
  <2>1. ASSUME NEW s \in Parts(D, n + 1), NEW x \in s
        PROVE  g[s] = f[x] + g[s \ {x}]
    <3>1. PICK y : y = First(s)
      OBVIOUS
    <3>2. y \in s /\ s \in SUBSET D /\ y \in D /\ x \in D
      BY <3>1, FirstIn DEF Parts
    <3>3. g[s] = f[y] + g[s \ {y}]
      BY <3>1, <3>2 DEF AddsUp, Added
    <3>4. CASE x = y
      BY <3>3, <3>4
    <3>5. CASE x # y
      <4>1. s \ {x} \in Parts(D, n) /\ s \ {y} \in Parts(D, n)
        BY <3>2, SmallerPart
      <4>2. g[s \ {y}] = f[x] + g[(s \ {y}) \ {x}]
        BY <1>2, <3>5, <4>1
      <4>3. g[s \ {x}] = f[y] + g[(s \ {x}) \ {y}]
        BY <1>2, <3>2, <3>5, <4>1
      <4>4. (s \ {y}) \ {x} = (s \ {x}) \ {y} /\ (s \ {y}) \ {x} \in SUBSET D
        BY <3>2
      <4>5. f[x] \in Int /\ f[y] \in Int /\ g[(s \ {y}) \ {x}] \in Int
        BY <3>2, <4>4 DEF AddsUp
      <4>6. PICK r \in Int : r = g[(s \ {y}) \ {x}] /\ r = g[(s \ {x}) \ {y}]
        BY <4>4, <4>5
      <4> QED
        BY <3>3, <4>2, <4>3, <4>5, <4>6
    <3> QED
      BY <3>4, <3>5
  <2> QED
    BY <2>1
<1> HIDE DEF T
<1>3. Cardinality(D) \in T
  BY <1>1, <1>2, AllParts, Induct
<1> QED
  BY <1>3, AllParts DEF T, TakenLast

(* So the sum of a sequence of numbers is what adding them one after the other gives. *)
LEMMA SumBySteps ==
  ASSUME NEW n \in Nat, NEW f \in [1..n -> Int]
  PROVE  \E S \in [0..n -> Int] : /\ S[0] = 0 /\ S[n] = SumFunction(f)
                                  /\ \A i \in 1..n : S[i] = S[i - 1] + f[i]
<1>1. IsFiniteSet(1..n)
  BY FS_Interval
<1>2. PICK g : AddsUp(g, f, SUBSET (1..n)) /\ SumFunctionOnSet(f, 1..n) = g[1..n]
  BY <1>1, SumAddsUp
<1>3. SumFunction(f) = g[1..n]
  BY <1>2 DEF SumFunction
<1>4. PICK S : S = [i \in 0..n |-> g[1..i]]
  OBVIOUS
<1>5. \A i \in 0..n : 1..i \in SUBSET (1..n)
  OBVIOUS
<1>6. S \in [0..n -> Int]
  BY <1>2, <1>4, <1>5 DEF AddsUp
<1>7. S[0] = 0
  <2>1. 1..0 = {}
    OBVIOUS
  <2>2. g[{}] = 0
    BY <1>2 DEF AddsUp, Added
  <2> QED
    BY <1>4, <2>1, <2>2
<1>8. ASSUME NEW s \in SUBSET (1..n), NEW x \in s
      PROVE  TakenLast(g, f, s, x)
  BY <1>1, <1>2, AnyOrder
<1>9. ASSUME NEW i \in 1..n PROVE S[i] = S[i - 1] + f[i]
  <2>1. i \in 1..i /\ (1..i) \ {i} = 1..(i - 1) /\ i \in 0..n /\ i - 1 \in 0..n
    OBVIOUS
  <2>2. g[1..i] = f[i] + g[1..(i - 1)]
    <3>1. 1..i \in SUBSET (1..n) /\ i \in 1..i
      OBVIOUS
    <3>2. g[1..i] = f[i] + g[(1..i) \ {i}]
      BY <1>8, <3>1 DEF TakenLast
    <3> QED
      BY <2>1, <3>2
  <2>3. S[i] = g[1..i] /\ S[i - 1] = g[1..(i - 1)] /\ S[i - 1] \in Int /\ f[i] \in Int
    BY <1>4, <1>6, <2>1
  <2> QED
    BY <2>2, <2>3
<1>10. S[n] = SumFunction(f)
  BY <1>3, <1>4
<1> QED
  BY <1>6, <1>7, <1>9, <1>10

-----------------------------------------------------------------------------
(* The sum a device is told *)

(* The receipt's total is what adding the costs of its lines one by one comes to, each  *)
(* rounded for itself: exactly, or without its last digits once a sum on the way had    *)
(* too many; but NaN if one of the lines is.                                            *)
CostOf(c) == IF NoNumber(c) THEN 0 ELSE Cost(c)
RunningCosts(t, cs) ==
    /\ t \in [0..Len(cs) -> Int]
    /\ t[0] = 0
    /\ \A i \in 1..Len(cs) : t[i] = t[i - 1] + CostOf(cs[i])
SomeNoNumber(cs) == \E i \in 1..Len(cs) : NoNumber(cs[i])
TotalOf(total, t, cs) ==
    /\ SomeNoNumber(cs) => total = NaN
    /\ ~SomeNoNumber(cs) => \/ total = t[Len(cs)]
                            \/ total = Rough /\ \E k \in 1..Len(cs) : ~Held(t[k])
Totalled(r) == \E t : RunningCosts(t, r.commodities) /\ TotalOf(r.total, t, r.commodities)
TotalInv == Totalled(receipt)

LEMMA CostOfInt == \A c \in Commodities : CostOf(c) \in Int
BY CostIsInt DEF CostOf

LEMMA TotalOfEmpty ==
  ASSUME NEW r, r.commodities = <<>>, r.total = 0
  PROVE  Totalled(r)
<1>1. PICK t : t = [i \in 0..0 |-> 0]
  OBVIOUS
<1>2. RunningCosts(t, <<>>) /\ t[Len(<<>>)] = 0 /\ ~SomeNoNumber(<<>>)
  BY <1>1 DEF RunningCosts, SomeNoNumber
<1> QED
  BY <1>2 DEF Totalled, TotalOf

(* One more line. *)
LEMMA RunningOn ==
  ASSUME NEW cs \in Seq(Commodities), NEW c \in Commodities, NEW t, RunningCosts(t, cs)
  PROVE  \E u : /\ RunningCosts(u, Append(cs, c))
                /\ u[Len(Append(cs, c))] = t[Len(cs)] + CostOf(c)
                /\ \A i \in 1..Len(cs) : u[i] = t[i]
<1>1. PICK n \in Nat : n = Len(cs)
  OBVIOUS
<1>2. PICK ds : ds = Append(cs, c)
  OBVIOUS
<1>3. Len(ds) = n + 1 /\ ds[n + 1] = c /\ \A i \in 1..n : ds[i] = cs[i]
  BY <1>1, <1>2, Longer
<1>4. t \in [0..n -> Int] /\ t[0] = 0 /\ \A i \in 1..n : t[i] = t[i - 1] + CostOf(cs[i])
  BY <1>1 DEF RunningCosts
<1>5. CostOf(c) \in Int /\ t[n] \in Int
  BY <1>4, CostOfInt
<1>6. PICK u : u = [i \in 0..(n + 1) |-> IF i = n + 1 THEN t[n] + CostOf(c) ELSE t[i]]
  OBVIOUS
<1>7. u \in [0..(n + 1) -> Int] /\ u[0] = 0 /\ u[n + 1] = t[n] + CostOf(c)
  <2>1. \A i \in 0..(n + 1) : i # n + 1 => t[i] \in Int
    BY <1>4
  <2> QED
    BY <1>4, <1>5, <1>6, <2>1
<1>8. ASSUME NEW i \in 1..(n + 1) PROVE u[i] = u[i - 1] + CostOf(ds[i])
  <2>1. CASE i = n + 1
    <3>1. u[i - 1] = t[n]
      BY <1>6, <2>1
    <3> QED
      BY <1>3, <1>7, <2>1, <3>1
  <2>2. CASE i # n + 1
    <3>1. i \in 1..n /\ u[i] = t[i] /\ u[i - 1] = t[i - 1]
      BY <1>6, <2>2
    <3> QED
      BY <1>3, <1>4, <3>1
  <2> QED
    BY <2>1, <2>2
<1>9. \A i \in 1..n : u[i] = t[i]
  BY <1>6
<1>10. RunningCosts(u, ds)
  BY <1>3, <1>7, <1>8 DEF RunningCosts
<1>11. u[Len(ds)] = t[n] + CostOf(c)
  BY <1>3, <1>7
<1> QED
  BY <1>1, <1>2, <1>9, <1>10, <1>11

(* A total grows by the cost of the line. *)
LEMMA TotalOn ==
  ASSUME NEW cs \in Seq(Commodities), NEW c \in Commodities, NEW total,
         NEW t, RunningCosts(t, cs), TotalOf(total, t, cs),
         NEW u, RunningCosts(u, Append(cs, c)),
         u[Len(Append(cs, c))] = t[Len(cs)] + CostOf(c),
         \A i \in 1..Len(cs) : u[i] = t[i]
  PROVE  TotalOf(Plus(total, Cost(c)), u, Append(cs, c))
<1>1. PICK n \in Nat : n = Len(cs)
  OBVIOUS
<1>2. PICK ds : ds = Append(cs, c)
  OBVIOUS
<1>3. Len(ds) = n + 1 /\ ds[n + 1] = c /\ \A i \in 1..n : ds[i] = cs[i]
  BY <1>1, <1>2, Longer
<1>4. SomeNoNumber(ds) <=> SomeNoNumber(cs) \/ NoNumber(c)
  BY <1>1, <1>3 DEF SomeNoNumber
<1>5. CASE NoNumber(c)
  <2>1. Plus(total, Cost(c)) = NaN
    BY <1>5, CostIsInt DEF Plus
  <2> QED
    BY <1>2, <1>4, <1>5, <2>1 DEF TotalOf
<1>6. CASE SomeNoNumber(cs)
  <2>1. Plus(total, Cost(c)) = NaN
    BY <1>6 DEF Plus, TotalOf
  <2> QED
    BY <1>2, <1>4, <1>6, <2>1 DEF TotalOf
<1>7. CASE ~NoNumber(c) /\ ~SomeNoNumber(cs)
  <2>1. PICK x \in Int : x = Cost(c) /\ x = CostOf(c)
    BY <1>7, CostIsInt DEF CostOf
  <2>2. PICK y \in Int : y = t[n]
    BY <1>1 DEF RunningCosts
  <2>3. u[n + 1] = y + x
    BY <1>1, <1>2, <1>3, <2>1, <2>2
  <2>4. CASE total = Rough
    <3>1. Plus(total, Cost(c)) = Rough
      BY <2>1, <2>4, NoAmounts DEF Plus
    <3>2. \E k \in 1..n : ~Held(t[k])
      BY <1>1, <1>7, <2>2, <2>4, NoAmounts DEF TotalOf
    <3>3. \E k \in 1..(n + 1) : ~Held(u[k])
      BY <1>1, <3>2
    <3> QED
      BY <1>2, <1>3, <1>4, <1>7, <3>1, <3>3 DEF TotalOf
  <2>5. CASE total = y
    <3>1. Plus(total, Cost(c)) = IF Held(y + x) THEN y + x ELSE Rough
      BY <2>1, <2>5, NoAmounts DEF Plus
    <3>2. ~Held(y + x) => \E k \in 1..(n + 1) : ~Held(u[k])
      BY <2>3
    <3> QED
      BY <1>2, <1>3, <1>4, <1>7, <2>3, <3>1, <3>2 DEF TotalOf
  <2> QED
    BY <1>1, <1>7, <2>2, <2>4, <2>5 DEF TotalOf
<1> QED
  BY <1>5, <1>6, <1>7

LEMMA TotalStep ==
  ASSUME TypeOK, TotalInv, [Next]_vars
  PROVE  TotalInv'
<1>1. CASE Create /\ receipt' # receipt
  <2>1. receipt'.commodities = <<>> /\ receipt'.total = 0
    BY <1>1 DEF Create, Stops, Empty
  <2> QED
    BY <2>1, TotalOfEmpty DEF TotalInv
<1>2. CASE SetCommodity /\ receipt' # receipt
  <2>1. PICK cs \in Seq(Commodities) : cs = receipt.commodities
    BY DEF TypeOK, Receipts
  <2>2. PICK p : p = form.products[Len(cs) + 1]
    OBVIOUS
  <2>3. /\ Len(cs) + 1 <= Len(form.products) /\ p.prec # None /\ ProductFits(p)
        /\ receipt' = [receipt EXCEPT !.commodities = Append(@, Commodity(p)),
                                      !.total = Plus(@, Cost(Commodity(p)))]
    BY <1>2, <2>1, <2>2 DEF SetCommodity, Stops
  <2>4. p \in ProductForms
    <3>1. form.products \in Seq(ProductForms) /\ Len(cs) + 1 \in 1..Len(form.products)
      BY <2>3, FormFacts DEF TypeOK
    <3> QED
      BY <2>2, <3>1, ElementOf
  <2>5. PICK c \in Commodities : c = Commodity(p)
    BY <2>3, <2>4, ProductFacts
  <2>6. receipt'.commodities = Append(cs, c) /\ receipt'.total = Plus(receipt.total, Cost(c))
    BY <2>1, <2>3, <2>5 DEF TypeOK, Receipts
  <2>7. PICK t : RunningCosts(t, cs) /\ TotalOf(receipt.total, t, cs)
    BY <2>1 DEF TotalInv, Totalled
  <2>8. PICK u : /\ RunningCosts(u, Append(cs, c))
                 /\ u[Len(Append(cs, c))] = t[Len(cs)] + CostOf(c)
                 /\ \A i \in 1..Len(cs) : u[i] = t[i]
    BY <2>7, RunningOn
  <2>9. TotalOf(Plus(receipt.total, Cost(c)), u, Append(cs, c))
    BY <2>7, <2>8, TotalOn
  <2> QED
    BY <2>6, <2>8, <2>9 DEF TotalInv, Totalled
<1>3. CASE ~(Create /\ receipt' # receipt) /\ ~(SetCommodity /\ receipt' # receipt)
  <2>1. receipt'.commodities = receipt.commodities /\ receipt'.total = receipt.total
    BY <1>3 DEF Next, CheckForm, SetPayment, SetTaxSystem, SetEmail, SetPhone, SetCorrection,
                Announce, Tell, Stops, vars, TypeOK, Receipts
  <2> QED
    BY <2>1 DEF TotalInv, Totalled
<1> QED
  BY <1>1, <1>2, <1>3

LEMMA TotalAlways == Spec => []TotalInv
<1>1. Init => TotalInv
  BY TotalOfEmpty DEF Init, Empty, TotalInv
<1>2. TypeOK /\ TotalInv /\ [Next]_vars => TotalInv'
  BY TotalStep
<1> QED
  BY <1>1, <1>2, TypeCorrect, PTL DEF Spec

(* The cost of a line of numbers is within half a cent of the exact one, *)
LEMMA CostNear ==
  ASSUME NEW c \in Commodities, ~NoNumber(c)
  PROVE  /\ c.price * c.quantity \in Int
         /\ Cost(c) \in Int /\ CostOf(c) = Cost(c)
         /\ Within(1000 * Cost(c), c.price * c.quantity, 500)
<1>0. c.price \in Int /\ c.quantity \in Int
  BY CostIsInt
<1>1. PICK x \in Int : x = c.quantity * c.price /\ x = c.price * c.quantity
  BY <1>0
<1>2. HalfUp(x, 1000) \in Int /\ Within(2 * (HalfUp(x, 1000) * 1000), 2 * x, 1000)
  BY HalfUpNearest
<1>3. Cost(c) = HalfUp(x, 1000)
  BY <1>1 DEF Cost, NoNumber
<1>4. CostOf(c) = Cost(c)
  BY DEF CostOf
<1> QED
  BY <1>1, <1>2, <1>3, <1>4 DEF Within

(* and as many lines are as many halves off at most. *)
LEMMA CostsNear ==
  ASSUME NEW cs \in Seq(Commodities), NEW t, RunningCosts(t, cs),
         ~SomeNoNumber(cs), NEW n \in 0..Len(cs)
  PROVE  /\ t[n] \in Int /\ ExactSum(cs, n) \in Int
         /\ Within(1000 * t[n], ExactSum(cs, n), 500 * n)
<1>1. n \in Nat /\ Len(cs) \in Nat /\ n <= Len(cs)
  OBVIOUS
<1>2. PICK f : f = [i \in 1..n |-> cs[i].price * cs[i].quantity]
  OBVIOUS
<1>3. \A i \in 1..n : cs[i] \in Commodities /\ ~NoNumber(cs[i])
  BY <1>1, ElementOf DEF SomeNoNumber
<1>4. f \in [1..n -> Int]
  BY <1>2, <1>3, CostNear
<1>5. PICK S \in [0..n -> Int] : /\ S[0] = 0 /\ S[n] = SumFunction(f)
                                 /\ \A i \in 1..n : S[i] = S[i - 1] + f[i]
  BY <1>1, <1>4, SumBySteps
<1>6. /\ \A i \in 0..n : t[i] \in Int
      /\ t[0] = 0 /\ \A i \in 1..n : t[i] = t[i - 1] + CostOf(cs[i])
  <2>1. PICK m \in Nat : m = Len(cs) /\ n <= m
    BY <1>1
  <2>2. t \in [0..m -> Int] /\ t[0] = 0 /\ \A i \in 1..m : t[i] = t[i - 1] + CostOf(cs[i])
    BY <2>1 DEF RunningCosts
  <2>3. 0..n \subseteq 0..m /\ 1..n \subseteq 1..m
    BY <1>1, <2>1
  <2> QED
    BY <2>2, <2>3
<1> DEFINE T == {i \in Nat : i <= n => Within(1000 * t[i], S[i], 500 * i)}
<1>7. 0 \in T
  BY <1>5, <1>6 DEF Within
<1>8. ASSUME NEW i \in Nat, i \in T PROVE i + 1 \in T
  <2> SUFFICES ASSUME i + 1 <= n
               PROVE  Within(1000 * t[i + 1], S[i + 1], 500 * (i + 1))
    OBVIOUS
  <2>1. i \in 0..n /\ i + 1 \in 1..n /\ (i + 1) - 1 = i
    BY <1>1
  <2>2. Within(1000 * t[i], S[i], 500 * i)
    BY <1>8, <2>1
  <2>3. PICK a \in Int, b \in Int : a = t[i] /\ b = S[i]
    BY <1>5, <1>6, <2>1
  <2>4. PICK c \in Commodities : c = cs[i + 1] /\ ~NoNumber(c) /\ f[i + 1] = c.price * c.quantity
    BY <1>2, <1>3, <2>1
  <2>5. PICK x \in Int : x = Cost(c) /\ x = CostOf(c)
    BY <2>4, CostNear
  <2>6. PICK y \in Int : y = c.price * c.quantity
    BY <2>4, CostNear
  <2>7. Within(1000 * x, y, 500)
    BY <2>4, <2>5, <2>6, CostNear
  <2>8. t[i + 1] = a + x /\ S[i + 1] = b + y
    BY <1>5, <1>6, <2>1, <2>3, <2>4, <2>5, <2>6
  <2>9. Within(1000 * a, b, 500 * i)
    BY <2>2, <2>3
  <2>10. Within(1000 * (a + x), b + y, 500 * (i + 1))
    BY <2>7, <2>9 DEF Within
  <2> QED
    BY <2>8, <2>10
<1> HIDE DEF T
<1>9. n \in T
  BY <1>1, <1>7, <1>8, Induct
<1>10. Within(1000 * t[n], S[n], 500 * n)
  BY <1>1, <1>9 DEF T
<1>11. S[n] = ExactSum(cs, n)
  BY <1>2, <1>5 DEF ExactSum
<1>12. t[n] \in Int /\ S[n] \in Int
  BY <1>1, <1>5, <1>6
<1> QED
  BY <1>10, <1>11, <1>12

(* THEOREM SumIsRight: however many lines a form has and whatever they cost, the sum that *)
(* a device is told (get_total_cost, added up by add_commodity) is within half a cent a   *)
(* line of the exact sum of price by quantity of the lines it is told; it is NaN if a     *)
(* line is, and rough only if some first lines come to more than the context holds.       *)
THEOREM SumIsRight == Spec => []SumIsTrue
<1>1. TypeOK /\ Inv /\ TotalInv => SumIsTrue
  <2> SUFFICES ASSUME TypeOK, Inv, TotalInv, at = "told" PROVE SumIsTrue
    BY DEF SumIsTrue
  <2>1. PICK cs \in Seq(Commodities) : cs = receipt.commodities
    BY DEF TypeOK, Receipts
  <2>2. told.lines = cs /\ told.sum = receipt.total
    BY <2>1 DEF Inv, EndInv, Telling
  <2>3. PICK t : RunningCosts(t, cs) /\ TotalOf(told.sum, t, cs)
    BY <2>1, <2>2 DEF TotalInv, Totalled
  <2>4. PICK m \in Nat : m = Len(cs) /\ DOMAIN cs = 1..m
    OBVIOUS
  <2>5. (\E i \in DOMAIN cs : NoNumber(cs[i])) <=> SomeNoNumber(cs)
    BY <2>4 DEF SomeNoNumber
  <2>6. CASE SomeNoNumber(cs)
    <3>1. told.sum = NaN
      BY <2>3, <2>6 DEF TotalOf
    <3> QED
      BY <2>2, <2>5, <2>6, <3>1 DEF SumIsTrue
  <2>7. CASE ~SomeNoNumber(cs)
    <3>1. \A n \in 0..m : /\ t[n] \in Int /\ ExactSum(cs, n) \in Int
                          /\ Within(1000 * t[n], ExactSum(cs, n), 500 * n)
      BY <2>3, <2>4, <2>7, CostsNear
    <3>2. CASE told.sum = Rough
      <4>1. t[m] \in Int
        BY <2>4, <3>1
      <4>2. PICK n \in 1..m : ~Held(t[n])
        BY <2>3, <2>4, <2>7, <3>2, <4>1, NoAmounts DEF TotalOf
      <4>3. PICK a \in Int, b \in Int : a = t[n] /\ b = ExactSum(cs, n)
        BY <3>1
      <4>4. Within(1000 * a, b, 500 * n) /\ ~Held(a)
        BY <3>1, <4>2, <4>3
      <4>5. ~Within(b, 0, 1000 * Capacity - 500 * n - 1)
        BY <4>4, IntakeAssumption DEF Within, Held
      <4>6. \E k \in DOMAIN cs : ~Within(ExactSum(cs, k), 0, 1000 * Capacity - 500 * k - 1)
        BY <2>4, <4>3, <4>5
      <4> QED
        BY <2>2, <2>5, <2>7, <3>2, <4>6 DEF SumIsTrue
    <3>3. CASE told.sum # Rough
      <4>1. told.sum = t[m]
        BY <2>3, <2>4, <2>7, <3>3 DEF TotalOf
      <4>2. Within(1000 * told.sum, ExactSum(cs, Len(cs)), 500 * Len(cs))
        BY <2>4, <3>1, <4>1
      <4> QED
        BY <2>2, <2>5, <2>7, <3>3, <4>2 DEF SumIsTrue
    <3> QED
      BY <3>2, <3>3
  <2> QED
    BY <2>6, <2>7
<1> QED
  BY <1>1, Always, TotalAlways, PTL
=============================================================================

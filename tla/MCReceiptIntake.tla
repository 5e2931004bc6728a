--------------------------- MODULE MCReceiptIntake ---------------------------
(* Small forms for ReceiptIntake: what is wrong with one is in a line, in a payment, *)
(* in the texts, or in several of them. *)
EXTENDS ReceiptIntake, SequencesExt

Line(q, prec, p) == [quantity |-> q, prec |-> prec, price |-> p, type |-> 1, state |-> 4,
                     tax |-> 6]
(* Pieces, weights, a return, halves of a place, of a cent and of the cost; more places *)
(* than an amount has; two of the last kind are more than the context holds. *)
GoodLines == {Line(1500, 0, 99990), Line(2700, 0, 10), Line(335, 3, 20), Line(-2250, 1, 1005),
              Line(125, 4, 3334), Line(6000, 0, 99990)}
NoNumbers == {Line(NaN, 2, 10), Line(1000, 0, NaN)}
(* What the tables have not, what is missing, what has too many digits. *)
BadLines == {[Line(1000, 0, 10) EXCEPT !.type = 2], [Line(1000, 0, 10) EXCEPT !.state = 5],
             [Line(1000, 0, 10) EXCEPT !.tax = 9], [Line(1000, 0, 10) EXCEPT !.tax = None],
             Line(Unfit, 0, 10), Line(0, 0, 10), Line(1000, None, 10), Line(1000, 5, 10),
             Line(1000, 0, 1000000), Line(2000, 0, 990000)}
Pays == [type: {0, 3}, sum: {1005, 600000, 1000000, Unfit, NaN, None}]

Form(type, products, payments) ==
    [type |-> type, mistaken |-> "none", products |-> products, payments |-> payments,
     tax |-> 0, email |-> "ok", phone |-> "none", reason |-> "none", date |-> FALSE,
     number |-> "none"]

SomeForms ==
    (* amounts and lines *)
    {Form(1, s, <<[type |-> 1, sum |-> 1004]>>) : s \in SeqOf(GoodLines \cup NoNumbers \cup BadLines, 2)}
    \cup {Form(2, s, <<[type |-> 0, sum |-> -1005]>>) : s \in SeqOf(GoodLines \cup NoNumbers, 3)}
    \cup {Form(type, <<Line(1000, 0, 10)>>, s) : type \in {4, 7}, s \in SeqOf(Pays, 2)}
    (* texts, and what a correction needs, in receipts of all types, and of none *)
    \cup {[Form(type, <<Line(1000, 0, 10)>>, <<[type |-> 2, sum |-> 10]>>)
             EXCEPT !.mistaken = mistaken, !.tax = tax, !.email = email, !.phone = phone] :
             type \in {5, 6}, mistaken \in Texts, tax \in {0, 1, 3},
             email \in Texts, phone \in Texts}
    \cup {[Form(type, <<Line(1000, 0, 10)>>, <<[type |-> 2, sum |-> 10]>>)
             EXCEPT !.reason = reason, !.date = date, !.number = number] :
             type \in 0..10, reason \in Texts, date \in BOOLEAN, number \in Texts}
=============================================================================

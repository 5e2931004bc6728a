-------------------------- MODULE AtolDocumentProofs --------------------------
(* Proofs about AtolDocument, for any receipts, calls for the shift, numbers of *)
(* goods, payments and polls, and faults. *)
EXTENDS AtolDocument, FiniteSetTheorems, TLAPS

-----------------------------------------------------------------------------
(* The inductive invariant *)

(* What the adapter does for a receipt, and for the shift; the ends are common. *)
ReceiptSteps == {"isOpened", "check", "clear", "prepare", "open", "goods", "pays", "total",
                 "takeBack", "close", "fiscalData", "cancel"}
ShiftSteps == {"openShift", "report", "poll", "readShift"}
(* The document may be on paper from here on. *)
Behind == {"fiscalData", "return", "cancel", "raise"}

(* The first k lines of a receipt. *)
KindOf(i) == IF i <= Goods THEN "good" ELSE IF i <= Goods + Payments THEN "pay" ELSE "total"
Expected(r, k) == [i \in 1..k |-> [of |-> r, kind |-> KindOf(i)]]
All == Goods + Payments + 1

(* The adapter is where it is for a call of that kind, which has no answer yet. *)
CallInv ==
    /\ at \in ReceiptSteps => current \in Receipts
    /\ at \in ShiftSteps => current \in ShiftCalls
    /\ current # None => told[current] = "none"

(* The open document has just the lines that have been registered; in test mode it *)
(* is never closed. *)
DocInv ==
    /\ at = "goods" => n <= Goods /\ doc = Expected(current, n)
    /\ at = "pays" => n <= Payments /\ doc = Expected(current, Goods + n)
    /\ at = "total" => doc = Expected(current, Goods + Payments)
    /\ at \in {"takeBack", "close"} => doc = Expected(current, All)
    /\ at = "takeBack" => testMode
    /\ at = "close" => ~testMode
    /\ at \in {"report", "poll"} => n < Polls

(* A document on paper is whole, and its receipt has been told, or is about to be. *)
PaperInv ==
    \A i \in 1..Len(papers) :
        /\ \E r \in Receipts : papers[i] = Expected(r, All)
        /\ told[Owner(papers[i])] # "none" \/ (Owner(papers[i]) = current /\ at \in Behind)

(* The outcome that is about to be told is true. *)
OnPaper(r) == \E i \in 1..Len(papers) : Owner(papers[i]) = r
OutcomeInv ==
    /\ at = "fiscalData" => OnPaper(current) /\ (reached \/ lossy)
    /\ at = "return" /\ current \in Receipts => OnPaper(current) \/ testMode
    /\ at \in {"cancel", "raise"} => ~OnPaper(current) \/ lossy

(* No receipt is on paper twice. *)
OnceInv == \A i, j \in 1..Len(papers) : Owner(papers[i]) = Owner(papers[j]) => i = j

Inv == CallInv /\ DocInv /\ PaperInv /\ OutcomeInv /\ OnceInv
IInv == TypeOK /\ Inv

-----------------------------------------------------------------------------
(* Documents *)

(* Another line of the right kind is what is expected next, *)
LEMMA NextLine ==
  ASSUME NEW r, NEW k \in Nat
  PROVE  Append(Expected(r, k), [of |-> r, kind |-> KindOf(k + 1)]) = Expected(r, k + 1)
<1> DEFINE e == [of |-> r, kind |-> KindOf(k + 1)]
<1>1. Expected(r, k) \in Seq({Expected(r, k + 1)[i] : i \in 1..(k + 1)}) /\ Len(Expected(r, k)) = k
  BY DEF Expected
<1>2. Append(Expected(r, k), e) = [i \in 1..(k + 1) |-> IF i <= k THEN Expected(r, k)[i] ELSE e]
  BY <1>1
<1> QED
  BY <1>2 DEF Expected

(* the lines are such as receipts have, *)
LEMMA ExpectedLines ==
  ASSUME NEW r \in Receipts, NEW k \in Nat
  PROVE  Expected(r, k) \in Seq(Lines) /\ Len(Expected(r, k)) = k
BY DEF Expected, Lines, KindOf

(* (What a concatenation is.) *)
LEMMA Concatenated ==
  ASSUME NEW S, NEW a \in Seq(S), NEW b \in Seq(S)
  PROVE  /\ a \o b \in Seq(S) /\ Len(a \o b) = Len(a) + Len(b)
         /\ \A i \in 1..(Len(a) + Len(b)) :
                (a \o b)[i] = IF i <= Len(a) THEN a[i] ELSE b[i - Len(a)]
OBVIOUS

(* and all of them are the whole of the receipt. *)
LEMMA AllIsWhole ==
  ASSUME NEW r
  PROVE  WholeOf(r, Expected(r, All)) /\ Owner(Expected(r, All)) = r
<1>1. Goods \in Nat /\ Payments \in Nat /\ All \in Nat
  BY DocumentAssumption DEF All
<1> DEFINE g == [i \in 1..Goods |-> [of |-> r, kind |-> "good"]]
           p == [i \in 1..Payments |-> [of |-> r, kind |-> "pay"]]
           t == <<[of |-> r, kind |-> "total"]>>
           S == {[of |-> r, kind |-> k] : k \in {"good", "pay", "total"}}
<1>2. g \in Seq(S) /\ p \in Seq(S) /\ t \in Seq(S) /\ Len(g) = Goods /\ Len(p) = Payments /\ Len(t) = 1
  BY <1>1
<1>3. Len(Expected(r, All)) = All /\ Expected(r, All) \in Seq(S)
  BY <1>1 DEF Expected, KindOf
<1>4. /\ g \o p \in Seq(S) /\ Len(g \o p) = Goods + Payments
      /\ \A i \in 1..(Goods + Payments) : (g \o p)[i] = IF i <= Goods THEN g[i] ELSE p[i - Goods]
  BY <1>1, <1>2
<1>5. /\ (g \o p) \o t \in Seq(S) /\ Len((g \o p) \o t) = All
      /\ \A i \in 1..All : ((g \o p) \o t)[i] = IF i <= Goods + Payments THEN (g \o p)[i] ELSE t[1]
  <2> DEFINE h == g \o p
  <2>1. h \in Seq(S) /\ t \in Seq(S) /\ Len(h) = Goods + Payments /\ Len(t) = 1
    BY <1>2, <1>4
  <2> HIDE DEF h, t, S
  <2>2. /\ h \o t \in Seq(S) /\ Len(h \o t) = Len(h) + Len(t)
        /\ \A i \in 1..(Len(h) + Len(t)) : (h \o t)[i] = IF i <= Len(h) THEN h[i] ELSE t[i - Len(h)]
    BY <2>1, Concatenated
  <2>3. Len(h) + Len(t) = All
    BY <2>1 DEF All
  <2>4. ASSUME NEW i \in 1..All PROVE (h \o t)[i] = IF i <= Goods + Payments THEN h[i] ELSE t[1]
    <3>1. (h \o t)[i] = IF i <= Len(h) THEN h[i] ELSE t[i - Len(h)]
      BY <2>2, <2>3
    <3>2. i > Len(h) => i - Len(h) = 1
      BY <1>1, <2>1, <2>3
    <3> QED
      BY <1>1, <2>1, <3>1, <3>2
  <2>5. /\ h \o t \in Seq(S) /\ Len(h \o t) = All
        /\ \A i \in 1..All : (h \o t)[i] = IF i <= Goods + Payments THEN h[i] ELSE t[1]
    BY <2>2, <2>3, <2>4
  <2> QED
    BY <2>5 DEF h
<1>6. \A i \in 1..All : ((g \o p) \o t)[i] = Expected(r, All)[i]
  <2> SUFFICES ASSUME NEW i \in 1..All PROVE ((g \o p) \o t)[i] = Expected(r, All)[i]
    OBVIOUS
  <2>1. Expected(r, All)[i] = [of |-> r, kind |-> KindOf(i)]
    BY DEF Expected
  <2>2. CASE i <= Goods
    BY <1>1, <1>4, <1>5, <2>1, <2>2 DEF KindOf
  <2>3. CASE i > Goods /\ i <= Goods + Payments
    <3>1. (g \o p)[i] = p[i - Goods] /\ i - Goods \in 1..Payments
      BY <1>1, <1>4, <2>3
    <3> QED
      BY <1>1, <1>5, <2>1, <2>3, <3>1 DEF KindOf
  <2>4. CASE i > Goods + Payments
    BY <1>1, <1>5, <2>1, <2>4 DEF KindOf
  <2>5. i \in Nat
    BY <1>1
  <2>6. i <= Goods \/ (i > Goods /\ i <= Goods + Payments) \/ i > Goods + Payments
    BY <1>1, <2>5
  <2> QED
    BY <2>2, <2>3, <2>4, <2>6
<1>7. (g \o p) \o t = Expected(r, All)
  <2> HIDE DEF g, p, t, S
  <2> QED
    BY <1>3, <1>5, <1>6
<1>8. Expected(r, All)[All].of = r
  BY <1>1 DEF Expected, All
<1> QED
  BY <1>3, <1>7, <1>8 DEF WholeOf, Owner

-----------------------------------------------------------------------------
(* Every step keeps the invariant *)

LEMMA InvInit == Init => IInv
<1> SUFFICES ASSUME Init PROVE IInv
  OBVIOUS
<1>1. TypeOK
  BY DocumentAssumption DEF Init, TypeOK, Steps, Lines
<1>2. at = "idle" /\ current = None /\ papers = <<>>
  BY DEF Init
<1>3. CallInv /\ DocInv
  BY <1>2 DEF CallInv, DocInv, ReceiptSteps, ShiftSteps
<1>4. PaperInv /\ OnceInv
  BY <1>2 DEF PaperInv, OnceInv
<1>5. OutcomeInv
  BY <1>2 DEF OutcomeInv
<1> QED
  BY <1>1, <1>3, <1>4, <1>5 DEF IInv, Inv

-----------------------------------------------------------------------------
(* The kinds of steps *)

(* A step says nothing to the caller and issues nothing, *)
Quiet == /\ papers' = papers /\ told' = told
         /\ at \in Behind => current' = current /\ at' \in Behind

(* or it tells an outcome, which is true, *)
Answer(a) == /\ current \in Receipts \cup ShiftCalls
             /\ a = "ok" /\ current \in Receipts => OnPaper(current) \/ testMode
             /\ a = "failed" => ~OnPaper(current) \/ lossy
             /\ told' = [told EXCEPT ![current] = a]
             /\ papers' = papers
             /\ at' = "idle"
Answers == Answer("ok") \/ Answer("failed")

(* or it puts the whole of a receipt on paper. *)
Prints == /\ current \in Receipts /\ at \notin Behind /\ ~testMode
          /\ papers' = Append(papers, Expected(current, All))
          /\ told' = told /\ current' = current /\ at' \in Behind

Kinds == Quiet \/ Answers \/ Prints

(* Before the receipt is closed, it is not on paper. *)
LEMMA NotYet ==
  ASSUME IInv, current # None, at \notin Behind
  PROVE  ~OnPaper(current)
BY DEF IInv, Inv, CallInv, PaperInv, OnPaper

(* A paper is a receipt's. *)
LEMMA OwnerIsReceipt ==
  ASSUME IInv, NEW i \in 1..Len(papers)
  PROVE  Owner(papers[i]) \in Receipts
BY AllIsWhole DEF IInv, Inv, PaperInv

(* The three kinds keep the papers as they must be. *)
LEMMA QuietKeeps ==
  ASSUME IInv, Quiet
  PROVE  PaperInv' /\ OnceInv' /\ \A r : (\E i \in 1..Len(papers') : Owner(papers'[i]) = r) <=> OnPaper(r)
BY DEF IInv, Inv, PaperInv, OnceInv, OnPaper, Quiet

LEMMA AnswersKeep ==
  ASSUME IInv, Answers
  PROVE  PaperInv' /\ OnceInv'
<1>1. PICK a \in {"ok", "failed"} : Answer(a)
  BY DEF Answers
<1>2. \A i \in 1..Len(papers) :
         told'[Owner(papers[i])] # "none"
  <2> SUFFICES ASSUME NEW i \in 1..Len(papers) PROVE told'[Owner(papers[i])] # "none"
    OBVIOUS
  <2>1. told[Owner(papers[i])] # "none" \/ Owner(papers[i]) = current
    BY DEF IInv, Inv, PaperInv
  <2>2. /\ Owner(papers[i]) \in Receipts \cup ShiftCalls
        /\ told \in [Receipts \cup ShiftCalls -> {"none", "ok", "failed"}]
    BY OwnerIsReceipt DEF IInv, TypeOK
  <2>3. told' = [told EXCEPT ![current] = a] /\ current \in Receipts \cup ShiftCalls
    BY <1>1 DEF Answer
  <2> QED
    BY <2>1, <2>2, <2>3
<1>3. papers' = papers
  BY <1>1 DEF Answer
<1> QED
  BY <1>2, <1>3 DEF IInv, Inv, PaperInv, OnceInv

LEMMA PrintsKeep ==
  ASSUME IInv, Prints
  PROVE  PaperInv' /\ OnceInv' /\ Owner(papers'[Len(papers) + 1]) = current /\ Len(papers') = Len(papers) + 1
<1> DEFINE d == Expected(current, All)
<1>1. papers \in Seq(Seq(Lines)) /\ Goods \in Nat /\ Payments \in Nat
  BY DocumentAssumption DEF IInv, TypeOK
<1>2. d \in Seq(Lines) /\ Owner(d) = current /\ current \in Receipts
  BY <1>1, ExpectedLines, AllIsWhole DEF Prints, All
<1>3. /\ papers' = Append(papers, d) /\ Len(papers') = Len(papers) + 1
      /\ \A i \in 1..Len(papers) : papers'[i] = papers[i]
      /\ papers'[Len(papers) + 1] = d
  <2> HIDE DEF d
  <2>1. papers' = Append(papers, d)
    BY DEF Prints, d
  <2> QED
    BY <1>1, <1>2, <2>1
<1>4. ~OnPaper(current)
  <2>1. current # None /\ at \notin Behind
    BY DocumentAssumption DEF Prints
  <2> QED
    BY <2>1, NotYet
<1>5. told' = told /\ current' = current /\ at \notin Behind /\ at' \in Behind
  BY DEF Prints
<1>6. \A i \in 1..Len(papers') : i \in 1..Len(papers) \/ i = Len(papers) + 1
  BY <1>1, <1>3
<1>7. PaperInv'
  BY <1>2, <1>3, <1>5, <1>6 DEF IInv, Inv, PaperInv
<1>8. OnceInv'
  BY <1>2, <1>3, <1>4, <1>6 DEF IInv, Inv, OnceInv, OnPaper
<1> QED
  BY <1>2, <1>3, <1>7, <1>8

-----------------------------------------------------------------------------
(* The actions: each keeps the types, the place of the call, its document and *)
(* its outcome, and is a step of one of the kinds. *)

(* What the next line of the open document makes of it. *)
LEMMA LineAdded ==
  ASSUME IInv
  PROVE  /\ at = "goods" /\ n < Goods => Append(doc, Line("good")) = Expected(current, n + 1)
         /\ at = "pays" /\ n < Payments => Append(doc, Line("pay")) = Expected(current, Goods + (n + 1))
         /\ at = "total" => Append(doc, Line("total")) = Expected(current, All)
<1>1. Goods \in Nat /\ Payments \in Nat /\ n \in Nat
  BY DocumentAssumption DEF IInv, TypeOK
<1>2. CASE at = "goods" /\ n < Goods
  <2>1. doc = Expected(current, n) /\ KindOf(n + 1) = "good"
    BY <1>1, <1>2 DEF IInv, Inv, DocInv, KindOf
  <2> QED
    BY <1>1, <1>2, <2>1, NextLine DEF Line
<1>3. CASE at = "pays" /\ n < Payments
  <2>1. doc = Expected(current, Goods + n) /\ KindOf((Goods + n) + 1) = "pay" /\ Goods + n \in Nat
    BY <1>1, <1>3 DEF IInv, Inv, DocInv, KindOf
  <2>2. (Goods + n) + 1 = Goods + (n + 1)
    BY <1>1
  <2>3. Append(doc, Line("pay")) = Expected(current, (Goods + n) + 1)
    BY <2>1, NextLine DEF Line
  <2> QED
    BY <1>3, <2>2, <2>3
<1>4. CASE at = "total"
  <2>1. doc = Expected(current, Goods + Payments) /\ KindOf((Goods + Payments) + 1) = "total"
        /\ Goods + Payments \in Nat
    BY <1>1, <1>4 DEF IInv, Inv, DocInv, KindOf
  <2>2. Append(doc, Line("total")) = Expected(current, (Goods + Payments) + 1)
    BY <2>1, NextLine DEF Line
  <2> QED
    BY <1>4, <2>2 DEF All
<1> QED
  BY <1>2, <1>3, <1>4

(* What appending does. *)
LEMMA Appended ==
  ASSUME NEW S, NEW s \in Seq(S), NEW e \in S
  PROVE  /\ Append(s, e) \in Seq(S)
         /\ Append(s, e) = [i \in 1..(Len(s) + 1) |-> IF i <= Len(s) THEN s[i] ELSE e]
<1> DEFINE f == Append(s, e)
<1>1. /\ f \in Seq(S) /\ Len(f) = Len(s) + 1
      /\ \A i \in 1..(Len(s) + 1) : f[i] = IF i <= Len(s) THEN s[i] ELSE e
  OBVIOUS
<1> HIDE DEF f
<1>2. f = [i \in 1..Len(f) |-> f[i]]
  BY <1>1
<1>3. f = [i \in 1..(Len(s) + 1) |-> IF i <= Len(s) THEN s[i] ELSE e]
  BY <1>1, <1>2
<1> QED
  BY <1>1, <1>3 DEF f

(* An open document of a receipt. *)
LEMMA OpenDocument ==
  ASSUME NEW r \in Receipts, NEW k \in Nat
  PROVE  Expected(r, k) \in Seq(Lines) /\ Expected(r, k) # None
BY ExpectedLines, NoneIsNoDocument

LEMMA NoLines == \A r : Expected(r, 0) = <<>>
BY DEF Expected

LEMMA Numbers == IInv => Goods \in Nat /\ Payments \in Nat /\ Polls \in Nat /\ n \in Nat /\ All \in Nat
BY DocumentAssumption DEF IInv, TypeOK, All

LEMMA IsOpenedKeeps ==
  ASSUME IInv, IsOpened, UNCHANGED <<testMode, lossy>>
  PROVE  TypeOK' /\ CallInv' /\ DocInv' /\ OutcomeInv' /\ Kinds
<1>1. TypeOK'
  BY DEF IInv, IsOpened, TypeOK, Steps, device, Tell
<1>2. CallInv'
  BY DEF IInv, Inv, IsOpened, CallInv, ReceiptSteps, ShiftSteps, Tell
<1>3. DocInv'
  BY DEF IsOpened, DocInv, Tell
<1>4. OutcomeInv'
  BY DEF IsOpened, OutcomeInv, Tell
<1>5. Kinds
  BY NotYet DEF IInv, IsOpened, TypeOK, Behind, device, Tell, Quiet, Answers, Answer, Kinds
<1> QED
  BY <1>1, <1>2, <1>3, <1>4, <1>5

LEMMA CheckDocumentKeeps ==
  ASSUME IInv, CheckDocument, UNCHANGED <<testMode, lossy>>
  PROVE  TypeOK' /\ CallInv' /\ DocInv' /\ OutcomeInv' /\ Kinds
<1>1. TypeOK'
  BY DEF IInv, CheckDocument, TypeOK, Steps, Call
<1>2. CallInv'
  BY DEF IInv, Inv, CheckDocument, CallInv, ReceiptSteps, ShiftSteps, Call
<1>3. DocInv'
  BY DEF CheckDocument, DocInv, Call
<1>4. OutcomeInv'
  BY DEF CheckDocument, OutcomeInv, Call
<1>5. Kinds
  BY DEF CheckDocument, Behind, Call, Quiet, Kinds
<1> QED
  BY <1>1, <1>2, <1>3, <1>4, <1>5

LEMMA ClearKeeps ==
  ASSUME IInv, Clear, UNCHANGED <<testMode, lossy>>
  PROVE  TypeOK' /\ CallInv' /\ DocInv' /\ OutcomeInv' /\ Kinds
<1>1. TypeOK'
  BY DEF IInv, Clear, TypeOK, Steps, Call, Cancel
<1>2. CallInv'
  BY DEF IInv, Inv, Clear, CallInv, ReceiptSteps, ShiftSteps, Call, Cancel
<1>3. DocInv'
  BY DEF Clear, DocInv, Call, Cancel
<1>4. OutcomeInv'
  BY DEF Clear, OutcomeInv, Call, Cancel
<1>5. Kinds
  BY DEF Clear, Behind, Call, Cancel, Quiet, Kinds
<1> QED
  BY <1>1, <1>2, <1>3, <1>4, <1>5

LEMMA PrepareKeeps ==
  ASSUME IInv, Prepare, UNCHANGED <<testMode, lossy>>
  PROVE  TypeOK' /\ CallInv' /\ DocInv' /\ OutcomeInv' /\ Kinds
<1>1. TypeOK'
  BY DEF IInv, Prepare, TypeOK, Steps, Parameter
<1>2. CallInv'
  BY DEF IInv, Inv, Prepare, CallInv, ReceiptSteps, ShiftSteps, Parameter
<1>3. DocInv'
  BY DEF Prepare, DocInv, Parameter
<1>4. OutcomeInv'
  BY NotYet DEF IInv, Prepare, TypeOK, OutcomeInv, Behind, Parameter, OnPaper
<1>5. Kinds
  BY DEF Prepare, Behind, Parameter, Quiet, Kinds
<1> QED
  BY <1>1, <1>2, <1>3, <1>4, <1>5

LEMMA OpenKeeps ==
  ASSUME IInv, Open, UNCHANGED <<testMode, lossy>>
  PROVE  TypeOK' /\ CallInv' /\ DocInv' /\ OutcomeInv' /\ Kinds
<1>1. TypeOK'
  <2>1. /\ current \in Receipts /\ n' = 0
        /\ UNCHANGED <<current, reached, told, papers>>
    BY DEF IInv, Inv, CallInv, ReceiptSteps, Open, Call
  <2>2. (at' = "goods" \/ at' = "cancel") /\ at = "open"
    BY DEF Open, Call
  <2>3. doc' = <<>> \/ doc' = doc
    BY DEF Open, Call
  <2>4. shift' \in BOOLEAN /\ (doc' # None => shift')
    BY <2>3, NoneIsNoDocument DEF Open, IInv, TypeOK
  <2>5. doc' \in Seq(Lines) \cup {None}
    <3>1. <<>> \in Seq(Lines) /\ doc \in Seq(Lines) \cup {None}
      BY DEF IInv, TypeOK
    <3> QED
      BY <2>3, <3>1
  <2> QED
    BY <2>1, <2>2, <2>4, <2>5, DocumentAssumption DEF IInv, TypeOK, Steps
<1>2. CallInv'
  BY DEF IInv, Inv, Open, CallInv, ReceiptSteps, ShiftSteps, Call
<1>3. DocInv'
  BY NoLines, Numbers DEF Open, DocInv, Call
<1>4. OutcomeInv'
  BY NotYet DEF IInv, Open, TypeOK, OutcomeInv, Behind, Call, OnPaper
<1>5. Kinds
  BY DEF Open, Behind, Call, Quiet, Kinds
<1> QED
  BY <1>1, <1>2, <1>3, <1>4, <1>5

LEMMA GoodKeeps ==
  ASSUME IInv, Good, UNCHANGED <<testMode, lossy>>
  PROVE  TypeOK' /\ CallInv' /\ DocInv' /\ OutcomeInv' /\ Kinds
<1>1. /\ at = "goods" /\ current \in Receipts /\ n \in Nat /\ n <= Goods
      /\ doc = Expected(current, n)
      /\ current' = current /\ reached' = reached /\ told' = told /\ papers' = papers /\ shift' = shift
  BY Numbers DEF IInv, Inv, CallInv, DocInv, ReceiptSteps, Good, AddLines, Call, Parameter
<1>2. \/ n < Goods /\ n' = n + 1 /\ at' = "goods" /\ doc' = Expected(current, n + 1)
      \/ n' = n + 1 /\ at' = "cancel" /\ doc' = Expected(current, n + 1) /\ n < Goods
      \/ n' = n + 1 /\ at' = "cancel" /\ doc' = doc /\ n < Goods
      \/ n = Goods /\ n' = 0 /\ at' = "pays" /\ doc' = doc
      \/ n' = n /\ at' = "raise" /\ doc' = doc
  BY <1>1, LineAdded DEF Good, AddLines, Call, Parameter
<1>3. TypeOK'
  <2>1. /\ doc \in Seq(Lines) /\ doc # None
        /\ Expected(current, n + 1) \in Seq(Lines)
        /\ n' \in 0..(Goods + Payments + Polls)
    <3>1. n' \in Nat /\ n' <= Goods /\ n \in Nat /\ n + 1 \in Nat
      BY <1>1, <1>2, Numbers
    <3>2. n' \in 0..(Goods + Payments + Polls)
      BY <3>1, Numbers
    <3> QED
      BY <1>1, <3>1, <3>2, OpenDocument
  <2>2. doc' \in Seq(Lines) /\ shift
    BY <1>2, <2>1 DEF IInv, TypeOK
  <2> QED
    BY <1>1, <1>2, <2>1, <2>2, DocumentAssumption DEF IInv, TypeOK, Steps
<1>4. CallInv'
  BY <1>1, <1>2 DEF IInv, Inv, CallInv, ReceiptSteps, ShiftSteps
<1>5. DocInv'
  BY <1>1, <1>2, Numbers DEF DocInv
<1>6. OutcomeInv' /\ Kinds
  <2>1. ~OnPaper(current) /\ at \notin Behind
    BY <1>1, NotYet, DocumentAssumption DEF Behind
  <2> QED
    BY <1>1, <1>2, <2>1 DEF OutcomeInv, OnPaper, Kinds, Quiet
<1> QED
  BY <1>3, <1>4, <1>5, <1>6

LEMMA PayKeeps ==
  ASSUME IInv, Pay, UNCHANGED <<testMode, lossy>>
  PROVE  TypeOK' /\ CallInv' /\ DocInv' /\ OutcomeInv' /\ Kinds
<1>1. /\ at = "pays" /\ current \in Receipts /\ n \in Nat /\ n <= Payments
      /\ doc = Expected(current, Goods + n)
      /\ current' = current /\ reached' = reached /\ told' = told /\ papers' = papers /\ shift' = shift
  BY Numbers DEF IInv, Inv, CallInv, DocInv, ReceiptSteps, Pay, AddLines, Call, Parameter
<1>2. \/ n < Payments /\ n' = n + 1 /\ at' = "pays" /\ doc' = Expected(current, Goods + (n + 1))
      \/ n' = n + 1 /\ at' = "cancel" /\ doc' = Expected(current, Goods + (n + 1)) /\ n < Payments
      \/ n' = n + 1 /\ at' = "cancel" /\ doc' = doc /\ n < Payments
      \/ n = Payments /\ n' = 0 /\ at' = "total" /\ doc' = doc
      \/ n' = n /\ at' = "raise" /\ doc' = doc
  BY <1>1, LineAdded DEF Pay, AddLines, Call, Parameter
<1>3. TypeOK'
  <2>1. /\ doc \in Seq(Lines) /\ doc # None
        /\ Expected(current, Goods + (n + 1)) \in Seq(Lines)
        /\ n' \in 0..(Goods + Payments + Polls)
    <3>1. n' \in Nat /\ n' <= Payments /\ Goods + n \in Nat /\ Goods + (n + 1) \in Nat
      BY <1>1, <1>2, Numbers
    <3>2. n' \in 0..(Goods + Payments + Polls)
      BY <3>1, Numbers
    <3> QED
      BY <1>1, <3>1, <3>2, OpenDocument
  <2>2. doc' \in Seq(Lines) /\ shift
    BY <1>2, <2>1 DEF IInv, TypeOK
  <2> QED
    BY <1>1, <1>2, <2>1, <2>2, DocumentAssumption DEF IInv, TypeOK, Steps
<1>4. CallInv'
  BY <1>1, <1>2 DEF IInv, Inv, CallInv, ReceiptSteps, ShiftSteps
<1>5. DocInv'
  BY <1>1, <1>2, Numbers DEF DocInv
<1>6. OutcomeInv' /\ Kinds
  <2>1. ~OnPaper(current) /\ at \notin Behind
    BY <1>1, NotYet, DocumentAssumption DEF Behind
  <2> QED
    BY <1>1, <1>2, <2>1 DEF OutcomeInv, OnPaper, Kinds, Quiet
<1> QED
  BY <1>3, <1>4, <1>5, <1>6

LEMMA SetTotalKeeps ==
  ASSUME IInv, SetTotal, UNCHANGED <<testMode, lossy>>
  PROVE  TypeOK' /\ CallInv' /\ DocInv' /\ OutcomeInv' /\ Kinds
<1>1. TypeOK'
  <2>1. /\ at = "total" /\ current \in Receipts /\ doc = Expected(current, Goods + Payments)
        /\ current' = current /\ reached' = reached /\ told' = told /\ papers' = papers
        /\ shift' = shift /\ n' = n
    BY DEF IInv, Inv, CallInv, DocInv, ReceiptSteps, SetTotal, Call
  <2>2. /\ doc' = doc \/ doc' = Expected(current, All)
        /\ at' \in {"takeBack", "close", "cancel"}
    BY <2>1, LineAdded DEF SetTotal, Call, AfterTotal
  <2>3. Goods + Payments \in Nat /\ All \in Nat
    BY Numbers
  <2>4. /\ doc \in Seq(Lines) /\ doc # None
        /\ Expected(current, All) \in Seq(Lines)
    BY <2>1, <2>3, OpenDocument
  <2>5. doc' \in Seq(Lines) /\ shift
    BY <2>2, <2>4 DEF IInv, TypeOK
  <2> QED
    BY <2>1, <2>2, <2>5, DocumentAssumption DEF IInv, TypeOK, Steps
<1>2. CallInv'
  BY DEF IInv, Inv, SetTotal, CallInv, ReceiptSteps, ShiftSteps, Call, AfterTotal
<1>3. DocInv'
  BY LineAdded DEF SetTotal, DocInv, Call, AfterTotal
<1>4. OutcomeInv'
  BY NotYet DEF IInv, SetTotal, TypeOK, OutcomeInv, Behind, Call, AfterTotal, OnPaper
<1>5. Kinds
  BY DEF SetTotal, Behind, Call, Quiet, Kinds
<1> QED
  BY <1>1, <1>2, <1>3, <1>4, <1>5

LEMMA TakeBackKeeps ==
  ASSUME IInv, TakeBack, UNCHANGED <<testMode, lossy>>
  PROVE  TypeOK' /\ CallInv' /\ DocInv' /\ OutcomeInv' /\ Kinds
<1>1. TypeOK'
  BY DEF IInv, TakeBack, TypeOK, Steps, Call, Cancel
<1>2. CallInv'
  BY DEF IInv, Inv, TakeBack, CallInv, ReceiptSteps, ShiftSteps, Call, Cancel
<1>3. DocInv'
  BY DEF TakeBack, DocInv, Call, Cancel
<1>4. OutcomeInv'
  BY DEF IInv, Inv, TakeBack, DocInv, OutcomeInv, Call, Cancel
<1>5. Kinds
  BY DEF TakeBack, Behind, Call, Cancel, Quiet, Kinds
<1> QED
  BY <1>1, <1>2, <1>3, <1>4, <1>5

LEMMA CloseKeeps ==
  ASSUME IInv, Close, UNCHANGED <<testMode, lossy>>
  PROVE  TypeOK' /\ CallInv' /\ DocInv' /\ OutcomeInv' /\ Kinds
<1>1. /\ at = "close" /\ current \in Receipts /\ ~testMode /\ doc = Expected(current, All)
      /\ doc \in Seq(Lines)
      /\ current' = current /\ reached' = reached /\ told' = told /\ shift' = shift /\ n' = n
      /\ ~OnPaper(current) /\ at \notin Behind
  <2>1. /\ at = "close" /\ current \in Receipts /\ ~testMode /\ doc = Expected(current, All)
        /\ current' = current /\ reached' = reached /\ told' = told /\ shift' = shift /\ n' = n
    BY DEF IInv, Inv, CallInv, DocInv, ReceiptSteps, Close, Call
  <2>2. doc \in Seq(Lines)
    BY <2>1, OpenDocument, Numbers
  <2>3. ~OnPaper(current) /\ at \notin Behind
    BY <2>1, NotYet, DocumentAssumption DEF Behind
  <2> QED
    BY <2>1, <2>2, <2>3
<1>2. \/ /\ reached /\ doc' = None /\ papers' = Append(papers, doc)
         /\ at' = "fiscalData" \/ (lossy /\ at' = "cancel")
      \/ at' = "cancel" /\ doc' = doc /\ papers' = papers
  BY DEF Close, Call
<1>3. TypeOK'
  <2>1. papers' \in Seq(Seq(Lines))
    <3>1. papers \in Seq(Seq(Lines)) /\ Append(papers, doc) \in Seq(Seq(Lines))
      BY <1>1, Appended DEF IInv, TypeOK
    <3> QED
      BY <1>2, <3>1
  <2>2. doc' = None \/ (doc' = doc /\ doc \in Seq(Lines))
    BY <1>1, <1>2
  <2> QED
    BY <1>1, <1>2, <2>1, <2>2, DocumentAssumption DEF IInv, TypeOK, Steps
<1>4. CallInv'
  BY <1>1, <1>2 DEF IInv, Inv, CallInv, ReceiptSteps, ShiftSteps
<1>5. DocInv'
  BY <1>1, <1>2 DEF DocInv
<1>6. Kinds
  BY <1>1, <1>2 DEF Kinds, Quiet, Prints, Behind
<1>7. OutcomeInv'
  <2>1. CASE papers' = papers /\ at' = "cancel"
    BY <1>1, <2>1 DEF OutcomeInv, OnPaper
  <2>2. CASE papers' = Append(papers, doc) /\ reached /\ (at' = "fiscalData" \/ (lossy /\ at' = "cancel"))
    <3>1. Owner(papers'[Len(papers) + 1]) = current /\ Len(papers) + 1 \in 1..Len(papers')
      <4>1. /\ papers \in Seq(Seq(Lines)) /\ Len(papers') = Len(papers) + 1
            /\ papers'[Len(papers) + 1] = doc
        BY <1>1, <2>2 DEF IInv, TypeOK
      <4>2. Owner(doc) = current
        BY <1>1, AllIsWhole
      <4> QED
        BY <4>1, <4>2
    <3>2. (OnPaper(current))'
      BY <1>1, <3>1 DEF OnPaper
    <3> QED
      BY <1>1, <2>2, <3>2 DEF OutcomeInv
  <2> QED
    BY <1>2, <2>1, <2>2
<1> QED
  BY <1>3, <1>4, <1>5, <1>6, <1>7

LEMMA FiscalDataKeeps ==
  ASSUME IInv, FiscalData, UNCHANGED <<testMode, lossy>>
  PROVE  TypeOK' /\ CallInv' /\ DocInv' /\ OutcomeInv' /\ Kinds
<1>1. TypeOK'
  BY DEF IInv, FiscalData, TypeOK, Steps, device, Read
<1>2. CallInv'
  BY DEF IInv, Inv, FiscalData, CallInv, ReceiptSteps, ShiftSteps, Read
<1>3. DocInv'
  BY DEF FiscalData, DocInv, Read
<1>4. OutcomeInv'
  BY DEF IInv, Inv, FiscalData, OutcomeInv, device, Read, OnPaper
<1>5. Kinds
  BY DEF FiscalData, Behind, device, Read, Quiet, Kinds
<1> QED
  BY <1>1, <1>2, <1>3, <1>4, <1>5

LEMMA ReturnKeeps ==
  ASSUME IInv, Return, UNCHANGED <<testMode, lossy>>
  PROVE  TypeOK' /\ CallInv' /\ DocInv' /\ OutcomeInv' /\ Kinds
<1>1. TypeOK'
  BY DEF IInv, Return, TypeOK, Steps, device, Tell
<1>2. CallInv'
  BY DEF Return, CallInv, ReceiptSteps, ShiftSteps, Tell
<1>3. DocInv'
  BY DEF Return, DocInv, Tell
<1>4. OutcomeInv'
  BY DEF Return, OutcomeInv, Tell
<1>5. Kinds
  BY DEF IInv, Inv, Return, TypeOK, OutcomeInv, device, Tell, Answers, Answer, Kinds
<1> QED
  BY <1>1, <1>2, <1>3, <1>4, <1>5

LEMMA CancelAndRaiseKeeps ==
  ASSUME IInv, CancelAndRaise, UNCHANGED <<testMode, lossy>>
  PROVE  TypeOK' /\ CallInv' /\ DocInv' /\ OutcomeInv' /\ Kinds
<1>1. TypeOK'
  BY DEF IInv, CancelAndRaise, TypeOK, Steps, Call, Cancel
<1>2. CallInv'
  BY DEF IInv, Inv, CancelAndRaise, CallInv, ReceiptSteps, ShiftSteps, Call, Cancel
<1>3. DocInv'
  BY DEF CancelAndRaise, DocInv, Call, Cancel
<1>4. OutcomeInv'
  BY DEF IInv, Inv, CancelAndRaise, OutcomeInv, Call, Cancel, OnPaper
<1>5. Kinds
  BY DEF CancelAndRaise, Behind, Call, Cancel, Quiet, Kinds
<1> QED
  BY <1>1, <1>2, <1>3, <1>4, <1>5

LEMMA RaiseKeeps ==
  ASSUME IInv, Raise, UNCHANGED <<testMode, lossy>>
  PROVE  TypeOK' /\ CallInv' /\ DocInv' /\ OutcomeInv' /\ Kinds
<1>1. TypeOK'
  BY DEF IInv, Raise, TypeOK, Steps, device, Tell
<1>2. CallInv'
  BY DEF Raise, CallInv, ReceiptSteps, ShiftSteps, Tell
<1>3. DocInv'
  BY DEF Raise, DocInv, Tell
<1>4. OutcomeInv'
  BY DEF Raise, OutcomeInv, Tell
<1>5. Kinds
  BY DEF IInv, Inv, Raise, TypeOK, OutcomeInv, device, Tell, Answers, Answer, Kinds
<1> QED
  BY <1>1, <1>2, <1>3, <1>4, <1>5

LEMMA OpenShiftKeeps ==
  ASSUME IInv, OpenShift, UNCHANGED <<testMode, lossy>>
  PROVE  TypeOK' /\ CallInv' /\ DocInv' /\ OutcomeInv' /\ Kinds
<1>1. TypeOK'
  BY DEF IInv, OpenShift, TypeOK, Steps
<1>2. CallInv'
  BY DEF IInv, Inv, OpenShift, CallInv, ReceiptSteps, ShiftSteps
<1>3. DocInv'
  BY DEF OpenShift, DocInv
<1>4. OutcomeInv'
  BY DocumentAssumption DEF IInv, Inv, OpenShift, CallInv, OutcomeInv, ShiftSteps
<1>5. Kinds
  BY DEF OpenShift, Behind, Quiet, Kinds
<1> QED
  BY <1>1, <1>2, <1>3, <1>4, <1>5

LEMMA ReportKeeps ==
  ASSUME IInv, Report, UNCHANGED <<testMode, lossy>>
  PROVE  TypeOK' /\ CallInv' /\ DocInv' /\ OutcomeInv' /\ Kinds
<1>1. TypeOK'
  BY DEF IInv, Report, TypeOK, Steps
<1>2. CallInv'
  BY DEF IInv, Inv, Report, CallInv, ReceiptSteps, ShiftSteps
<1>3. DocInv'
  BY DEF IInv, Inv, Report, DocInv
<1>4. OutcomeInv'
  BY DEF Report, OutcomeInv
<1>5. Kinds
  BY DEF Report, Behind, Quiet, Kinds
<1> QED
  BY <1>1, <1>2, <1>3, <1>4, <1>5

LEMMA PollKeeps ==
  ASSUME IInv, Poll, UNCHANGED <<testMode, lossy>>
  PROVE  TypeOK' /\ CallInv' /\ DocInv' /\ OutcomeInv' /\ Kinds
<1>1. TypeOK'
  BY DocumentAssumption DEF IInv, Inv, Poll, TypeOK, Steps, DocInv, Call
<1>2. CallInv'
  BY DEF IInv, Inv, Poll, CallInv, ReceiptSteps, ShiftSteps, Call
<1>3. DocInv'
  BY DocumentAssumption DEF IInv, Poll, TypeOK, DocInv, Call
<1>4. OutcomeInv'
  BY DocumentAssumption, NotYet DEF IInv, Inv, Poll, CallInv, OutcomeInv, ShiftSteps, Behind, Call, OnPaper
<1>5. Kinds
  BY DEF Poll, Behind, Call, Quiet, Kinds
<1> QED
  BY <1>1, <1>2, <1>3, <1>4, <1>5

LEMMA ReadShiftKeeps ==
  ASSUME IInv, ReadShift, UNCHANGED <<testMode, lossy>>
  PROVE  TypeOK' /\ CallInv' /\ DocInv' /\ OutcomeInv' /\ Kinds
<1>1. TypeOK'
  BY DEF IInv, ReadShift, TypeOK, Steps, device, Read
<1>2. CallInv'
  BY DEF IInv, Inv, ReadShift, CallInv, ReceiptSteps, ShiftSteps, Read
<1>3. DocInv'
  BY DEF ReadShift, DocInv, Read
<1>4. OutcomeInv'
  BY DocumentAssumption, NotYet
  DEF IInv, Inv, ReadShift, CallInv, OutcomeInv, ShiftSteps, Behind, device, Read, OnPaper
<1>5. Kinds
  BY DEF ReadShift, Behind, device, Quiet, Kinds
<1> QED
  BY <1>1, <1>2, <1>3, <1>4, <1>5

LEMMA BeginKeeps ==
  ASSUME IInv, NEW r \in Receipts, Begin(r), UNCHANGED <<testMode, lossy>>
  PROVE  TypeOK' /\ CallInv' /\ DocInv' /\ OutcomeInv' /\ Kinds
<1>1. at = "idle" /\ r # None
  BY DocumentAssumption DEF Begin
<1>2. TypeOK'
  BY DocumentAssumption DEF Begin, IInv, TypeOK, Steps, device
<1>3. CallInv' /\ DocInv' /\ OutcomeInv'
  BY DEF Begin, CallInv, DocInv, OutcomeInv, ShiftSteps
<1>4. Kinds
  BY DEF Begin, device, Kinds, Quiet, Behind
<1> QED
  BY <1>2, <1>3, <1>4

LEMMA BeginShiftCallKeeps ==
  ASSUME IInv, NEW c \in ShiftCalls, BeginShiftCall(c), UNCHANGED <<testMode, lossy>>
  PROVE  TypeOK' /\ CallInv' /\ DocInv' /\ OutcomeInv' /\ Kinds
<1>1. at = "idle" /\ c # None
  BY DocumentAssumption DEF BeginShiftCall
<1>2. TypeOK'
  BY DocumentAssumption DEF BeginShiftCall, IInv, TypeOK, Steps, device
<1>3. CallInv' /\ DocInv' /\ OutcomeInv'
  BY DocumentAssumption DEF BeginShiftCall, CallInv, DocInv, OutcomeInv, ReceiptSteps
<1>4. Kinds
  BY DEF BeginShiftCall, device, Kinds, Quiet, Behind
<1> QED
  BY <1>2, <1>3, <1>4

LEMMA GoesDownKeeps ==
  ASSUME IInv, GoesDown, UNCHANGED <<testMode, lossy>>
  PROVE  TypeOK' /\ CallInv' /\ DocInv' /\ OutcomeInv' /\ Kinds
<1>1. TypeOK'
  BY DEF GoesDown, IInv, TypeOK, device
<1>2. CallInv' /\ DocInv' /\ OutcomeInv' /\ Kinds
  BY DEF GoesDown, IInv, Inv, CallInv, DocInv, OutcomeInv, device, OnPaper, Kinds, Quiet
<1> QED
  BY <1>1, <1>2

LEMMA StutterKeeps ==
  ASSUME IInv, UNCHANGED vars
  PROVE  TypeOK' /\ CallInv' /\ DocInv' /\ OutcomeInv' /\ Kinds
<1>1. TypeOK'
  BY DEF vars, IInv, TypeOK
<1>2. CallInv' /\ DocInv' /\ OutcomeInv' /\ Kinds
  BY DEF vars, IInv, Inv, CallInv, DocInv, OutcomeInv, OnPaper, Kinds, Quiet
<1> QED
  BY <1>1, <1>2

(* Every step is of one of the three kinds, *)
LEMMA StepKinds ==
  ASSUME IInv, [Next]_vars
  PROVE  TypeOK' /\ CallInv' /\ DocInv' /\ OutcomeInv' /\ Kinds /\ UNCHANGED <<testMode, lossy>>
<1>1. CASE UNCHANGED vars
  BY <1>1, StutterKeeps DEF vars
<1>2. CASE GoesDown /\ UNCHANGED <<testMode, lossy>>
  BY <1>2, GoesDownKeeps
<1>3. CASE (\E r \in Receipts : Begin(r)) /\ UNCHANGED <<testMode, lossy>>
  BY <1>3, BeginKeeps
<1>4. CASE (\E c \in ShiftCalls : BeginShiftCall(c)) /\ UNCHANGED <<testMode, lossy>>
  BY <1>4, BeginShiftCallKeeps
<1>5. CASE IsOpened /\ UNCHANGED <<testMode, lossy>>
  BY <1>5, IsOpenedKeeps
<1>6. CASE CheckDocument /\ UNCHANGED <<testMode, lossy>>
  BY <1>6, CheckDocumentKeeps
<1>7. CASE Clear /\ UNCHANGED <<testMode, lossy>>
  BY <1>7, ClearKeeps
<1>8. CASE Prepare /\ UNCHANGED <<testMode, lossy>>
  BY <1>8, PrepareKeeps
<1>9. CASE Open /\ UNCHANGED <<testMode, lossy>>
  BY <1>9, OpenKeeps
<1>10. CASE Good /\ UNCHANGED <<testMode, lossy>>
  BY <1>10, GoodKeeps
<1>11. CASE Pay /\ UNCHANGED <<testMode, lossy>>
  BY <1>11, PayKeeps
<1>12. CASE SetTotal /\ UNCHANGED <<testMode, lossy>>
  BY <1>12, SetTotalKeeps
<1>13. CASE TakeBack /\ UNCHANGED <<testMode, lossy>>
  BY <1>13, TakeBackKeeps
<1>14. CASE Close /\ UNCHANGED <<testMode, lossy>>
  BY <1>14, CloseKeeps
<1>15. CASE FiscalData /\ UNCHANGED <<testMode, lossy>>
  BY <1>15, FiscalDataKeeps
<1>16. CASE Return /\ UNCHANGED <<testMode, lossy>>
  BY <1>16, ReturnKeeps
<1>17. CASE CancelAndRaise /\ UNCHANGED <<testMode, lossy>>
  BY <1>17, CancelAndRaiseKeeps
<1>18. CASE Raise /\ UNCHANGED <<testMode, lossy>>
  BY <1>18, RaiseKeeps
<1>19. CASE OpenShift /\ UNCHANGED <<testMode, lossy>>
  BY <1>19, OpenShiftKeeps
<1>20. CASE Report /\ UNCHANGED <<testMode, lossy>>
  BY <1>20, ReportKeeps
<1>21. CASE Poll /\ UNCHANGED <<testMode, lossy>>
  BY <1>21, PollKeeps
<1>22. CASE ReadShift /\ UNCHANGED <<testMode, lossy>>
  BY <1>22, ReadShiftKeeps
<1> QED
  BY <1>1, <1>2, <1>3, <1>4, <1>5, <1>6, <1>7, <1>8, <1>9, <1>10, <1>11, <1>12,
     <1>13, <1>14, <1>15, <1>16, <1>17, <1>18, <1>19, <1>20, <1>21, <1>22 DEF Next, Adapter

(* and so keeps the invariant. *)
LEMMA InvStep == IInv /\ [Next]_vars => IInv'
<1> SUFFICES ASSUME IInv, [Next]_vars PROVE IInv'
  OBVIOUS
<1>1. TypeOK' /\ CallInv' /\ DocInv' /\ OutcomeInv' /\ Kinds
  BY StepKinds
<1>2. PaperInv' /\ OnceInv'
  BY <1>1, QuietKeeps, AnswersKeep, PrintsKeep DEF Kinds
<1> QED
  BY <1>1, <1>2 DEF IInv, Inv

LEMMA Invariance == Spec => []IInv
<1> QED
  BY InvInit, InvStep, PTL DEF Spec

-----------------------------------------------------------------------------
(* Theorems *)

(* The adapter's state is what TypeOK says. *)
THEOREM TypeCorrect == Spec => []TypeOK
<1>1. IInv => TypeOK
  BY DEF IInv
<1> QED
  BY <1>1, Invariance, PTL

(* Whatever calls fail, in whatever order: a document on paper is the whole of one *)
(* receipt (adapter.py, 126 to 163). *)
THEOREM WholeReceiptsOnly == Spec => []NoForeignLines
<1>1. IInv => NoForeignLines
  <2> SUFFICES ASSUME IInv, NEW i \in DOMAIN papers
               PROVE  \E r \in Receipts : WholeOf(r, papers[i])
    BY DEF NoForeignLines
  <2>1. i \in 1..Len(papers)
    BY DEF IInv, TypeOK
  <2>2. PICK r \in Receipts : papers[i] = Expected(r, All)
    BY <2>1 DEF IInv, Inv, PaperInv
  <2> QED
    BY <2>2, AllIsWhole
<1> QED
  BY <1>1, Invariance, PTL

-----------------------------------------------------------------------------
(* The refinement of ReceiptDevice *)

(* The documents on paper that are r's. *)
Papers(r) == {i \in DOMAIN papers : Owner(papers[i]) = r}

LEMMA PapersFinite ==
  ASSUME TypeOK, NEW r
  PROVE  /\ IsFiniteSet(Papers(r)) /\ Cardinality(Papers(r)) \in Nat
         /\ Papers(r) \subseteq 1..Len(papers) /\ Len(papers) \in Nat
<1>1. DOMAIN papers = 1..Len(papers) /\ Len(papers) \in Nat
  BY DEF TypeOK
<1>2. IsFiniteSet(1..Len(papers))
  BY <1>1, FS_Interval
<1>3. Papers(r) \in SUBSET (1..Len(papers))
  BY <1>1 DEF Papers
<1> QED
  BY <1>1, <1>2, <1>3, FS_Subset, FS_CardinalityType

(* A receipt is issued when it is on paper. *)
LEMMA IssuedIsOnPaper ==
  ASSUME TypeOK, NEW r \in Receipts
  PROVE  Issued[r] \in Nat /\ (Issued[r] = 0 <=> ~OnPaper(r))
<1>1. Issued[r] = Cardinality(Papers(r))
  BY DEF Issued, Papers
<1>2. Papers(r) = {} <=> ~OnPaper(r)
  <2>1. DOMAIN papers = 1..Len(papers)
    BY DEF TypeOK
  <2> QED
    BY <2>1 DEF Papers, OnPaper
<1>3. IsFiniteSet(Papers(r)) /\ Cardinality(Papers(r)) \in Nat
  BY PapersFinite
<1>4. Cardinality(Papers(r)) = 0 <=> Papers(r) = {}
  BY <1>3, FS_EmptySet
<1> QED
  BY <1>1, <1>2, <1>3, <1>4

LEMMA RefinesInit == Init => Device!Init
<1> SUFFICES ASSUME Init PROVE Device!Init
  OBVIOUS
<1>1. \A r : {i \in DOMAIN papers : Owner(papers[i]) = r} = {}
  BY DEF Init
<1>2. Issued = [r \in Receipts |-> 0]
  BY <1>1, FS_EmptySet DEF Issued
<1> QED
  BY <1>2 DEF Init, Device!Init

LEMMA RefinesStep ==
  IInv /\ [Next]_vars =>
      [Device!Next]_<<lossy, testMode, Issued, [r \in Receipts |-> told[r]]>>
<1> DEFINE t == [r \in Receipts |-> told[r]]
<1> SUFFICES ASSUME IInv, [Next]_vars
             PROVE  [Device!Next]_<<lossy, testMode, Issued, t>>
  OBVIOUS
<1>1. TypeOK /\ TypeOK' /\ Kinds /\ UNCHANGED <<testMode, lossy>>
  BY StepKinds DEF IInv
<1>2. papers' = papers => Issued' = Issued
  BY DEF Issued
<1>3. CASE Quiet
  BY <1>1, <1>2, <1>3 DEF Quiet
<1>4. CASE Answers
  <2>1. PICK a \in {"ok", "failed"} : Answer(a)
    BY <1>4 DEF Answers
  <2>2. Issued' = Issued
    BY <1>2, <2>1 DEF Answer
  <2>3. CASE current \in ShiftCalls
    <3>1. t' = t
      BY <1>1, <2>1, <2>3, DocumentAssumption DEF Answer, TypeOK
    <3> QED
      BY <1>1, <2>2, <3>1
  <2>4. CASE current \in Receipts
    <3>1. t' = [t EXCEPT ![current] = a]
      BY <1>1, <2>1, <2>4 DEF Answer, TypeOK
    <3>2. t[current] = "none"
      BY <2>4, DocumentAssumption DEF IInv, Inv, CallInv
    <3>3. /\ a = "ok" => Issued[current] > 0 \/ testMode
          /\ a = "failed" => Issued[current] = 0 \/ lossy
      BY <1>1, <2>1, <2>4, IssuedIsOnPaper DEF Answer
    <3>4. Device!Tell(current, a)
      BY <2>2, <3>1, <3>2, <3>3 DEF Device!Tell
    <3> QED
      BY <1>1, <2>4, <3>4 DEF Device!Next
  <2> QED
    BY <2>1, <2>3, <2>4 DEF Answer
<1>5. CASE Prints
  <2>1. Len(papers') = Len(papers) + 1 /\ Owner(papers'[Len(papers) + 1]) = current
    BY <1>5, PrintsKeep
  <2>2. \A i \in 1..Len(papers) : papers'[i] = papers[i]
    <3> DEFINE d == Expected(current, All)
    <3>1. d \in Seq(Lines)
      BY <1>5, OpenDocument, Numbers DEF Prints
    <3>2. papers' = Append(papers, d) /\ papers \in Seq(Seq(Lines))
      BY <1>1, <1>5 DEF Prints, TypeOK
    <3> HIDE DEF d
    <3> QED
      BY <3>1, <3>2
  <2>3. current \in Receipts /\ Issued[current] = 0
    BY <1>1, <1>5, NotYet, IssuedIsOnPaper, DocumentAssumption DEF Prints
  <2>4. Issued' = [Issued EXCEPT ![current] = 1]
    <3>1. PICK c \in Receipts, k \in Nat : c = current /\ k = Len(papers)
      BY <1>1, <2>3 DEF TypeOK
    <3>2. DOMAIN papers' = 1..(k + 1) /\ DOMAIN papers = 1..k
      BY <1>1, <2>1, <3>1 DEF TypeOK
    <3>3. \A i \in 1..k : papers'[i] = papers[i]
      BY <2>2, <3>1
    <3>4. Owner(papers'[k + 1]) = c
      BY <2>1, <3>1
    <3>5. ASSUME NEW r \in Receipts, r # c
          PROVE  Papers(r)' = Papers(r)
      BY <3>2, <3>3, <3>4, <3>5 DEF Papers
    <3>6. Cardinality(Papers(c)) = 0 /\ IsFiniteSet(Papers(c))
      BY <1>1, <2>3, <3>1, PapersFinite DEF Issued, Papers
    <3>7. Papers(c) = {}
      BY <3>6, FS_EmptySet
    <3>8. Papers(c)' = {k + 1}
      <4>1. \A i \in 1..k : Owner(papers'[i]) # c
        BY <3>2, <3>3, <3>7 DEF Papers
      <4> QED
        BY <3>2, <3>4, <4>1 DEF Papers
    <3>9. Cardinality(Papers(c)') = 1
      BY <3>8, FS_Singleton
    <3>10. Issued = [r \in Receipts |-> Cardinality(Papers(r))]
           /\ Issued' = [r \in Receipts |-> Cardinality(Papers(r)')]
      BY DEF Issued, Papers
    <3>11. \A r \in Receipts : r # c => Cardinality(Papers(r)') = Cardinality(Papers(r))
      BY <3>5
    <3> QED
      BY <3>1, <3>9, <3>10, <3>11
  <2>5. told[current] = "none" /\ current \in Receipts /\ told' = told /\ ~testMode
    BY <1>5, DocumentAssumption DEF Prints, IInv, Inv, CallInv
  <2>6. Device!Issue(current)
    BY <2>3, <2>4, <2>5 DEF Device!Issue
  <2> QED
    BY <1>1, <2>5, <2>6 DEF Device!Next
<1> QED
  BY <1>1, <1>3, <1>4, <1>5 DEF Kinds

(* A registration is, to the rest of the server, what ReceiptDevice says: on paper *)
(* once at most, and told truly. *)
THEOREM ImplementsDevice == Spec => PrintedOnce
<1>1. Spec => Device!Init
  BY RefinesInit DEF Spec
<1> QED
  BY <1>1, RefinesStep, Invariance, PTL DEF Spec, PrintedOnce, Device!Spec

=============================================================================

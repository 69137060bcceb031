------------------------- MODULE FixedBillVA_proofs -------------------------
(***************************************************************************)
(* Proofs about FixedBillVA: what no interleaving of requests can do to a  *)
(* claimed or a paid transaction, how often merchants are called back, and *)
(* what holds of every transaction when requests are served one at a time  *)
(* and may stop half way.                                                  *)
(***************************************************************************)
EXTENDS FixedBillVA, FiniteSetTheorems, WellFoundedInduction, TLAPS

-----------------------------------------------------------------------------
(* The inductive invariant                                                 *)

\* The inquiries whose bill the customer has paid at the vendor.
PaidInqs == {i \in InqIds : PaidFor(i)}

\* What a handler at position l with request q and record d knows, of the rows
\* stored and the inquiries paid.
Position(l, q, d, stored, paid) ==
    /\ l # "idle" => q \in Request
    /\ l \in {"existing", "save", "bills", "notify"} => q.kind = "payment"
    /\ l \in {"byid", "claim"} => q.kind = "inquiry"
    /\ l = "open" => q.kind = "create"
    /\ l \in {"save", "bills", "notify", "claim", "mark", "dedupe", "expire",
              "vendor", "settle", "recovered"} => d \in Read
    /\ l = "claim" => d.id \in stored
    /\ l \in {"vendor", "settle", "recovered"} => d.row.inq \in InqIds
    /\ l \in {"settle", "recovered"} => d.row.inq \in paid
    /\ l # "idle" /\ q.kind = "inquiry" => q.inq \notin paid

WellFormed == \A h \in Handlers : Position(pc[h], req[h], read[h], Stored, PaidInqs)

\* Rows are inserted one after the other and never deleted.
RowsFromOne == \E n \in 0 .. MaxRows : Stored = 1 .. n

IInv == TypeOK /\ WellFormed /\ RowsFromOne

\* The request a handler serves: its fields by its kind.
LEMMA RequestFields ==
    ASSUME NEW q \in Request
    PROVE  /\ q.kind \in RequestKinds
           /\ q.kind = "create" => /\ q.total \in Bills /\ q.url \in BOOLEAN
                                   /\ q.date \in {"never", "future"}
           /\ q.kind = "inquiry" => q.inq \in InqIds
           /\ q.kind = "payment" => /\ q.preq \in PayReqs /\ q.amount \in Bills
                                    /\ q.bills \in BOOLEAN
BY InputsAssumption DEF Request, RequestKinds

\* A set of rows has a newest one: the one least far from the last.
LEMMA GreatestOfRows ==
    ASSUME NEW n \in Nat, NEW S, S \subseteq 1 .. n, S # {}
    PROVE  \E m \in S : \A k \in S : m >= k
<1> DEFINE Far == {n - m : m \in S}
<1>1. Far \subseteq Nat /\ Far # {}
  <2>1. \A m \in S : n - m \in Nat
    OBVIOUS
  <2> QED
    BY <2>1
<1>2. PICK x \in Far : \A y \in Far : ~(<<y, x>> \in OpToRel(<, Nat))
  BY <1>1, NatLessThanWellFounded, WFMin, Zenon
<1>3. \A y \in Far : ~(y < x)
  BY <1>1, <1>2, Zenon DEF OpToRel
<1>4. PICK m \in S : x = n - m
  OBVIOUS
<1>5. \A k \in S : m >= k
  <2> TAKE k \in S
  <2>1. n - k \in Far
    OBVIOUS
  <2>2. ~(n - k < n - m)
    BY <1>3, <1>4, <2>1
  <2> QED
    BY <2>2
<1> QED
  BY <1>5

\* The next row's id is free.
LEMMA NewIdIsFree ==
    ASSUME RowsFromOne, NewId <= MaxRows
    PROVE  /\ NewId \in RowIds /\ NewId \notin Stored
           /\ \E n \in 0 .. MaxRows : Stored \cup {NewId} = 1 .. n
<1>1. PICK n \in 0 .. MaxRows : Stored = 1 .. n
  BY DEF RowsFromOne
<1>2. Cardinality(Stored) = n
  BY <1>1, FS_Interval
<1>3. NewId = n + 1
  BY <1>2 DEF NewId
<1> QED
  BY <1>1, <1>3, BoundsAssumption DEF RowIds

-----------------------------------------------------------------------------
(* What each statement does to the rows                                    *)

\* None is no row, and a row is stored where there is one.
LEMMA StoredRows ==
    ASSUME TypeOK
    PROVE  /\ None \notin Row /\ Stored \subseteq RowIds
           /\ \A r \in RowIds : r \in Stored <=> rows[r] \in Row
           /\ \A s : WithStatus(s) \subseteq Stored
           /\ \A i : WithInq(i) \subseteq Stored
BY NoneAssumption DEF TypeOK, Stored, WithStatus, WithInq

\* One row is written.
LEMMA OneRowWritten ==
    ASSUME TypeOK, NEW r \in RowIds, NEW new \in Row, rows' = [rows EXCEPT ![r] = new]
    PROVE  /\ rows' \in [RowIds -> Row \cup {None}]
           /\ Stored' = Stored \cup {r}
           /\ rows'[r] = new
           /\ \A s \in RowIds \ {r} : rows'[s] = rows[s]
BY NoneAssumption DEF TypeOK, Stored

\* SaveInquiry reopens the row that carries the placeholder, or inserts one.
LEMMA SaveInquiryWrites ==
    ASSUME IInv, NEW h \in Handlers, SaveInquiry(h)
    PROVE  \E r \in RowIds, new \in Row :
             /\ rows' = [rows EXCEPT ![r] = new]
             /\ new.status = Pending /\ new.inq = Placeholder
             /\ \/ r \in WithInq(Placeholder)
                \/ WithInq(Placeholder) = {} /\ r = NewId /\ NewId <= MaxRows
<1>1. req[h] \in Request /\ req[h].kind = "create" /\ pc[h] = "open"
  BY Zenon DEF SaveInquiry, IInv, WellFormed, Position
<1>2. req[h].total \in Bills /\ req[h].url \in BOOLEAN /\ req[h].date \in {"never", "future"}
  BY <1>1, RequestFields
<1>3. ASSUME NEW r \in WithInq(Placeholder),
             rows' = [rows EXCEPT ![r].status = Pending, ![r].total = req[h].total,
                                  ![r].date = req[h].date, ![r].url = req[h].url]
      PROVE  \E new \in Row : /\ rows' = [rows EXCEPT ![r] = new]
                              /\ new.status = Pending /\ new.inq = Placeholder
  <2> DEFINE new == [rows[r] EXCEPT !.status = Pending, !.total = req[h].total,
                                    !.date = req[h].date, !.url = req[h].url]
  <2>1. rows[r] \in Row /\ r \in RowIds /\ rows[r].inq = Placeholder
    BY <1>3, StoredRows DEF IInv, WithInq
  <2>2. new \in Row /\ new.status = Pending /\ new.inq = Placeholder
    BY <1>2, <2>1 DEF Row, Success, Expired, Pending, Deleted, Placeholder
  <2>3. rows' = [rows EXCEPT ![r] = new]
    BY <1>3, <2>1 DEF IInv, TypeOK, Row
  <2> QED
    BY <2>2, <2>3
<1>4. ASSUME NewId <= MaxRows, WithInq(Placeholder) = {},
             rows' = [rows EXCEPT ![NewId] =
                        [inq |-> Placeholder, preq |-> None, status |-> Pending, paid |-> 0,
                         total |-> req[h].total, date |-> req[h].date, url |-> req[h].url]]
      PROVE  \E new \in Row : /\ rows' = [rows EXCEPT ![NewId] = new]
                              /\ new.status = Pending /\ new.inq = Placeholder
  <2> DEFINE new == [inq |-> Placeholder, preq |-> None, status |-> Pending, paid |-> 0,
                     total |-> req[h].total, date |-> req[h].date, url |-> req[h].url]
  <2>1. new \in Row
    BY <1>2 DEF Row, Success, Expired, Pending, Deleted, Placeholder
  <2> QED
    BY <1>4, <2>1
<1>5. WithInq(Placeholder) \subseteq RowIds
  BY StoredRows DEF IInv
<1>6. NewId <= MaxRows => NewId \in RowIds
  BY NewIdIsFree DEF IInv
<1> QED
  BY <1>3, <1>4, <1>5, <1>6, ZenonT(30) DEF SaveInquiry

\* Every pending row takes the status s.
LEMMA SetPendingWrites ==
    ASSUME TypeOK, NEW s \in {Success, Expired, Deleted}, rows' = SetPending(s)
    PROVE  /\ rows' \in [RowIds -> Row \cup {None}]
           /\ Stored' = Stored
           /\ \A r \in WithStatus(Pending) : rows'[r] = [rows[r] EXCEPT !.status = s]
           /\ \A r \in RowIds \ WithStatus(Pending) : rows'[r] = rows[r]
<1>1. \A r \in WithStatus(Pending) : r \in RowIds /\ rows[r] \in Row
  BY StoredRows
<1>2. \A r \in WithStatus(Pending) : [rows[r] EXCEPT !.status = s] \in Row
  BY <1>1 DEF Row, Success, Expired, Pending, Deleted
<1>3. /\ \A r \in WithStatus(Pending) : rows'[r] = [rows[r] EXCEPT !.status = s]
      /\ \A r \in RowIds \ WithStatus(Pending) : rows'[r] = rows[r]
  BY <1>1 DEF SetPending
<1>4. \A r \in RowIds : rows'[r] \in Row \cup {None} /\ (rows'[r] # None <=> rows[r] # None)
  <2> TAKE r \in RowIds
  <2>1. CASE r \in WithStatus(Pending)
    <3>1. rows'[r] \in Row /\ rows[r] \in Row
      BY <1>1, <1>2, <1>3, <2>1
    <3> QED
      BY <3>1, StoredRows
  <2>2. CASE r \notin WithStatus(Pending)
    <3>1. rows'[r] = rows[r] /\ rows[r] \in Row \cup {None}
      BY <1>3, <2>2 DEF TypeOK
    <3> QED
      BY <3>1
  <2> QED
    BY <2>1, <2>2
<1>5. rows' \in [RowIds -> Row \cup {None}]
  BY <1>4 DEF SetPending
<1>6. Stored' = Stored
  BY <1>4 DEF Stored
<1> QED
  BY <1>3, <1>5, <1>6

\* Claim puts the request's id on the row read, if that carries the placeholder.
LEMMA ClaimWrites ==
    ASSUME IInv, NEW h \in Handlers, Claim(h)
    PROVE  \/ rows' = rows
           \/ LET r == read[h].id
                  new == [rows[r] EXCEPT !.inq = req[h].inq]
              IN  /\ r \in Stored /\ rows[r].inq = Placeholder /\ WithInq(req[h].inq) = {}
                  /\ req[h].inq \in InqIds /\ new \in Row
                  /\ rows' = [rows EXCEPT ![r] = new]
<1> DEFINE r == read[h].id
<1>1. /\ r \in Stored /\ r \in RowIds /\ rows[r] \in Row
      /\ req[h] \in Request /\ req[h].kind = "inquiry"
  BY StoredRows DEF Claim, IInv, WellFormed, Position
<1>2. req[h].inq \in InqIds
  BY <1>1, RequestFields
<1>3. CASE rows[r].inq = Placeholder
  <2>1. rows' = rows \/ (WithInq(req[h].inq) = {} /\ rows' = [rows EXCEPT ![r].inq = req[h].inq])
    BY <1>3 DEF Claim
  <2>2. [rows[r] EXCEPT !.inq = req[h].inq] \in Row
    BY <1>1, <1>2 DEF Row
  <2> QED
    BY <1>1, <1>2, <1>3, <2>1, <2>2 DEF IInv, TypeOK
<1>4. CASE rows[r].inq # Placeholder
  <2>1. rows' = [rows EXCEPT ![r].inq = rows[r].inq]
    BY <1>4 DEF Claim
  <2>2. [rows[r] EXCEPT !.inq = rows[r].inq] = rows[r]
    BY <1>1 DEF Row
  <2> QED
    BY <1>1, <2>1, <2>2 DEF IInv, TypeOK
<1> QED
  BY <1>3, <1>4

\* SavePayment settles a row with the id of the record read, or inserts one.
LEMMA SavePaymentWrites ==
    ASSUME IInv, NEW h \in Handlers, SavePayment(h)
    PROVE  \/ \E r \in WithInq(read[h].row.inq) :
                LET new == [rows[r] EXCEPT !.preq = req[h].preq, !.status = Success,
                                           !.paid = req[h].amount]
                IN  /\ r \in RowIds /\ new \in Row /\ rows' = [rows EXCEPT ![r] = new]
                    /\ read' = [read EXCEPT ![h] = [@ EXCEPT !.id = None]]
           \/ \E new \in Row :
                /\ WithInq(read[h].row.inq) = {} /\ NewId <= MaxRows /\ NewId \in RowIds
                /\ rows' = [rows EXCEPT ![NewId] = new]
                /\ read' = [read EXCEPT ![h] = [@ EXCEPT !.id = NewId]]
                /\ new.inq = read[h].row.inq /\ new.status = Success
                /\ new.paid = req[h].amount /\ new.total = req[h].amount
<1>1. /\ req[h] \in Request /\ req[h].kind = "payment" /\ read[h] \in Read
  BY Zenon DEF SavePayment, IInv, WellFormed, Position
<1>2. /\ req[h].preq \in PayReqs /\ req[h].amount \in Bills
      /\ read[h].row \in Row /\ read[h].row.inq \in InqIds \cup {Placeholder}
      /\ read[h].row.url \in BOOLEAN
  BY <1>1, RequestFields DEF Read, Row
<1>3. ASSUME NEW r \in WithInq(read[h].row.inq),
             rows' = [rows EXCEPT ![r].preq = req[h].preq, ![r].status = Success,
                                  ![r].paid = req[h].amount]
      PROVE  LET new == [rows[r] EXCEPT !.preq = req[h].preq, !.status = Success,
                                        !.paid = req[h].amount]
             IN  r \in RowIds /\ new \in Row /\ rows' = [rows EXCEPT ![r] = new]
  <2> DEFINE new == [rows[r] EXCEPT !.preq = req[h].preq, !.status = Success,
                                    !.paid = req[h].amount]
  <2>1. rows[r] \in Row /\ r \in RowIds
    BY <1>3, StoredRows DEF IInv
  <2>2. new \in Row
    BY <1>2, <2>1 DEF Row, Success, Expired, Pending, Deleted
  <2>3. rows' = [rows EXCEPT ![r] = new]
    BY <1>3, <2>1 DEF IInv, TypeOK, Row
  <2> QED
    BY <2>1, <2>2, <2>3
<1>4. [inq |-> read[h].row.inq, preq |-> req[h].preq, status |-> Success,
       paid |-> req[h].amount, total |-> req[h].amount, date |-> "never",
       url |-> read[h].row.url] \in Row
  BY <1>2 DEF Row, Success, Expired, Pending, Deleted
<1>5. NewId <= MaxRows => NewId \in RowIds
  BY NewIdIsFree DEF IInv
<1> QED
  BY <1>3, <1>4, <1>5, ZenonT(30) DEF SavePayment

\* Settle puts the vendor's payment on every pending row.
LEMMA SettleWrites ==
    ASSUME IInv, NEW h \in Handlers, Settle(h)
    PROVE  LET v == vendor[read[h].row.inq]
           IN  /\ rows' \in [RowIds -> Row \cup {None}]
               /\ Stored' = Stored
               /\ \A r \in WithStatus(Pending) :
                      rows'[r] = [rows[r] EXCEPT !.status = Success, !.paid = v.amount,
                                                 !.preq = v.preq]
               /\ \A r \in RowIds \ WithStatus(Pending) : rows'[r] = rows[r]
<1> DEFINE v == vendor[read[h].row.inq]
           new(r) == [rows[r] EXCEPT !.status = Success, !.paid = v.amount, !.preq = v.preq]
<1>1. v \in VendorRecord
  BY DEF Settle, IInv, WellFormed, Position, PaidInqs, PaidFor, TypeOK
<1>2. v.amount \in Bills /\ v.preq \in PayReqs \cup {None}
  BY <1>1 DEF VendorRecord
<1>3. rows' = [r \in RowIds |-> IF r \in WithStatus(Pending) THEN new(r) ELSE rows[r]]
  BY DEF Settle
<1>4. \A r \in WithStatus(Pending) : r \in RowIds /\ rows[r] \in Row
  BY StoredRows DEF IInv
<1> HIDE DEF v
<1>5. \A r \in WithStatus(Pending) : new(r) \in Row
  BY <1>2, <1>4 DEF Row, Success, Expired, Pending, Deleted
<1>6. /\ \A r \in WithStatus(Pending) : rows'[r] = new(r)
      /\ \A r \in RowIds \ WithStatus(Pending) : rows'[r] = rows[r]
  BY <1>3, <1>4
<1>7. \A r \in RowIds : rows'[r] \in Row \cup {None} /\ (rows'[r] # None <=> rows[r] # None)
  <2> TAKE r \in RowIds
  <2>1. CASE r \in WithStatus(Pending)
    <3>1. rows'[r] \in Row /\ rows[r] \in Row
      BY <1>4, <1>5, <1>6, <2>1
    <3> QED
      BY <3>1, StoredRows DEF IInv
  <2>2. CASE r \notin WithStatus(Pending)
    <3>1. rows'[r] = rows[r] /\ rows[r] \in Row \cup {None}
      BY <1>6, <2>2 DEF IInv, TypeOK
    <3> QED
      BY <3>1
  <2> QED
    BY <2>1, <2>2
<1>8. rows' \in [RowIds -> Row \cup {None}]
  BY <1>3, <1>7
<1>9. Stored' = Stored
  BY <1>7 DEF Stored
<1> QED
  BY <1>6, <1>8, <1>9 DEF v

\* A row's date passes.
LEMMA DatePassesWrites ==
    ASSUME IInv, NEW r \in RowIds, ExpiredDatePasses(r)
    PROVE  /\ r \in Stored /\ [rows[r] EXCEPT !.date = "past"] \in Row
           /\ rows' = [rows EXCEPT ![r] = [rows[r] EXCEPT !.date = "past"]]
<1>1. rows[r] # None /\ rows' = [rows EXCEPT ![r].date = "past"]
  BY DEF ExpiredDatePasses
<1>2. rows[r] \in Row /\ r \in Stored
  BY <1>1 DEF IInv, TypeOK, Stored
<1>3. [rows[r] EXCEPT !.date = "past"] \in Row
  BY <1>2 DEF Row
<1> QED
  BY <1>1, <1>2, <1>3 DEF IInv, TypeOK

-----------------------------------------------------------------------------
(* What no step does to a row                                              *)

\* A claimed row keeps its id, and its payment if it has one.
KeepsClaimed(old, new) ==
    old.inq # Placeholder => /\ new.inq = old.inq
                             /\ old.status = Success => new.status = Success

\* Rows keep their types and are not deleted; claimed ones are kept.
RowsAreKept ==
    /\ rows' \in [RowIds -> Row \cup {None}]
    /\ RowsFromOne'
    /\ Stored \subseteq Stored'
    /\ \A r \in Stored : KeepsClaimed(rows[r], rows'[r])

\* A row that is stored is written, or the next one is inserted.
LEMMA OneRowKept ==
    ASSUME IInv, NEW r \in RowIds, NEW new \in Row, rows' = [rows EXCEPT ![r] = new],
           \/ r \in Stored /\ KeepsClaimed(rows[r], new)
           \/ r = NewId /\ NewId <= MaxRows
    PROVE  RowsAreKept
<1>1. /\ rows' \in [RowIds -> Row \cup {None}] /\ Stored' = Stored \cup {r}
      /\ rows'[r] = new /\ \A s \in RowIds \ {r} : rows'[s] = rows[s]
  BY OneRowWritten DEF IInv
<1>2. Stored \subseteq RowIds
  BY StoredRows DEF IInv
<1>3. CASE r \in Stored
  <2>1. RowsFromOne'
    BY <1>1, <1>3 DEF IInv, RowsFromOne
  <2>2. KeepsClaimed(rows[r], new)
    BY <1>3, NewIdIsFree DEF IInv
  <2> QED
    BY <1>1, <1>2, <2>1, <2>2 DEF RowsAreKept, KeepsClaimed
<1>4. CASE r \notin Stored
  <2>1. RowsFromOne'
    BY <1>1, <1>4, NewIdIsFree DEF IInv, RowsFromOne
  <2> QED
    BY <1>1, <1>2, <1>4, <2>1 DEF RowsAreKept, KeepsClaimed
<1> QED
  BY <1>3, <1>4

\* Pending rows are closed, and nothing else is touched.
LEMMA PendingRowsKept ==
    ASSUME IInv, rows' \in [RowIds -> Row \cup {None}], Stored' = Stored,
           \A r \in WithStatus(Pending) : rows'[r].inq = rows[r].inq,
           \A r \in RowIds \ WithStatus(Pending) : rows'[r] = rows[r]
    PROVE  RowsAreKept
<1>1. RowsFromOne'
  BY DEF IInv, RowsFromOne
<1>2. ASSUME NEW r \in Stored PROVE KeepsClaimed(rows[r], rows'[r])
  <2>1. r \in RowIds
    BY StoredRows DEF IInv
  <2> QED
    BY <2>1 DEF KeepsClaimed, WithStatus, Pending, Success
<1> QED
  BY <1>1, <1>2 DEF RowsAreKept

\* Rows that are not written.
LEMMA UntouchedRowsKept ==
    ASSUME IInv, rows' = rows
    PROVE  RowsAreKept
BY DEF IInv, TypeOK, RowsFromOne, RowsAreKept, KeepsClaimed, Stored

\* Every step, of any handler at any time.
LEMMA RowsStep ==
    ASSUME IInv, [Next]_vars
    PROVE  RowsAreKept
<1>0. TypeOK
  BY DEF IInv
<1>1. ASSUME NEW h \in Handlers, SaveInquiry(h) PROVE RowsAreKept
  <2>1. PICK r \in RowIds, new \in Row :
          /\ rows' = [rows EXCEPT ![r] = new]
          /\ \/ r \in WithInq(Placeholder)
             \/ r = NewId /\ NewId <= MaxRows
    BY <1>1, SaveInquiryWrites
  <2>2. r \in WithInq(Placeholder) => r \in Stored /\ KeepsClaimed(rows[r], new)
    BY DEF WithInq, KeepsClaimed
  <2> QED
    BY <2>1, <2>2, OneRowKept
<1>2. ASSUME NEW h \in Handlers, CancelVA(h) \/ MarkExpired(h) PROVE RowsAreKept
  <2>1. \E s \in {Success, Expired, Deleted} : rows' = SetPending(s)
    BY <1>2 DEF CancelVA, MarkExpired
  <2>2. PICK s \in {Success, Expired, Deleted} :
          /\ rows' \in [RowIds -> Row \cup {None}] /\ Stored' = Stored
          /\ \A r \in WithStatus(Pending) : rows'[r] = [rows[r] EXCEPT !.status = s]
          /\ \A r \in RowIds \ WithStatus(Pending) : rows'[r] = rows[r]
    BY <1>0, <2>1, SetPendingWrites
  <2>3. \A r \in WithStatus(Pending) : rows[r] \in Row
    BY <1>0, StoredRows
  <2>4. \A r \in WithStatus(Pending) : rows'[r].inq = rows[r].inq
    BY <2>2, <2>3 DEF Row
  <2> QED
    BY <2>2, <2>4, PendingRowsKept
<1>3. ASSUME NEW h \in Handlers, Claim(h) PROVE RowsAreKept
  <2> DEFINE r == read[h].id
             new == [rows[r] EXCEPT !.inq = req[h].inq]
  <2>1. \/ rows' = rows
        \/ /\ r \in Stored /\ rows[r].inq = Placeholder /\ new \in Row
           /\ rows' = [rows EXCEPT ![r] = new]
    BY <1>3, ClaimWrites
  <2>2. rows[r].inq = Placeholder => KeepsClaimed(rows[r], new)
    BY DEF KeepsClaimed
  <2>3. Stored \subseteq RowIds
    BY <1>0, StoredRows
  <2> HIDE DEF r, new
  <2> QED
    BY <2>1, <2>2, <2>3, OneRowKept, UntouchedRowsKept
<1>4. ASSUME NEW h \in Handlers, SavePayment(h) PROVE RowsAreKept
  <2>1. ASSUME NEW r \in WithInq(read[h].row.inq), NEW new, new \in Row, r \in RowIds,
               new = [rows[r] EXCEPT !.preq = req[h].preq, !.status = Success,
                                     !.paid = req[h].amount],
               rows' = [rows EXCEPT ![r] = new]
        PROVE  RowsAreKept
    <3>1. r \in Stored /\ rows[r] \in Row
      BY <1>0, StoredRows DEF WithInq
    <3>2. KeepsClaimed(rows[r], new)
      BY <2>1, <3>1 DEF KeepsClaimed, Row
    <3> QED
      BY <2>1, <3>1, <3>2, OneRowKept
  <2>2. ASSUME NEW new \in Row, NewId <= MaxRows, NewId \in RowIds,
               rows' = [rows EXCEPT ![NewId] = new]
        PROVE  RowsAreKept
    BY <2>2, OneRowKept
  <2> QED
    BY <1>4, <2>1, <2>2, SavePaymentWrites
<1>5. ASSUME NEW h \in Handlers, Settle(h) PROVE RowsAreKept
  <2> DEFINE v == vendor[read[h].row.inq]
  <2>1. /\ rows' \in [RowIds -> Row \cup {None}] /\ Stored' = Stored
        /\ \A r \in WithStatus(Pending) :
             rows'[r] = [rows[r] EXCEPT !.status = Success, !.paid = v.amount, !.preq = v.preq]
        /\ \A r \in RowIds \ WithStatus(Pending) : rows'[r] = rows[r]
    BY <1>5, SettleWrites
  <2>2. \A r \in WithStatus(Pending) : rows[r] \in Row
    BY <1>0, StoredRows
  <2> HIDE DEF v
  <2>3. \A r \in WithStatus(Pending) : rows'[r].inq = rows[r].inq
    BY <2>1, <2>2 DEF Row
  <2> QED
    BY <2>1, <2>3, PendingRowsKept
<1>6. ASSUME NEW r \in RowIds, ExpiredDatePasses(r) PROVE RowsAreKept
  <2> DEFINE new == [rows[r] EXCEPT !.date = "past"]
  <2>1. r \in Stored /\ new \in Row /\ rows' = [rows EXCEPT ![r] = new]
    BY <1>6, DatePassesWrites
  <2>2. rows[r] \in Row
    BY <1>0, <2>1, StoredRows
  <2>3. KeepsClaimed(rows[r], new)
    BY <2>2 DEF KeepsClaimed, Row
  <2> HIDE DEF new
  <2> QED
    BY <2>1, <2>3, OneRowKept
<1>7. ASSUME NEW h \in Handlers, Arrivals(h) PROVE rows' = rows
  BY <1>7 DEF Arrivals, CreateArrives, InquiryArrives, PaymentArrives, DeleteArrives,
              ReconcileArrives, SweepArrives, Arrive
<1>8. ASSUME NEW h \in Handlers,
             \/ Lookup(h) \/ GetInquiry(h) \/ CheckExisting(h) \/ SaveBillDetails(h)
             \/ NotifyPayment(h) \/ DedupeExpiry(h) \/ NotifyExpiry(h) \/ ListStale(h)
             \/ VendorAnswers(h) \/ NotifyRecovered(h) \/ Stop(h)
      PROVE  rows' = rows
  BY <1>8 DEF Lookup, GetInquiry, CheckExisting, SaveBillDetails, NotifyPayment, DedupeExpiry,
              NotifyExpiry, ListStale, VendorAnswers, NotifyRecovered, Stop
<1>9. ASSUME NEW i \in InqIds, NEW p \in PayReqs, NEW f, CustomerPays(i, p, f)
      PROVE  rows' = rows
  BY <1>9 DEF CustomerPays
<1>10. UNCHANGED vars => rows' = rows
  BY DEF vars
<1> QED
  BY <1>1, <1>2, <1>3, <1>4, <1>5, <1>6, <1>7, <1>8, <1>9, <1>10, UntouchedRowsKept
     DEF Next, Step

-----------------------------------------------------------------------------
(* Types, and what handlers know                                           *)

\* The vendor's knowledge keeps its type, and no inquiry becomes or ceases to be
\* a paid one.
VendorIsKept ==
    /\ vendor' \in [InqIds -> VendorRecord \cup {None}]
    /\ PaidInqs' = PaidInqs

\* The histories and the queue keep their types.
CountersOK ==
    /\ expiryRow \in BOOLEAN /\ callbacks \in [PayReqs -> Nat]
    /\ expiryCallbacks \in Nat /\ recoveredCallbacks \in Nat
    /\ accepted \in SUBSET PayReqs /\ expiries \in Nat /\ recoveries \in Nat
    /\ cycles \in 0 .. MaxCycles

\* One handler moves, to a position it may be in.
HandlerMoves(h) ==
    /\ pc' \in [Handlers -> PCs]
    /\ req' \in [Handlers -> Request \cup {None}]
    /\ read' \in [Handlers -> Read \cup {None}]
    /\ \A g \in Handlers \ {h} : pc'[g] = pc[g] /\ req'[g] = req[g] /\ read'[g] = read[g]
    /\ Position(pc'[h], req'[h], read'[h], Stored', PaidInqs')

\* What a handler knew it still knows after another one's move.
LEMMA PositionIsKept ==
    ASSUME NEW S, NEW T, S \subseteq T, NEW P, NEW l, NEW q, NEW d, Position(l, q, d, S, P)
    PROVE  Position(l, q, d, T, P)
BY DEF Position

\* So one handler's move keeps the invariant.
LEMMA MoveKeepsInvariant ==
    ASSUME IInv, RowsAreKept, VendorIsKept, CountersOK', NEW h \in Handlers, HandlerMoves(h)
    PROVE  IInv'
<1>1. TypeOK'
  BY DEF TypeOK, RowsAreKept, VendorIsKept, CountersOK, HandlerMoves
<1>2. ASSUME NEW g \in Handlers
      PROVE  Position(pc'[g], req'[g], read'[g], Stored', PaidInqs')
  <2>1. CASE g = h
    BY <2>1 DEF HandlerMoves
  <2>2. CASE g # h
    <3>1. Position(pc[g], req[g], read[g], Stored, PaidInqs)
      BY DEF IInv, WellFormed
    <3>2. pc'[g] = pc[g] /\ req'[g] = req[g] /\ read'[g] = read[g]
      BY <2>2 DEF HandlerMoves
    <3> QED
      BY <3>1, <3>2, PositionIsKept DEF RowsAreKept, VendorIsKept
  <2> QED
    BY <2>1, <2>2
<1> QED
  BY <1>1, <1>2 DEF IInv, WellFormed, RowsAreKept

\* The response goes out: the handler is idle.
LEMMA RespondMoves ==
    ASSUME IInv, NEW h \in Handlers, Respond(h)
    PROVE  HandlerMoves(h)
<1>1. /\ pc' = [pc EXCEPT ![h] = "idle"] /\ req' = [req EXCEPT ![h] = None]
      /\ read' = [read EXCEPT ![h] = None]
  BY DEF Respond, Goto
<1>2. /\ pc \in [Handlers -> PCs] /\ req \in [Handlers -> Request \cup {None}]
      /\ read \in [Handlers -> Read \cup {None}]
  BY DEF IInv, TypeOK
<1>3. pc'[h] = "idle"
  BY <1>1, <1>2
<1>4. Position(pc'[h], req'[h], read'[h], Stored', PaidInqs')
  BY <1>3 DEF Position
<1> QED
  BY <1>1, <1>2, <1>4 DEF HandlerMoves, PCs

\* The handler goes to l, keeping its request, with the record d.
LEMMA GotoMoves ==
    ASSUME IInv, NEW h \in Handlers, NEW l \in PCs, Goto(h, l), req' = req,
           NEW d \in Read \cup {None},
           \/ read' = read /\ d = read[h]
           \/ read' = [read EXCEPT ![h] = d],
           Position(l, req[h], d, Stored', PaidInqs')
    PROVE  HandlerMoves(h)
<1>1. pc' = [pc EXCEPT ![h] = l]
  BY DEF Goto
<1>2. /\ pc \in [Handlers -> PCs] /\ req \in [Handlers -> Request \cup {None}]
      /\ read \in [Handlers -> Read \cup {None}]
  BY DEF IInv, TypeOK
<1>3. pc'[h] = l /\ req'[h] = req[h] /\ read'[h] = d
  BY <1>1, <1>2
<1>4. Position(pc'[h], req'[h], read'[h], Stored', PaidInqs')
  BY <1>3 DEF Position
<1>5. read' \in [Handlers -> Read \cup {None}] /\ \A g \in Handlers \ {h} : read'[g] = read[g]
  BY <1>2
<1> QED
  BY <1>1, <1>2, <1>4, <1>5 DEF HandlerMoves

\* Nothing of the vendor's is written.
LEMMA UntouchedVendorKept ==
    ASSUME IInv, vendor' = vendor
    PROVE  VendorIsKept
BY DEF IInv, TypeOK, VendorIsKept, PaidInqs, PaidFor

\* An inquiry is answered, under an id that is not paid.
LEMMA QuoteKeepsVendor ==
    ASSUME IInv, NEW h \in Handlers, pc[h] # "idle", NEW rec, IsOpen(rec) => rec.row \in Row,
           Quote(h, rec)
    PROVE  VendorIsKept
<1>1. CASE req[h].kind = "inquiry" /\ IsOpen(rec) /\ ~IsExpired(rec.row)
  <2> DEFINE i == req[h].inq
             new == [amount |-> rec.row.total, preq |-> None, flag |-> "03"]
  <2>1. i \in InqIds /\ ~PaidFor(i)
    BY <1>1, RequestFields DEF IInv, WellFormed, Position, PaidInqs
  <2>2. new \in VendorRecord /\ new.preq = None
    BY <1>1 DEF VendorRecord, Row
  <2>3. vendor' = [vendor EXCEPT ![i] = new]
    BY <1>1 DEF Quote
  <2> HIDE DEF i, new
  <2> QED
    BY <2>1, <2>2, <2>3 DEF VendorIsKept, PaidInqs, PaidFor, IInv, TypeOK
<1>2. CASE ~(req[h].kind = "inquiry" /\ IsOpen(rec) /\ ~IsExpired(rec.row))
  <2>1. vendor' = vendor
    BY <1>2 DEF Quote
  <2> QED
    BY <2>1, UntouchedVendorKept
<1> QED
  BY <1>1, <1>2

\* A handler that has read a record goes on with it, or answers.
LEMMA ContinueMoves ==
    ASSUME IInv, NEW h \in Handlers, pc[h] \in {"lookup", "byid", "stale"}, NEW rec,
           rec = None \/ (rec \in Read /\ rec.id \in Stored), rows' = rows, Continue(h, rec)
    PROVE  HandlerMoves(h) /\ VendorIsKept
<1>1. /\ req[h] \in Request /\ req[h].kind \in RequestKinds
      /\ req[h].kind = "inquiry" => req[h].inq \notin PaidInqs
  BY RequestFields DEF IInv, WellFormed, Position
<1>2. rec # None => rec.row \in Row
  BY DEF Read
<1>3. CASE Respond(h) /\ Quote(h, rec)
  BY <1>2, <1>3, RespondMoves, QuoteKeepsVendor DEF IsOpen
<1>4. CASE /\ Route(h, rec) # "answer" /\ Goto(h, Route(h, rec))
           /\ read' = [read EXCEPT ![h] = rec] /\ UNCHANGED <<req, vendor>>
  <2> DEFINE l == Route(h, rec)
  <2>1. /\ l \in {"open", "cancel", "vendor", "mark", "claim", "save"}
        /\ l = "open" => req[h].kind = "create"
        /\ l = "claim" => req[h].kind = "inquiry"
        /\ l = "save" => req[h].kind = "payment"
        /\ l \in {"vendor", "mark", "claim", "save"} => rec # None
        /\ l = "vendor" => rec.row.inq # Placeholder
    BY <1>1, <1>4 DEF Route, RequestKinds, IsOpen
  <2>2. l = "vendor" => rec.row.inq \in InqIds
    BY <1>2, <2>1 DEF Row
  <2>3. VendorIsKept
    BY <1>4, UntouchedVendorKept
  <2>4. Stored' = Stored /\ PaidInqs' = PaidInqs
    BY <2>3 DEF VendorIsKept, Stored
  <2> HIDE DEF l
  <2>5. Position(l, req[h], rec, Stored', PaidInqs')
    BY <1>1, <1>4, <2>1, <2>2, <2>4 DEF Position
  <2>6. l \in PCs /\ Goto(h, l)
    BY <1>4, <2>1 DEF PCs, l
  <2> QED
    BY <1>4, <2>3, <2>5, <2>6, GotoMoves
<1> QED
  BY <1>3, <1>4 DEF Continue

\* The invariant holds before any call.
LEMMA InitInvariant == Init => IInv
<1> SUFFICES ASSUME Init PROVE IInv
  OBVIOUS
<1>1. TypeOK
  <2>1. /\ rows \in [RowIds -> Row \cup {None}]
        /\ vendor \in [InqIds -> VendorRecord \cup {None}]
        /\ callbacks \in [PayReqs -> Nat]
    BY DEF Init
  <2>2. /\ pc \in [Handlers -> PCs]
        /\ req \in [Handlers -> Request \cup {None}]
        /\ read \in [Handlers -> Read \cup {None}]
    BY DEF Init, PCs
  <2>3. cycles \in 0 .. MaxCycles /\ accepted \in SUBSET PayReqs
    BY BoundsAssumption DEF Init
  <2> QED
    BY <2>1, <2>2, <2>3 DEF Init, TypeOK
<1>2. Stored = 1 .. 0
  BY DEF Init, Stored, RowIds
<1>3. RowsFromOne
  BY <1>2, BoundsAssumption DEF RowsFromOne
<1>4. WellFormed
  BY DEF Init, WellFormed, Position
<1> QED
  BY <1>1, <1>3, <1>4 DEF IInv

\* GetVAByVirtualAccountNo reads a row that is stored, and a pending one if there
\* is one.
LEMMA GetVAReads ==
    ASSUME IInv
    PROVE  /\ GetVA = None <=> Stored = {}
           /\ GetVA # None => /\ GetVA \in Read /\ GetVA.id \in Stored
                              /\ GetVA.row = rows[GetVA.id]
                              /\ WithStatus(Pending) # {} => GetVA.id \in WithStatus(Pending)
<1> DEFINE candidates == IF WithStatus(Pending) # {} THEN WithStatus(Pending) ELSE Stored
           r == Max(candidates)
<1>1. candidates \subseteq Stored /\ Stored \subseteq RowIds
  BY StoredRows DEF IInv
<1>2. CASE candidates = {}
  <2>1. Stored = {} /\ GetVA = None
    BY <1>1, <1>2 DEF GetVA
  <2> QED
    BY <2>1
<1>3. CASE candidates # {}
  <2>1. PICK n \in 0 .. MaxRows : Stored = 1 .. n
    BY DEF IInv, RowsFromOne
  <2>2. r \in candidates
    <3>1. IsFiniteSet(1 .. n) /\ candidates \subseteq 1 .. n
      BY <1>1, <2>1, FS_Interval, BoundsAssumption
    <3>2. n \in Nat
      BY <2>1, BoundsAssumption
    <3>3. \E m \in candidates : \A k \in candidates : m >= k
      <4> HIDE DEF candidates
      <4> QED
        BY <1>3, <3>1, <3>2, GreatestOfRows
    <3> QED
      BY <3>3 DEF Max
  <2>3. GetVA = [id |-> r, row |-> rows[r]]
    BY <1>3 DEF GetVA
  <2> HIDE DEF r
  <2>4. r \in Stored /\ rows[r] \in Row /\ r \in RowIds
    BY <1>1, <2>2, StoredRows DEF IInv
  <2>5. GetVA \in Read /\ GetVA # None
    BY <2>3, <2>4, NoneAssumption DEF Read
  <2> QED
    BY <2>2, <2>3, <2>4, <2>5
<1> QED
  BY <1>2, <1>3

\* The invariant is kept by every statement, call and failure.
LEMMA Invariance == IInv /\ [Next]_vars => IInv'
<1> SUFFICES ASSUME IInv, [Next]_vars PROVE IInv'
  OBVIOUS
<1>0. RowsAreKept /\ TypeOK /\ CountersOK
  BY RowsStep DEF IInv, TypeOK, CountersOK
<1>1. UNCHANGED <<expiryRow, tasks, history>> => CountersOK'
  BY <1>0 DEF CountersOK, tasks, history
<1>2. ASSUME NEW h \in Handlers, Respond(h), vendor' = vendor, CountersOK'
      PROVE  IInv'
  BY <1>0, <1>2, RespondMoves, UntouchedVendorKept, MoveKeepsInvariant
<1>3. ASSUME NEW h \in Handlers, NEW l \in PCs, Goto(h, l), UNCHANGED <<req, read, vendor>>,
             CountersOK', Position(l, req[h], read[h], Stored', PaidInqs')
      PROVE  IInv'
  <2>1. read[h] \in Read \cup {None}
    BY <1>0 DEF TypeOK
  <2>2. HandlerMoves(h)
    BY <1>3, <2>1, GotoMoves
  <2> QED
    BY <1>0, <1>3, <2>2, UntouchedVendorKept, MoveKeepsInvariant
<1>4. ASSUME vendor' = vendor
      PROVE  Stored \subseteq Stored' /\ PaidInqs' = PaidInqs
  BY <1>0, <1>4, UntouchedVendorKept DEF RowsAreKept, VendorIsKept
<1>5. ASSUME NEW h \in Handlers, NEW r \in Request, NEW l \in {"lookup", "byid", "existing", "stale"},
             l = "existing" => r.kind = "payment", l = "byid" => r.kind = "inquiry",
             r.kind = "inquiry" => r.inq \notin PaidInqs, Arrive(h, r, l), cycles' \in 0 .. MaxCycles
      PROVE  IInv'
  <2>1. /\ pc' = [pc EXCEPT ![h] = l] /\ req' = [req EXCEPT ![h] = r]
        /\ UNCHANGED <<rows, expiryRow, vendor, tasks, read, accepted, expiries, recoveries>>
    BY <1>5 DEF Arrive, Goto
  <2>2. CountersOK'
    BY <1>0, <1>5, <2>1 DEF CountersOK, tasks
  <2>3. Stored \subseteq Stored' /\ PaidInqs' = PaidInqs
    BY <1>4, <2>1
  <2>4. Position(l, r, read[h], Stored', PaidInqs')
    BY <1>5, <2>3 DEF Position
  <2>5. pc'[h] = l /\ req'[h] = r /\ read'[h] = read[h]
    BY <1>0, <2>1 DEF TypeOK
  <2>6. HandlerMoves(h)
    BY <1>0, <2>1, <2>4, <2>5 DEF HandlerMoves, TypeOK, PCs
  <2> QED
    BY <1>0, <2>1, <2>2, <2>6, UntouchedVendorKept, MoveKeepsInvariant
<1>6. ASSUME NEW h \in Handlers, Arrivals(h) PROVE IInv'
  <2>1. CASE CreateArrives(h)
    <3>1. PICK t \in Bills, d \in Dates, u \in BOOLEAN :
            Arrive(h, [kind |-> "create", total |-> t, date |-> d, url |-> u], "lookup")
      BY <2>1 DEF CreateArrives
    <3>2. [kind |-> "create", total |-> t, date |-> d, url |-> u] \in Request
      BY DEF Request
    <3>3. cycles' \in 0 .. MaxCycles
      BY <1>0, <2>1, BoundsAssumption DEF CreateArrives, TypeOK
    <3> QED
      BY <1>5, <3>1, <3>2, <3>3
  <2>2. CASE InquiryArrives(h)
    <3>1. PICK i \in InqIds : ~PaidFor(i) /\ Arrive(h, [kind |-> "inquiry", inq |-> i], "byid")
      BY <2>2 DEF InquiryArrives
    <3>2. [kind |-> "inquiry", inq |-> i] \in Request /\ i \notin PaidInqs
      BY <3>1 DEF Request, PaidInqs
    <3>3. cycles' \in 0 .. MaxCycles
      BY <1>0, <2>2 DEF InquiryArrives, TypeOK
    <3> QED
      BY <1>5, <3>1, <3>2, <3>3
  <2>3. CASE PaymentArrives(h)
    <3>1. PICK p \in PayReqs, b \in BillDetails, m \in Bills :
            Arrive(h, [kind |-> "payment", preq |-> p, amount |-> m, bills |-> b], "existing")
      BY <2>3 DEF PaymentArrives
    <3>2. [kind |-> "payment", preq |-> p, amount |-> m, bills |-> b] \in Request
      BY InputsAssumption DEF Request
    <3>3. cycles' \in 0 .. MaxCycles
      BY <1>0, <2>3 DEF PaymentArrives, TypeOK
    <3> QED
      BY <1>5, <3>1, <3>2, <3>3
  <2>4. CASE DeleteArrives(h) \/ ReconcileArrives(h) \/ SweepArrives(h)
    <3>1. PICK k \in {"delete", "reconcile", "sweep"}, l \in {"lookup", "stale"} :
            Arrive(h, [kind |-> k], l)
      BY <2>4 DEF DeleteArrives, ReconcileArrives, SweepArrives
    <3>2. [kind |-> k] \in Request
      BY DEF Request
    <3>3. cycles' \in 0 .. MaxCycles
      BY <1>0, <2>4 DEF DeleteArrives, ReconcileArrives, SweepArrives, TypeOK
    <3> QED
      BY <1>5, <3>1, <3>2, <3>3
  <2> QED
    BY <1>6, <2>1, <2>2, <2>3, <2>4 DEF Arrivals
<1>7. ASSUME NEW h \in Handlers, NEW rec, pc[h] \in {"lookup", "byid", "stale"},
             rec = None \/ (rec \in Read /\ rec.id \in Stored), Continue(h, rec),
             UNCHANGED <<rows, expiryRow, tasks, history>>
      PROVE  IInv'
  BY <1>0, <1>1, <1>7, ContinueMoves, MoveKeepsInvariant
<1>8. ASSUME NEW h \in Handlers PROVE Position(pc[h], req[h], read[h], Stored, PaidInqs)
  BY DEF IInv, WellFormed
<1>9. ASSUME NEW r \in Stored
      PROVE  [id |-> r, row |-> rows[r]] \in Read /\ [id |-> r, row |-> rows[r]].id \in Stored
  BY <1>0, StoredRows DEF Read
<1>10. ASSUME NEW h \in Handlers, Lookup(h) PROVE IInv'
  <2>1. UNCHANGED <<rows, expiryRow, tasks, history>> /\ pc[h] = "lookup"
    BY <1>10 DEF Lookup
  <2>2. CASE Continue(h, GetVA)
    BY <1>7, <2>1, <2>2, GetVAReads
  <2>3. CASE req[h].kind = "create" /\ Goto(h, "open") /\ UNCHANGED <<req, read, vendor>>
    <3>1. Position("open", req[h], read[h], Stored', PaidInqs')
      BY <1>8, <2>1, <2>3 DEF Position
    <3> QED
      BY <1>1, <1>3, <2>1, <2>3, <3>1 DEF PCs
  <2> QED
    BY <1>10, <2>2, <2>3 DEF Lookup
<1>11. ASSUME NEW h \in Handlers, GetInquiry(h) PROVE IInv'
  <2>1. UNCHANGED <<rows, expiryRow, tasks, history>> /\ pc[h] = "byid"
    BY <1>11 DEF GetInquiry
  <2>2. ASSUME NEW r \in WithInq(req[h].inq), Continue(h, [id |-> r, row |-> rows[r]])
        PROVE  IInv'
    <3>1. r \in Stored
      BY DEF WithInq
    <3> QED
      BY <1>7, <1>9, <2>1, <2>2, <3>1
  <2>3. CASE Goto(h, "lookup") /\ UNCHANGED <<req, read, vendor>>
    <3>1. Position("lookup", req[h], read[h], Stored', PaidInqs')
      BY <1>4, <1>8, <2>1, <2>3 DEF Position
    <3> QED
      BY <1>1, <1>3, <2>1, <2>3, <3>1 DEF PCs
  <2> QED
    BY <1>11, <2>2, <2>3 DEF GetInquiry
<1>12. ASSUME NEW h \in Handlers, ListStale(h) PROVE IInv'
  <2>1. UNCHANGED <<rows, expiryRow, tasks, history>> /\ pc[h] = "stale"
    BY <1>12 DEF ListStale
  <2>2. ASSUME NEW r \in WithStatus(Pending), Continue(h, [id |-> r, row |-> rows[r]])
        PROVE  IInv'
    <3>1. r \in Stored
      BY DEF WithStatus
    <3> QED
      BY <1>7, <1>9, <2>1, <2>2, <3>1
  <2>3. CASE Respond(h) /\ UNCHANGED vendor
    BY <1>1, <1>2, <2>1, <2>3
  <2> QED
    BY <1>12, <2>2, <2>3, Zenon DEF ListStale
<1>13. ASSUME NEW h \in Handlers, SaveInquiry(h) \/ CancelVA(h) \/ Stop(h) PROVE IInv'
  BY <1>1, <1>2, <1>13, Zenon DEF SaveInquiry, CancelVA, Stop
<1>14. ASSUME NEW h \in Handlers, Claim(h) PROVE IInv'
  <2>1. Respond(h) /\ UNCHANGED <<expiryRow, tasks, history>> /\ pc[h] = "claim"
        /\ (vendor' = vendor \/ Quote(h, read[h]))
    BY <1>14 DEF Claim
  <2>2. read[h].row \in Row
    BY <1>8, <2>1 DEF Position, Read
  <2>3. VendorIsKept
    BY <2>1, <2>2, UntouchedVendorKept, QuoteKeepsVendor
  <2> QED
    BY <1>0, <1>1, <2>1, <2>3, RespondMoves, MoveKeepsInvariant
<1>15. ASSUME NEW h \in Handlers, CheckExisting(h) PROVE IInv'
  <2>1. UNCHANGED <<rows, expiryRow, vendor, tasks, history>> /\ pc[h] = "existing"
    BY <1>15 DEF CheckExisting
  <2>2. CASE Respond(h)
    BY <1>1, <1>2, <2>1, <2>2
  <2>3. CASE Goto(h, "lookup") /\ UNCHANGED <<req, read>>
    <3>1. Position("lookup", req[h], read[h], Stored', PaidInqs')
      BY <1>4, <1>8, <2>1 DEF Position
    <3> QED
      BY <1>1, <1>3, <2>1, <2>3, <3>1 DEF PCs
  <2> QED
    BY <1>15, <2>2, <2>3 DEF CheckExisting
<1>16. ASSUME NEW h \in Handlers, SavePayment(h) PROVE IInv'
  <2> DEFINE l == IF req[h].bills THEN "bills" ELSE "notify"
  <2>1. /\ UNCHANGED <<expiryRow, vendor, tasks, req, history>> /\ pc[h] = "save"
        /\ Goto(h, l)
    BY <1>16 DEF SavePayment
  <2>2. read[h] \in Read /\ req[h] \in Request /\ req[h].kind = "payment"
    BY <1>8, <2>1 DEF Position
  <2>3. PICK id \in RowIds \cup {None} : read' = [read EXCEPT ![h] = [@ EXCEPT !.id = id]]
    BY <1>16, SavePaymentWrites
  <2> DEFINE d == [read[h] EXCEPT !.id = id]
  <2>4. d \in Read
    BY <2>2 DEF Read
  <2>5. read' = [read EXCEPT ![h] = d]
    BY <2>3
  <2>6. l \in {"bills", "notify"}
    OBVIOUS
  <2> HIDE DEF l, d
  <2>7. Position(l, req[h], d, Stored', PaidInqs')
    BY <2>2, <2>4, <2>6 DEF Position
  <2>8. HandlerMoves(h)
    BY <2>1, <2>4, <2>5, <2>6, <2>7, GotoMoves DEF PCs
  <2> QED
    BY <1>0, <1>1, <2>1, <2>8, UntouchedVendorKept, MoveKeepsInvariant, SMTT(30)
<1>17. ASSUME NEW h \in Handlers, SaveBillDetails(h) PROVE IInv'
  <2>1. UNCHANGED <<rows, expiryRow, vendor, tasks, history>> /\ pc[h] = "bills"
    BY <1>17 DEF SaveBillDetails
  <2>2. CASE Respond(h)
    BY <1>1, <1>2, <2>1, <2>2
  <2>3. CASE Goto(h, "notify") /\ UNCHANGED <<req, read>>
    <3>1. Position("notify", req[h], read[h], Stored', PaidInqs')
      BY <1>4, <1>8, <2>1 DEF Position
    <3> QED
      BY <1>1, <1>3, <2>1, <2>3, <3>1 DEF PCs
  <2> QED
    BY <1>17, <2>2, <2>3 DEF SaveBillDetails
<1>18. ASSUME NEW h \in Handlers, NotifyPayment(h) PROVE IInv'
  <2>1. req[h] \in Request /\ req[h].kind = "payment"
    BY <1>8, <1>18 DEF Position, NotifyPayment
  <2>2. req[h].preq \in PayReqs
    BY <2>1, RequestFields
  <2>3. CountersOK'
    BY <1>0, <1>18, <2>2 DEF NotifyPayment, CountersOK
  <2> QED
    BY <1>2, <1>18, <2>3 DEF NotifyPayment
<1>19. ASSUME NEW h \in Handlers, MarkExpired(h) PROVE IInv'
  <2>1. /\ UNCHANGED <<expiryRow, vendor, tasks, accepted, recoveries, cycles>>
        /\ pc[h] = "mark" /\ (expiries' = expiries \/ expiries' = expiries + 1)
    BY <1>19 DEF MarkExpired
  <2>2. CountersOK'
    BY <1>0, <2>1 DEF CountersOK, tasks
  <2>3. CASE Respond(h)
    BY <1>2, <2>1, <2>2, <2>3
  <2>4. CASE Goto(h, "dedupe") /\ UNCHANGED <<req, read>>
    <3>1. Position("dedupe", req[h], read[h], Stored', PaidInqs')
      BY <1>4, <1>8, <2>1 DEF Position
    <3> QED
      BY <1>3, <2>1, <2>2, <2>4, <3>1 DEF PCs
  <2> QED
    BY <1>19, <2>3, <2>4 DEF MarkExpired
<1>20. ASSUME NEW h \in Handlers, DedupeExpiry(h) PROVE IInv'
  <2>1. UNCHANGED <<rows, expiryRow, vendor, tasks, history>> /\ pc[h] = "dedupe"
    BY <1>20 DEF DedupeExpiry
  <2>2. CASE Respond(h)
    BY <1>1, <1>2, <2>1, <2>2
  <2>3. CASE Goto(h, "expire") /\ UNCHANGED <<req, read>>
    <3>1. Position("expire", req[h], read[h], Stored', PaidInqs')
      BY <1>4, <1>8, <2>1 DEF Position
    <3> QED
      BY <1>1, <1>3, <2>1, <2>3, <3>1 DEF PCs
  <2> QED
    BY <1>20, <2>2, <2>3 DEF DedupeExpiry
<1>21. ASSUME NEW h \in Handlers, NotifyExpiry(h) PROVE IInv'
  <2>1. expiryRow' \in BOOLEAN
    BY <1>0, <1>21 DEF NotifyExpiry, CountersOK
  <2>2. expiryCallbacks' \in Nat
    BY <1>0, <1>21 DEF NotifyExpiry, CountersOK
  <2>3. Respond(h) /\ UNCHANGED <<rows, vendor, callbacks, recoveredCallbacks, history>>
    BY <1>21 DEF NotifyExpiry
  <2>4. CountersOK'
    BY <1>0, <2>1, <2>2, <2>3 DEF CountersOK, history
  <2> QED
    BY <1>2, <2>3, <2>4
<1>22. ASSUME NEW h \in Handlers, VendorAnswers(h) PROVE IInv'
  <2>1. UNCHANGED <<rows, expiryRow, vendor, tasks, history>> /\ pc[h] = "vendor"
    BY <1>22 DEF VendorAnswers
  <2>2. CASE Respond(h)
    BY <1>1, <1>2, <2>1, <2>2
  <2>3. CASE ~Respond(h)
    <3>1. /\ Goto(h, "settle") /\ UNCHANGED <<req, read>>
          /\ ~PaidFor(read[h].row.inq) => ClassifyVendorStatus("4042601", "01") = "settled"
      BY <1>22, <2>3 DEF VendorAnswers
    <3>2. ClassifyVendorStatus("4042601", "01") # "settled"
      BY DEF ClassifyVendorStatus
    <3>3. Position("settle", req[h], read[h], Stored', PaidInqs')
      BY <1>4, <1>8, <2>1, <3>1, <3>2 DEF Position, PaidInqs
    <3> QED
      BY <1>1, <1>3, <2>1, <3>1, <3>3 DEF PCs
  <2> QED
    BY <2>2, <2>3
<1>23. ASSUME NEW h \in Handlers, Settle(h) PROVE IInv'
  <2>1. /\ UNCHANGED <<expiryRow, vendor, tasks, accepted, expiries, cycles>>
        /\ pc[h] = "settle" /\ (recoveries' = recoveries \/ recoveries' = recoveries + 1)
    BY <1>23 DEF Settle
  <2>2. CountersOK'
    BY <1>0, <2>1 DEF CountersOK, tasks
  <2>3. CASE Respond(h)
    BY <1>2, <2>1, <2>2, <2>3
  <2>4. CASE Goto(h, "recovered") /\ UNCHANGED <<req, read>>
    <3>1. Position("recovered", req[h], read[h], Stored', PaidInqs')
      BY <1>4, <1>8, <2>1 DEF Position
    <3> QED
      BY <1>3, <2>1, <2>2, <2>4, <3>1 DEF PCs
  <2> QED
    BY <1>23, <2>3, <2>4 DEF Settle
<1>24. ASSUME NEW h \in Handlers, NotifyRecovered(h) PROVE IInv'
  <2> DEFINE p == vendor[read[h].row.inq].preq
  <2>1. p \in PayReqs
    BY <1>0, <1>8, <1>24 DEF NotifyRecovered, Position, PaidInqs, PaidFor, TypeOK, VendorRecord
  <2>2. CountersOK'
    BY <1>0, <1>24, <2>1 DEF NotifyRecovered, CountersOK, history
  <2> QED
    BY <1>2, <1>24, <2>2 DEF NotifyRecovered
<1>25. ASSUME NEW i \in InqIds, NEW p \in PayReqs, NEW f \in {"00", "02"}, CustomerPays(i, p, f)
       PROVE  IInv'
  <2> DEFINE new == [vendor[i] EXCEPT !.preq = p, !.flag = f]
  <2>1. vendor[i] \in VendorRecord /\ i \notin PaidInqs
    BY <1>0, <1>25 DEF CustomerPays, TypeOK, PaidInqs
  <2>2. new \in VendorRecord /\ new.preq # None /\ new # None
    BY <2>1, NoneAssumption DEF VendorRecord
  <2>3. vendor' = [vendor EXCEPT ![i] = new]
    BY <1>25, <2>1 DEF CustomerPays
  <2>4. UNCHANGED <<rows, expiryRow, tasks, pc, req, read, history>>
    BY <1>25 DEF CustomerPays
  <2> HIDE DEF new
  <2>5. vendor' \in [InqIds -> VendorRecord \cup {None}] /\ PaidInqs' = PaidInqs \cup {i}
    BY <1>0, <2>2, <2>3 DEF TypeOK, PaidInqs, PaidFor
  <2>6. TypeOK'
    BY <1>0, <2>4, <2>5 DEF TypeOK, tasks, history
  <2>7. Stored' = Stored /\ RowsFromOne'
    BY <1>0, <2>4 DEF Stored, RowsAreKept
  <2>8. ASSUME NEW h \in Handlers
        PROVE  Position(pc'[h], req'[h], read'[h], Stored', PaidInqs')
    <3>1. req[h] # None /\ req[h].kind = "inquiry" => req[h].inq # i
      BY <1>25 DEF CustomerPays
    <3>2. pc[h] # "idle" => req[h] # None
      BY <1>8, NoneAssumption DEF Position
    <3> QED
      BY <1>8, <2>4, <2>5, <2>7, <3>1, <3>2 DEF Position
  <2> QED
    BY <2>6, <2>7, <2>8 DEF IInv, WellFormed
<1>26. ASSUME UNCHANGED <<expiryRow, vendor, tasks, pc, req, read, history>>
       PROVE  IInv'
  <2>1. Stored \subseteq Stored' /\ PaidInqs' = PaidInqs
    BY <1>4, <1>26
  <2>2. TypeOK'
    BY <1>0, <1>26 DEF TypeOK, RowsAreKept, tasks, history
  <2>3. ASSUME NEW h \in Handlers
        PROVE  Position(pc'[h], req'[h], read'[h], Stored', PaidInqs')
    BY <1>8, <1>26, <2>1, PositionIsKept
  <2> QED
    BY <1>0, <2>2, <2>3 DEF IInv, WellFormed, RowsAreKept
<1>27. ASSUME NEW r \in RowIds, ExpiredDatePasses(r) PROVE IInv'
  BY <1>26, <1>27 DEF ExpiredDatePasses
<1>28. CASE UNCHANGED vars
  BY <1>26, <1>28 DEF vars
<1> QED
  BY <1>6, <1>10, <1>11, <1>12, <1>13, <1>14, <1>15, <1>16, <1>17, <1>18, <1>19, <1>20,
     <1>21, <1>22, <1>23, <1>24, <1>25, <1>27, <1>28 DEF Next, Step

\* The invariant holds in every state.
LEMMA AlwaysInvariant == Spec => []IInv
BY InitInvariant, Invariance, PTL DEF Spec

-----------------------------------------------------------------------------
(* Under every interleaving                                                *)

\* Rows, callbacks and the records handlers hold keep their types, in every state
\* and under every interleaving.
THEOREM TypeCorrect == Spec => []TypeOK
<1>1. IInv => TypeOK
  BY DEF IInv
<1> QED
  BY <1>1, AlwaysInvariant, PTL

\* An id that ClaimInquiryRequestID put on a transaction is never replaced, by
\* any number of handlers on any number of rows.
THEOREM ClaimIsKept == Spec => ClaimedIdIsKept
<1>1. IInv /\ [Next]_vars
        => [\A r \in RowIds : Claimed(rows[r]) => rows'[r].inq = rows[r].inq]_vars
  <2> SUFFICES ASSUME IInv, [Next]_vars, NEW r \in RowIds, Claimed(rows[r])
               PROVE  rows'[r].inq = rows[r].inq
    OBVIOUS
  <2>1. r \in Stored
    BY DEF Claimed, Stored
  <2> QED
    BY <2>1, RowsStep DEF RowsAreKept, KeepsClaimed, Claimed
<1> QED
  BY <1>1, AlwaysInvariant, PTL DEF Spec, ClaimedIdIsKept

\* A claimed transaction that was paid stays paid: no late deletion, expiry,
\* create-va or second payment takes it back to another status.
THEOREM PaidIsKept == Spec => PaidStaysPaid
<1>1. IInv /\ [Next]_vars
        => [\A r \in RowIds : Claimed(rows[r]) /\ rows[r].status = Success
              => rows'[r].status = Success]_vars
  <2> SUFFICES ASSUME IInv, [Next]_vars, NEW r \in RowIds, Claimed(rows[r]),
                      rows[r].status = Success
               PROVE  rows'[r].status = Success
    OBVIOUS
  <2>1. r \in Stored
    BY DEF Claimed, Stored
  <2> QED
    BY <2>1, RowsStep DEF RowsAreKept, KeepsClaimed, Claimed
<1> QED
  BY <1>1, AlwaysInvariant, PTL DEF Spec, PaidStaysPaid

-----------------------------------------------------------------------------
(* Callbacks under every interleaving                                      *)

\* The handlers at one of the positions L.
Owing(L) == {h \in Handlers : pc[h] \in L}

\* Where a transition to expired, or a settlement by the reconciler, is committed
\* and its callback is still to come.
OwesExpiry   == {"dedupe", "expire"}
OwesRecovery == {"recovered"}

\* The callbacks sent and the handlers that owe one are together no more than
\* the transitions that ask for one.
Debt(L, sent, asked) ==
    /\ IsFiniteSet(Owing(L))
    /\ sent + Cardinality(Owing(L)) <= asked

CallbackInv ==
    /\ Debt(OwesExpiry, expiryCallbacks, expiries)
    /\ Debt(OwesRecovery, recoveredCallbacks, recoveries)

\* One handler moves: it stays clear of L or within it, it incurs the debt, or it
\* pays or forgoes it.
LEMMA DebtIsKept ==
    ASSUME NEW L, NEW h \in Handlers, NEW l, pc \in [Handlers -> PCs], Goto(h, l),
           NEW sent \in Nat, NEW asked \in Nat, NEW sent2 \in Nat, NEW asked2 \in Nat,
           Debt(L, sent, asked),
           \/ (pc[h] \in L <=> l \in L) /\ sent2 = sent /\ asked2 = asked
           \/ pc[h] \notin L /\ l \in L /\ sent2 = sent /\ asked2 = asked + 1
           \/ pc[h] \in L /\ l \notin L /\ sent2 \in {sent, sent + 1} /\ asked2 = asked
    PROVE  /\ IsFiniteSet(Owing(L)')
           /\ sent2 + Cardinality(Owing(L)') <= asked2
<1>0. /\ IsFiniteSet(Owing(L)) /\ Cardinality(Owing(L)) \in Nat
      /\ sent + Cardinality(Owing(L)) <= asked
  BY FS_CardinalityType DEF Debt
<1>1. pc'[h] = l /\ \A g \in Handlers \ {h} : pc'[g] = pc[g]
  BY DEF Goto
<1>2. CASE (pc[h] \in L <=> l \in L) /\ sent2 = sent /\ asked2 = asked
  <2>1. Owing(L)' = Owing(L)
    BY <1>1, <1>2 DEF Owing
  <2> QED
    BY <1>0, <1>2, <2>1
<1>3. CASE pc[h] \notin L /\ l \in L /\ sent2 = sent /\ asked2 = asked + 1
  <2>1. Owing(L)' = Owing(L) \cup {h} /\ h \notin Owing(L)
    BY <1>1, <1>3 DEF Owing
  <2>2. IsFiniteSet(Owing(L)') /\ Cardinality(Owing(L)') = Cardinality(Owing(L)) + 1
    BY <1>0, <2>1, FS_AddElement
  <2> QED
    BY <1>0, <1>3, <2>2
<1>4. CASE pc[h] \in L /\ l \notin L /\ sent2 \in {sent, sent + 1} /\ asked2 = asked
  <2>1. Owing(L)' = Owing(L) \ {h} /\ h \in Owing(L)
    BY <1>1, <1>4 DEF Owing
  <2>2. IsFiniteSet(Owing(L)') /\ Cardinality(Owing(L)') = Cardinality(Owing(L)) - 1
    BY <1>0, <2>1, FS_RemoveElement
  <2> QED
    BY <1>0, <1>4, <2>2
<1> QED
  BY <1>2, <1>3, <1>4

\* A handler that continues with a record owes no callback yet.
LEMMA ContinueOwesNothing ==
    ASSUME IInv, NEW h \in Handlers, pc[h] \in {"lookup", "byid", "stale"}, NEW rec,
           Continue(h, rec)
    PROVE  \E l \in PCs \ (OwesExpiry \cup OwesRecovery) : Goto(h, l)
<1>1. req[h].kind \in RequestKinds
  BY RequestFields DEF IInv, WellFormed, Position
<1>2. Route(h, rec) \in {"open", "cancel", "vendor", "mark", "claim", "save", "answer"}
  BY <1>1 DEF Route, RequestKinds
<1> QED
  BY <1>2, Zenon DEF Continue, Respond, PCs, OwesExpiry, OwesRecovery

\* What a step does to the callbacks and their reasons: a transition to expired
\* and a settlement each leave one handler owing, and only that handler sends.
LEMMA CallbackShape ==
    ASSUME IInv, [Next]_vars
    PROVE  \/ UNCHANGED <<pc, tasks, expiries, recoveries>>
           \/ \E h \in Handlers, l \in PCs :
                /\ Goto(h, l)
                /\ \/ /\ UNCHANGED <<expiryCallbacks, expiries>>
                      /\ pc[h] \in OwesExpiry <=> l \in OwesExpiry
                   \/ /\ pc[h] \notin OwesExpiry /\ l \in OwesExpiry
                      /\ expiries' = expiries + 1 /\ UNCHANGED expiryCallbacks
                   \/ /\ pc[h] \in OwesExpiry /\ l \notin OwesExpiry
                      /\ expiryCallbacks' \in {expiryCallbacks, expiryCallbacks + 1}
                      /\ UNCHANGED expiries
                /\ \/ /\ UNCHANGED <<recoveredCallbacks, recoveries>>
                      /\ pc[h] \in OwesRecovery <=> l \in OwesRecovery
                   \/ /\ pc[h] \notin OwesRecovery /\ l \in OwesRecovery
                      /\ recoveries' = recoveries + 1 /\ UNCHANGED recoveredCallbacks
                   \/ /\ pc[h] \in OwesRecovery /\ l \notin OwesRecovery
                      /\ recoveredCallbacks' \in {recoveredCallbacks, recoveredCallbacks + 1}
                      /\ UNCHANGED recoveries
<1> USE DEF PCs, OwesExpiry, OwesRecovery
<1>1. ASSUME NEW h \in Handlers, Arrivals(h)
      PROVE  \E l \in {"lookup", "byid", "existing", "stale"} :
               pc[h] = "idle" /\ Goto(h, l) /\ UNCHANGED <<tasks, expiries, recoveries>>
  BY <1>1, Zenon DEF Arrivals, CreateArrives, InquiryArrives, PaymentArrives, DeleteArrives,
     ReconcileArrives, SweepArrives, Arrive
<1>2. ASSUME NEW h \in Handlers, Lookup(h) \/ GetInquiry(h) \/ ListStale(h)
      PROVE  /\ pc[h] \in {"lookup", "byid", "stale"}
             /\ \E l \in PCs \ (OwesExpiry \cup OwesRecovery) : Goto(h, l)
             /\ UNCHANGED <<tasks, expiries, recoveries>>
  <2>1. pc[h] \in {"lookup", "byid", "stale"} /\ UNCHANGED <<tasks, expiries, recoveries>>
    BY <1>2 DEF Lookup, GetInquiry, ListStale, history
  <2>2. \/ \E rec : Continue(h, rec)
        \/ Goto(h, "open") \/ Goto(h, "lookup") \/ Goto(h, "idle")
    BY <1>2, Zenon DEF Lookup, GetInquiry, ListStale, Respond
  <2> QED
    BY <2>1, <2>2, ContinueOwesNothing
<1>3. ASSUME NEW h \in Handlers,
             \/ SaveInquiry(h) \/ CancelVA(h) \/ Claim(h) \/ CheckExisting(h) \/ SavePayment(h)
             \/ SaveBillDetails(h) \/ VendorAnswers(h)
      PROVE  /\ pc[h] \notin OwesExpiry \cup OwesRecovery
             /\ \E l \in PCs \ (OwesExpiry \cup OwesRecovery) : Goto(h, l)
             /\ UNCHANGED <<tasks, expiries, recoveries>>
  BY <1>3, Zenon DEF SaveInquiry, CancelVA, Claim, CheckExisting, SavePayment, SaveBillDetails,
     VendorAnswers, Respond, history
<1>4. ASSUME NEW h \in Handlers, NotifyPayment(h)
      PROVE  /\ pc[h] = "notify" /\ Goto(h, "idle")
             /\ UNCHANGED <<expiryCallbacks, recoveredCallbacks, expiries, recoveries>>
  BY <1>4 DEF NotifyPayment, Respond
<1>5. ASSUME NEW h \in Handlers, MarkExpired(h)
      PROVE  /\ pc[h] = "mark" /\ UNCHANGED <<tasks, recoveries>>
             /\ \/ Goto(h, "dedupe") /\ expiries' = expiries + 1
                \/ Goto(h, "idle") /\ UNCHANGED expiries
  BY <1>5 DEF MarkExpired, Respond
<1>6. ASSUME NEW h \in Handlers, DedupeExpiry(h)
      PROVE  /\ pc[h] = "dedupe" /\ UNCHANGED <<tasks, expiries, recoveries>>
             /\ Goto(h, "expire") \/ Goto(h, "idle")
  BY <1>6 DEF DedupeExpiry, Respond, history
<1>7. ASSUME NEW h \in Handlers, NotifyExpiry(h)
      PROVE  /\ pc[h] = "expire" /\ UNCHANGED <<recoveredCallbacks, expiries, recoveries>>
             /\ expiryCallbacks' \in {expiryCallbacks, expiryCallbacks + 1}
             /\ Goto(h, "idle")
  BY <1>7 DEF NotifyExpiry, Respond, history
<1>8. ASSUME NEW h \in Handlers, Settle(h)
      PROVE  /\ pc[h] = "settle" /\ UNCHANGED <<tasks, expiries>>
             /\ \/ Goto(h, "recovered") /\ recoveries' = recoveries + 1
                \/ Goto(h, "idle") /\ UNCHANGED recoveries
  BY <1>8 DEF Settle, Respond
<1>9. ASSUME NEW h \in Handlers, NotifyRecovered(h)
      PROVE  /\ pc[h] = "recovered" /\ UNCHANGED <<expiryCallbacks, expiries, recoveries>>
             /\ recoveredCallbacks' \in {recoveredCallbacks, recoveredCallbacks + 1}
             /\ Goto(h, "idle")
  BY <1>9 DEF NotifyRecovered, Respond, history
<1>10. ASSUME NEW h \in Handlers, Stop(h)
       PROVE  Goto(h, "idle") /\ UNCHANGED <<tasks, expiries, recoveries>>
  BY <1>10 DEF Stop, Respond, history
<1>11. CASE \/ UNCHANGED vars
            \/ \E i \in InqIds, p \in PayReqs, f \in {"00", "02"} : CustomerPays(i, p, f)
            \/ \E r \in RowIds : ExpiredDatePasses(r)
  BY <1>11 DEF vars, CustomerPays, ExpiredDatePasses, history
<1> USE DEF tasks
<1> QED
  BY <1>1, <1>2, <1>3, <1>4, <1>5, <1>6, <1>7, <1>8, <1>9, <1>10, <1>11, SMTT(30) DEF Next, Step

\* So neither debt is ever paid twice.
LEMMA CallbackStep == IInv /\ CallbackInv /\ [Next]_vars => CallbackInv'
<1> SUFFICES ASSUME IInv, CallbackInv, [Next]_vars PROVE CallbackInv'
  OBVIOUS
<1>0. /\ pc \in [Handlers -> PCs] /\ expiryCallbacks \in Nat /\ expiries \in Nat
      /\ recoveredCallbacks \in Nat /\ recoveries \in Nat
      /\ expiryCallbacks' \in Nat /\ expiries' \in Nat
      /\ recoveredCallbacks' \in Nat /\ recoveries' \in Nat
  BY Invariance DEF IInv, TypeOK
<1>1. CASE UNCHANGED <<pc, tasks, expiries, recoveries>>
  BY <1>1 DEF CallbackInv, Debt, Owing, tasks
<1>2. CASE ~UNCHANGED <<pc, tasks, expiries, recoveries>>
  <2>1. PICK h \in Handlers, l \in PCs :
          /\ Goto(h, l)
          /\ \/ /\ UNCHANGED <<expiryCallbacks, expiries>>
                /\ pc[h] \in OwesExpiry <=> l \in OwesExpiry
             \/ /\ pc[h] \notin OwesExpiry /\ l \in OwesExpiry
                /\ expiries' = expiries + 1 /\ UNCHANGED expiryCallbacks
             \/ /\ pc[h] \in OwesExpiry /\ l \notin OwesExpiry
                /\ expiryCallbacks' \in {expiryCallbacks, expiryCallbacks + 1}
                /\ UNCHANGED expiries
          /\ \/ /\ UNCHANGED <<recoveredCallbacks, recoveries>>
                /\ pc[h] \in OwesRecovery <=> l \in OwesRecovery
             \/ /\ pc[h] \notin OwesRecovery /\ l \in OwesRecovery
                /\ recoveries' = recoveries + 1 /\ UNCHANGED recoveredCallbacks
             \/ /\ pc[h] \in OwesRecovery /\ l \notin OwesRecovery
                /\ recoveredCallbacks' \in {recoveredCallbacks, recoveredCallbacks + 1}
                /\ UNCHANGED recoveries
    BY <1>2, CallbackShape, Zenon
  <2>2. Debt(OwesExpiry, expiryCallbacks, expiries)'
    BY <1>0, <2>1, DebtIsKept DEF CallbackInv, Debt, OwesExpiry
  <2>3. Debt(OwesRecovery, recoveredCallbacks, recoveries)'
    BY <1>0, <2>1, DebtIsKept DEF CallbackInv, Debt, OwesRecovery
  <2> QED
    BY <2>2, <2>3 DEF CallbackInv
<1> QED
  BY <1>1, <1>2

\* Nobody owes a callback before any call.
LEMMA CallbackInit == Init => CallbackInv
<1> SUFFICES ASSUME Init PROVE CallbackInv
  OBVIOUS
<1>1. /\ Owing(OwesExpiry) = {} /\ Owing(OwesRecovery) = {}
      /\ expiryCallbacks = 0 /\ expiries = 0 /\ recoveredCallbacks = 0 /\ recoveries = 0
  BY DEF Init, Owing, OwesExpiry, OwesRecovery
<1> QED
  BY <1>1, FS_EmptySet DEF CallbackInv, Debt

\* In every state the callbacks sent are at most the transitions that ask for one.
LEMMA AlwaysCallbacks == Spec => [](IInv /\ CallbackInv)
BY AlwaysInvariant, CallbackInit, CallbackStep, PTL DEF Spec

\* However many reconciliations, sweeps and payments race for a pending row, the
\* reconciler calls the merchant back at most once per settlement it made: its
\* guarded UPDATE lets one caller go on to notifyRecovered.
THEOREM RecoveryIsToldOnce == Spec => []RecoveredIsToldOnce
<1>1. IInv /\ CallbackInv => RecoveredIsToldOnce
  BY FS_CardinalityType DEF IInv, TypeOK, CallbackInv, Debt, RecoveredIsToldOnce
<1> QED
  BY <1>1, AlwaysCallbacks, PTL

\* However many inquiries and payments detect the same expired date, no more
\* va.expired callbacks go out than transactions were marked expired.
THEOREM ExpiryIsCalledBackOnce == Spec => []ExpiryCallbackPerTransition
<1>1. IInv /\ CallbackInv => ExpiryCallbackPerTransition
  BY FS_CardinalityType DEF IInv, TypeOK, CallbackInv, Debt, ExpiryCallbackPerTransition
<1> QED
  BY <1>1, AlwaysCallbacks, PTL

-----------------------------------------------------------------------------
(* One request at a time                                                   *)

\* Requests for the number are served one after the other, by one handler, and
\* no query fails; a request may still stop half way, and be repeated.
OneAtATime == (\A g, h \in Handlers : g = h) /\ "db" \notin Faults

\* What holds of the rows t and of what the vendor knows, v, between any two
\* statements: an inquiry id is on one row, one row is pending, the vendor was
\* told the total of the row that carries the id, and what was paid was billed.
TableOK(t, v) ==
    /\ \A r, s \in RowIds : (t[r] # None /\ t[s] # None /\ t[r].inq = t[s].inq) => r = s
    /\ \A r, s \in RowIds : (/\ t[r] # None /\ t[r].status = Pending
                             /\ t[s] # None /\ t[s].status = Pending) => r = s
    /\ \A r \in RowIds : (t[r] # None /\ t[r].inq \in InqIds /\ v[t[r].inq] # None)
                           => v[t[r].inq].amount = t[r].total
    /\ \A r \in RowIds : (t[r] # None /\ t[r].status = Success) => t[r].paid = t[r].total

\* The record d is what the row still says, and the row is pending.
StillOpen(d, t) ==
    /\ d.id \in RowIds /\ t[d.id] # None
    /\ t[d.id].status = Pending /\ t[d.id].inq = d.row.inq /\ t[d.id].total = d.row.total

\* What the handler has found out is still so at its next statement.
UpToDate(l, q, d, t) ==
    /\ l = "stale" => q.kind = "sweep"
    /\ l = "open" => \A r \in RowIds : t[r] # None => t[r].status # Pending
    /\ (l = "lookup" /\ q.kind = "inquiry") => \A r \in RowIds : t[r] # None => t[r].inq # q.inq
    /\ l \in {"save", "claim", "vendor", "settle"} => StillOpen(d, t)
    /\ l = "save" => q.amount = d.row.total
    /\ l = "claim" => d.row.inq = Placeholder /\ IsOpen(d) /\ ~IsExpired(d.row)

SerialInv ==
    /\ IInv
    /\ TableOK(rows, vendor)
    /\ \A h \in Handlers : UpToDate(pc[h], req[h], read[h], rows)

\* One row is written.
LEMMA RowKeepsTable ==
    ASSUME NEW t \in [RowIds -> Row \cup {None}], NEW v, TableOK(t, v),
           NEW r \in RowIds, NEW new \in Row,
           \A s \in RowIds \ {r} : t[s] # None => t[s].inq # new.inq,
           new.status = Pending => \A s \in RowIds \ {r} : t[s] # None => t[s].status # Pending,
           (new.inq \in InqIds /\ v[new.inq] # None) => v[new.inq].amount = new.total,
           new.status = Success => new.paid = new.total
    PROVE  TableOK([t EXCEPT ![r] = new], v)
<1> DEFINE u == [t EXCEPT ![r] = new]
<1>1. u[r] = new /\ \A s \in RowIds \ {r} : u[s] = t[s]
  OBVIOUS
<1> HIDE DEF u
<1>2. \A a, b \in RowIds : (u[a] # None /\ u[b] # None /\ u[a].inq = u[b].inq) => a = b
  BY <1>1 DEF TableOK
<1>3. \A a, b \in RowIds : (/\ u[a] # None /\ u[a].status = Pending
                            /\ u[b] # None /\ u[b].status = Pending) => a = b
  BY <1>1 DEF TableOK
<1>4. \A a \in RowIds : (u[a] # None /\ u[a].inq \in InqIds /\ v[u[a].inq] # None)
                          => v[u[a].inq].amount = u[a].total
  BY <1>1 DEF TableOK
<1>5. \A a \in RowIds : (u[a] # None /\ u[a].status = Success) => u[a].paid = u[a].total
  BY <1>1 DEF TableOK
<1>6. TableOK(u, v)
  BY <1>2, <1>3, <1>4, <1>5 DEF TableOK
<1> QED
  BY <1>6 DEF u

\* Rows are closed, or their dates pass: ids and totals stay.
LEMMA ClosingKeepsTable ==
    ASSUME NEW t, NEW u, NEW v, TableOK(t, v),
           \A r \in RowIds : u[r] # None =>
             /\ t[r] # None /\ u[r].inq = t[r].inq /\ u[r].total = t[r].total
             /\ u[r].status = Pending => t[r].status = Pending
             /\ u[r].status = Success => u[r].paid = u[r].total
    PROVE  TableOK(u, v)
BY DEF TableOK

\* The vendor learns of an inquiry the total of the row that carries its id.
LEMMA AnswerKeepsTable ==
    ASSUME NEW t, NEW v \in [InqIds -> VendorRecord \cup {None}], TableOK(t, v),
           NEW i \in InqIds, NEW new,
           \A r \in RowIds : (t[r] # None /\ t[r].inq = i) => new.amount = t[r].total
    PROVE  TableOK(t, [v EXCEPT ![i] = new])
<1> DEFINE w == [v EXCEPT ![i] = new]
<1>1. w[i] = new /\ \A j \in InqIds \ {i} : w[j] = v[j]
  OBVIOUS
<1> HIDE DEF w
<1>2. \A r \in RowIds : (t[r] # None /\ t[r].inq \in InqIds /\ w[t[r].inq] # None)
                          => w[t[r].inq].amount = t[r].total
  BY <1>1 DEF TableOK
<1>3. TableOK(t, w)
  BY <1>2 DEF TableOK
<1> QED
  BY <1>3 DEF w

\* A handler that has read the record rec goes on with what is so.
LEMMA ContinueIsUpToDate ==
    ASSUME SerialInv, NEW h \in Handlers, pc[h] \in {"lookup", "byid", "stale"}, NEW rec,
           rec = None \/ (rec \in Read /\ rec.id \in Stored /\ rec.row = rows[rec.id]),
           (req[h].kind = "create" /\ ~IsOpen(rec))
             => \A r \in RowIds : rows[r] # None => rows[r].status # Pending,
           (req[h].kind = "inquiry" /\ rec # None)
             => \A r \in RowIds : (rows[r] # None /\ rows[r].inq = req[h].inq)
                                    => rec.row.total = rows[r].total,
           Continue(h, rec), rows' = rows
    PROVE  TableOK(rows', vendor') /\ UpToDate(pc'[h], req'[h], read'[h], rows')
<1>1. /\ req[h] \in Request /\ req[h].kind \in RequestKinds /\ TypeOK
      /\ req[h].kind = "inquiry" => req[h].inq \in InqIds
  BY RequestFields DEF SerialInv, IInv, WellFormed, Position
<1>2. rec # None => /\ rec.id \in RowIds /\ rec.row \in Row /\ rows[rec.id] # None
                    /\ rec.row = rows[rec.id]
  BY <1>1, StoredRows DEF Read, Stored
<1>3. CASE Respond(h) /\ Quote(h, rec)
  <2>1. pc'[h] = "idle"
    BY <1>1, <1>3 DEF Respond, Goto, TypeOK
  <2>2. CASE req[h].kind = "inquiry" /\ IsOpen(rec) /\ ~IsExpired(rec.row)
    <3> DEFINE new == [amount |-> rec.row.total, preq |-> None, flag |-> "03"]
    <3>1. vendor' = [vendor EXCEPT ![req[h].inq] = new]
      BY <1>3, <2>2 DEF Quote
    <3>2. \A r \in RowIds : (rows[r] # None /\ rows[r].inq = req[h].inq)
                              => new.amount = rows[r].total
      BY <2>2 DEF IsOpen
    <3> HIDE DEF new
    <3>3. TableOK(rows, [vendor EXCEPT ![req[h].inq] = new])
      BY <1>1, <2>2, <3>2, AnswerKeepsTable DEF SerialInv, TypeOK
    <3> QED
      BY <2>1, <3>1, <3>3 DEF UpToDate
  <2>3. CASE ~(req[h].kind = "inquiry" /\ IsOpen(rec) /\ ~IsExpired(rec.row))
    <3>1. vendor' = vendor
      BY <1>3, <2>3 DEF Quote
    <3> QED
      BY <2>1, <3>1 DEF UpToDate, SerialInv
  <2> QED
    BY <2>2, <2>3
<1>4. CASE /\ Route(h, rec) # "answer" /\ Goto(h, Route(h, rec))
           /\ read' = [read EXCEPT ![h] = rec] /\ UNCHANGED <<req, vendor>>
  <2> DEFINE l == Route(h, rec)
  <2>1. /\ l \in {"open", "cancel", "vendor", "mark", "claim", "save"}
        /\ l = "open" => req[h].kind = "create" /\ ~IsOpen(rec)
        /\ l \in {"vendor", "claim", "save"} => IsOpen(rec)
        /\ l = "claim" => rec.row.inq = Placeholder /\ ~IsExpired(rec.row)
        /\ l = "save" => rec.row.total = req[h].amount
    BY <1>1, <1>4 DEF Route, RequestKinds, IsOpen, MayCreate, IsPayable, AmountMatches
  <2>2. pc'[h] = l /\ read'[h] = rec /\ req'[h] = req[h]
    BY <1>1, <1>4 DEF Goto, TypeOK
  <2> HIDE DEF l
  <2>3. IsOpen(rec) => StillOpen(rec, rows)
    BY <1>2 DEF IsOpen, StillOpen
  <2>4. UpToDate(l, req[h], rec, rows)
    BY <2>1, <2>3 DEF UpToDate
  <2> QED
    BY <1>4, <2>2, <2>4 DEF SerialInv
<1> QED
  BY <1>3, <1>4 DEF Continue

\* create-va opens a transaction: none was pending.
LEMMA SaveInquiryKeepsTable ==
    ASSUME SerialInv, NEW h \in Handlers, SaveInquiry(h)
    PROVE  TableOK(rows', vendor')
<1>1. rows \in [RowIds -> Row \cup {None}] /\ IInv /\ TableOK(rows, vendor)
  BY Zenon DEF SerialInv, IInv, TypeOK
<1>2. \A r \in RowIds : rows[r] # None => rows[r].status # Pending
  BY Zenon DEF SerialInv, UpToDate, SaveInquiry
<1>3. PICK r \in RowIds, new \in Row :
        /\ rows' = [rows EXCEPT ![r] = new] /\ new.status = Pending /\ new.inq = Placeholder
        /\ r \in WithInq(Placeholder) \/ WithInq(Placeholder) = {}
  BY <1>1, SaveInquiryWrites
<1>4. \A s \in RowIds \ {r} : rows[s] # None => rows[s].inq # new.inq
  BY <1>1, <1>3 DEF TableOK, WithInq, Stored
<1>5. TableOK([rows EXCEPT ![r] = new], vendor)
  BY <1>1, <1>2, <1>3, <1>4, RowKeepsTable, PlaceholderAssumption DEF Pending, Success
<1> QED
  BY <1>3, <1>5 DEF SaveInquiry

\* delete-va or a detected expiry closes what is pending.
LEMMA SetPendingKeepsTable ==
    ASSUME SerialInv, NEW s \in {Expired, Deleted}, rows' = SetPending(s), vendor' = vendor
    PROVE  TableOK(rows', vendor')
<1>1. TypeOK /\ TableOK(rows, vendor)
  BY DEF SerialInv, IInv
<1>2. /\ \A r \in WithStatus(Pending) : rows'[r] = [rows[r] EXCEPT !.status = s]
      /\ \A r \in RowIds \ WithStatus(Pending) : rows'[r] = rows[r]
  BY <1>1, SetPendingWrites
<1>3. \A r \in WithStatus(Pending) : rows[r] \in Row /\ rows[r] # None
  BY <1>1, StoredRows
<1>4. \A r \in RowIds : rows'[r] # None =>
        /\ rows[r] # None /\ rows'[r].inq = rows[r].inq /\ rows'[r].total = rows[r].total
        /\ rows'[r].status = Pending => rows[r].status = Pending
        /\ rows'[r].status = Success => rows'[r].paid = rows'[r].total
  <2> SUFFICES ASSUME NEW r \in RowIds, rows'[r] # None
               PROVE  /\ rows[r] # None /\ rows'[r].inq = rows[r].inq
                      /\ rows'[r].total = rows[r].total
                      /\ rows'[r].status = Pending => rows[r].status = Pending
                      /\ rows'[r].status = Success => rows'[r].paid = rows'[r].total
    OBVIOUS
  <2>1. CASE r \in WithStatus(Pending)
    BY <1>2, <1>3, <2>1 DEF Row, WithStatus, Success, Expired, Deleted
  <2>2. CASE r \notin WithStatus(Pending)
    BY <1>1, <1>2, <2>2 DEF TableOK
  <2> QED
    BY <2>1, <2>2
<1> QED
  BY <1>1, <1>4, ClosingKeepsTable

\* An inquiry claims the row it read, and the vendor is told that row's total.
LEMMA ClaimKeepsTable ==
    ASSUME SerialInv, NEW h \in Handlers, Claim(h)
    PROVE  TableOK(rows', vendor')
<1> DEFINE r == read[h].id
           i == req[h].inq
           new == [rows[r] EXCEPT !.inq = i]
           told == [amount |-> read[h].row.total, preq |-> None, flag |-> "03"]
<1>1. /\ IInv /\ TableOK(rows, vendor) /\ rows \in [RowIds -> Row \cup {None}]
      /\ vendor \in [InqIds -> VendorRecord \cup {None}]
  BY DEF SerialInv, IInv, TypeOK
<1>2. /\ pc[h] = "claim" /\ req[h] \in Request /\ req[h].kind = "inquiry" /\ read[h] \in Read
  BY DEF Claim, SerialInv, IInv, WellFormed, Position
<1>3. i \in InqIds
  BY <1>2, RequestFields
<1>4. /\ r \in RowIds /\ rows[r] # None /\ rows[r].status = Pending
      /\ rows[r].inq = Placeholder /\ rows[r].total = read[h].row.total
      /\ IsOpen(read[h]) /\ ~IsExpired(read[h].row)
  BY <1>2 DEF SerialInv, UpToDate, StillOpen
<1>5. CASE UNCHANGED <<rows, vendor>>
  BY <1>1, <1>5
<1>6. CASE WithInq(i) = {} /\ rows' = [rows EXCEPT ![r].inq = i] /\ Quote(h, read[h])
  <2>1. rows[r] \in Row
    BY <1>1, <1>4
  <2>2. /\ new \in Row /\ new.inq = i /\ new.status = Pending
        /\ new.total = told.amount /\ rows' = [rows EXCEPT ![r] = new]
    BY <1>1, <1>3, <1>4, <1>6, <2>1 DEF Row
  <2>3. vendor' = [vendor EXCEPT ![i] = told]
    BY <1>2, <1>4, <1>6 DEF Quote
  <2>4. \A s \in RowIds : rows[s] # None => rows[s].inq # i
    BY <1>6 DEF WithInq, Stored
  <2>5. vendor'[i] = told
    BY <1>1, <1>3, <2>3
  <2> HIDE DEF new, told, i, r
  <2>6. TableOK(rows, vendor')
    BY <1>1, <1>3, <2>3, <2>4, AnswerKeepsTable
  <2>7. \A s \in RowIds \ {r} : rows[s] # None => rows[s].status # Pending
    BY <1>1, <1>4 DEF TableOK
  <2>8. vendor'[new.inq].amount = new.total /\ new.status # Success
    BY <2>2, <2>5 DEF Pending, Success
  <2>9. \A s \in RowIds \ {r} : rows[s] # None => rows[s].inq # new.inq
    BY <2>2, <2>4
  <2> QED
    BY <1>1, <1>4, <2>2, <2>6, <2>7, <2>8, <2>9, RowKeepsTable
<1> QED
  BY <1>4, <1>5, <1>6 DEF Claim

\* /payment settles the very row its record was read from, with its total.
LEMMA SavePaymentKeepsTable ==
    ASSUME SerialInv, NEW h \in Handlers, SavePayment(h)
    PROVE  /\ TableOK(rows', vendor')
           /\ \E new \in Row : rows' = [rows EXCEPT ![read[h].id] = new]
           /\ read[h].id \in RowIds /\ rows[read[h].id].status = Pending
<1> DEFINE id == read[h].id
<1>1. /\ IInv /\ TableOK(rows, vendor) /\ rows \in [RowIds -> Row \cup {None}]
  BY DEF SerialInv, IInv, TypeOK
<1>2. /\ id \in RowIds /\ rows[id] # None /\ rows[id].status = Pending
      /\ rows[id].inq = read[h].row.inq /\ rows[id].total = req[h].amount
  BY Zenon DEF SavePayment, SerialInv, UpToDate, StillOpen
<1>3. id \in WithInq(read[h].row.inq)
  BY <1>2 DEF WithInq, Stored
<1>4. \A r \in WithInq(read[h].row.inq) : r = id
  BY <1>1, <1>2 DEF TableOK, WithInq, Stored
<1> DEFINE new == [rows[id] EXCEPT !.preq = req[h].preq, !.status = Success, !.paid = req[h].amount]
<1>5. new \in Row /\ rows' = [rows EXCEPT ![id] = new]
  BY <1>1, <1>3, <1>4, SavePaymentWrites
<1>6. rows[id] \in Row
  BY <1>1, <1>2
<1>7. /\ new.inq = rows[id].inq /\ new.total = rows[id].total /\ new.status = Success
      /\ new.paid = req[h].amount
  BY <1>6 DEF Row
<1> HIDE DEF new
<1>8. \A s \in RowIds \ {id} : rows[s] # None => rows[s].inq # new.inq
  BY <1>1, <1>2, <1>7 DEF TableOK
<1>9. (new.inq \in InqIds /\ vendor[new.inq] # None) => vendor[new.inq].amount = new.total
  BY <1>1, <1>2, <1>7 DEF TableOK
<1>10. TableOK([rows EXCEPT ![id] = new], vendor)
  <2>1. new.status # Pending /\ new.paid = new.total
    BY <1>2, <1>7 DEF Pending, Success
  <2> HIDE DEF id
  <2> QED
    BY <1>1, <1>2, <1>5, <1>8, <1>9, <2>1, RowKeepsTable, ZenonT(30)
<1>11. vendor' = vendor
  BY DEF SavePayment
<1> QED
  BY <1>2, <1>5, <1>10, <1>11, Zenon

\* The reconciler settles the only pending row, the one it asked the vendor for.
LEMMA SettleKeepsTable ==
    ASSUME SerialInv, NEW h \in Handlers, Settle(h)
    PROVE  TableOK(rows', vendor')
<1> DEFINE v == vendor[read[h].row.inq]
<1>1. IInv /\ TypeOK /\ TableOK(rows, vendor)
  BY DEF SerialInv, IInv
<1>2. read[h].row.inq \in InqIds /\ v # None
  BY <1>1 DEF Settle, IInv, WellFormed, Position, PaidInqs, PaidFor
<1>3. StillOpen(read[h], rows)
  BY DEF Settle, SerialInv, UpToDate
<1>4. v.amount = rows[read[h].id].total
  BY <1>1, <1>2, <1>3 DEF TableOK, StillOpen
<1>5. \A r \in WithStatus(Pending) : r = read[h].id
  BY <1>1, <1>3 DEF TableOK, StillOpen, WithStatus, Stored
<1>6. /\ \A r \in WithStatus(Pending) :
           rows'[r] = [rows[r] EXCEPT !.status = Success, !.paid = v.amount, !.preq = v.preq]
      /\ \A r \in RowIds \ WithStatus(Pending) : rows'[r] = rows[r]
  BY <1>1, SettleWrites
<1>7. \A r \in WithStatus(Pending) : rows[r] \in Row /\ rows[r] # None
  BY <1>1, StoredRows
<1> HIDE DEF v
<1>8. ASSUME NEW r \in RowIds, rows'[r] # None
      PROVE  /\ rows[r] # None /\ rows'[r].inq = rows[r].inq
             /\ rows'[r].total = rows[r].total
             /\ rows'[r].status = Pending => rows[r].status = Pending
             /\ rows'[r].status = Success => rows'[r].paid = rows'[r].total
  <2>1. CASE r \in WithStatus(Pending)
    <3>1. v.amount = rows[r].total
      BY <1>4, <1>5, <2>1
    <3>2. rows[r] \in Row /\ rows[r] # None /\ rows[r].status = Pending
      BY <1>7, <2>1 DEF WithStatus
    <3>3. rows'[r] = [rows[r] EXCEPT !.status = Success, !.paid = v.amount, !.preq = v.preq]
      BY <1>6, <2>1
    <3> QED
      BY <3>1, <3>2, <3>3 DEF Row
  <2>2. CASE r \notin WithStatus(Pending)
    BY <1>1, <1>6, <1>8, <2>2 DEF TableOK
  <2> QED
    BY <2>1, <2>2
<1>9. TableOK(rows', vendor)
  BY <1>1, <1>8, ClosingKeepsTable
<1> QED
  BY <1>9 DEF Settle

\* A date passes: nothing the handlers know of changes.
LEMMA DatePassesKeepsTable ==
    ASSUME SerialInv, NEW r \in RowIds, ExpiredDatePasses(r)
    PROVE  /\ TableOK(rows', vendor')
           /\ \A h \in Handlers : UpToDate(pc'[h], req'[h], read'[h], rows')
<1>1. IInv /\ TypeOK /\ TableOK(rows, vendor)
  BY DEF SerialInv, IInv
<1> DEFINE new == [rows[r] EXCEPT !.date = "past"]
<1>2. r \in Stored /\ new \in Row /\ rows' = [rows EXCEPT ![r] = new]
  BY <1>1, DatePassesWrites
<1>3. rows[r] \in Row /\ rows[r] # None
  BY <1>1, <1>2, StoredRows
<1>4. new.inq = rows[r].inq /\ new.total = rows[r].total /\ new.status = rows[r].status
      /\ new.paid = rows[r].paid /\ new # None
  BY <1>2, <1>3, NoneAssumption DEF Row
<1> HIDE DEF new
<1>5. \A s \in RowIds : /\ rows'[s] # None <=> rows[s] # None
                        /\ rows'[s].inq = rows[s].inq /\ rows'[s].total = rows[s].total
                        /\ rows'[s].status = rows[s].status /\ rows'[s].paid = rows[s].paid
  BY <1>1, <1>2, <1>3, <1>4 DEF TypeOK
<1>6. UNCHANGED <<vendor, pc, req, read>>
  BY DEF ExpiredDatePasses
<1>7. \A s \in RowIds : rows'[s] # None =>
        /\ rows[s] # None /\ rows'[s].inq = rows[s].inq /\ rows'[s].total = rows[s].total
        /\ rows'[s].status = Pending => rows[s].status = Pending
        /\ rows'[s].status = Success => rows'[s].paid = rows'[s].total
  BY <1>1, <1>5 DEF TableOK
<1>8. TableOK(rows', vendor)
  BY <1>1, <1>7, ClosingKeepsTable
<1>9. ASSUME NEW h \in Handlers PROVE UpToDate(pc[h], req[h], read[h], rows')
  BY <1>5 DEF SerialInv, UpToDate, StillOpen
<1> QED
  BY <1>6, <1>8, <1>9

\* Before any call.
LEMMA SerialInit == Init => SerialInv
<1> SUFFICES ASSUME Init PROVE SerialInv
  OBVIOUS
<1>1. TableOK(rows, vendor)
  BY DEF Init, TableOK
<1>2. \A h \in Handlers : UpToDate(pc[h], req[h], read[h], rows)
  BY DEF Init, UpToDate
<1> QED
  BY <1>1, <1>2, InitInvariant DEF SerialInv

\* Every statement of the one handler, every failure and every outside event.
LEMMA SerialStep ==
    ASSUME OneAtATime
    PROVE  SerialInv /\ [Next]_vars => SerialInv'
<1> SUFFICES ASSUME SerialInv, [Next]_vars PROVE SerialInv'
  OBVIOUS
<1>0. IInv /\ IInv' /\ TypeOK /\ TableOK(rows, vendor)
  BY Invariance DEF SerialInv, IInv
<1>1. ASSUME NEW h \in Handlers, TableOK(rows', vendor'),
             UpToDate(pc'[h], req'[h], read'[h], rows')
      PROVE  SerialInv'
  <2>1. \A g \in Handlers : UpToDate(pc'[g], req'[g], read'[g], rows')
    BY <1>1 DEF OneAtATime
  <2> QED
    BY <1>0, <1>1, <2>1 DEF SerialInv
<1>2. ASSUME NEW h \in Handlers, TableOK(rows', vendor'), Respond(h) PROVE SerialInv'
  <2>1. pc'[h] = "idle"
    BY <1>0, <1>2 DEF Respond, Goto, TypeOK
  <2>2. UpToDate(pc'[h], req'[h], read'[h], rows')
    BY <2>1 DEF UpToDate
  <2> QED
    BY <1>1, <1>2, <2>2
<1>3. ASSUME NEW h \in Handlers, TableOK(rows', vendor'), NEW l, Goto(h, l), UNCHANGED <<req, read>>,
             UpToDate(l, req[h], read[h], rows')
      PROVE  SerialInv'
  <2>1. pc'[h] = l
    BY <1>0, <1>3 DEF Goto, TypeOK
  <2> QED
    BY <1>1, <1>3, <2>1
<1>4. ASSUME NEW h \in Handlers, TableOK(rows', vendor'), Respond(h) \/ UNCHANGED <<req, read>>,
             NEW l \in {"bills", "notify", "dedupe", "expire", "recovered"},
             Respond(h) \/ Goto(h, l)
      PROVE  SerialInv'
  <2>1. UpToDate(l, req[h], read[h], rows')
    BY DEF UpToDate
  <2> QED
    BY <1>2, <1>3, <1>4, <2>1
<1>5. UNCHANGED <<rows, vendor>> => TableOK(rows', vendor')
  BY <1>0
<1>6. ASSUME NEW h \in Handlers PROVE UpToDate(pc[h], req[h], read[h], rows)
  BY DEF SerialInv
<1>7. ASSUME NEW h \in Handlers, NEW r, NEW l, Arrive(h, r, l),
             l = "stale" => r.kind = "sweep", l = "lookup" => r.kind # "inquiry",
             l \in {"lookup", "byid", "existing", "stale"}
      PROVE  SerialInv'
  <2>1. UNCHANGED <<rows, vendor>> /\ pc'[h] = l /\ req'[h] = r
    BY <1>0, <1>7 DEF Arrive, Goto, TypeOK
  <2>2. UpToDate(l, r, read'[h], rows')
    BY <1>7 DEF UpToDate
  <2> QED
    BY <1>1, <1>5, <2>1, <2>2
<1>8. ASSUME NEW h \in Handlers, Arrivals(h) PROVE SerialInv'
  <2>1. CASE CreateArrives(h)
    BY <1>7, <2>1 DEF CreateArrives
  <2>2. CASE InquiryArrives(h)
    BY <1>7, <2>2 DEF InquiryArrives
  <2>3. CASE PaymentArrives(h)
    BY <1>7, <2>3 DEF PaymentArrives
  <2>4. CASE DeleteArrives(h) \/ ReconcileArrives(h) \/ SweepArrives(h)
    BY <1>7, <2>4 DEF DeleteArrives, ReconcileArrives, SweepArrives
  <2> QED
    BY <1>8, <2>1, <2>2, <2>3, <2>4 DEF Arrivals
<1>9. ASSUME NEW h \in Handlers, Lookup(h) PROVE SerialInv'
  <2>1. rows' = rows /\ pc[h] = "lookup" /\ Continue(h, GetVA)
    BY <1>9 DEF Lookup, OneAtATime
  <2>2. GetVA = None \/ (GetVA \in Read /\ GetVA.id \in Stored /\ GetVA.row = rows[GetVA.id])
    BY <1>0, GetVAReads
  <2>3. ~IsOpen(GetVA) => \A r \in RowIds : rows[r] # None => rows[r].status # Pending
    <3> SUFFICES ASSUME NEW r \in RowIds, rows[r] # None, rows[r].status = Pending
                 PROVE  IsOpen(GetVA)
      OBVIOUS
    <3>1. r \in WithStatus(Pending) /\ r \in Stored
      BY DEF WithStatus, Stored
    <3> QED
      BY <1>0, <3>1, GetVAReads DEF IsOpen, WithStatus
  <2>4. req[h].kind = "inquiry" => \A r \in RowIds : rows[r] # None => rows[r].inq # req[h].inq
    BY <1>6, <2>1 DEF UpToDate
  <2> QED
    BY <1>1, <2>1, <2>2, <2>3, <2>4, ContinueIsUpToDate
<1>10. ASSUME NEW h \in Handlers, GetInquiry(h) PROVE SerialInv'
  <2>1. rows' = rows /\ pc[h] = "byid"
    BY <1>10 DEF GetInquiry
  <2>2. req[h].kind = "inquiry"
    BY <1>0, <2>1 DEF IInv, WellFormed, Position
  <2>3. ASSUME NEW r \in WithInq(req[h].inq), Continue(h, [id |-> r, row |-> rows[r]])
        PROVE  SerialInv'
    <3> DEFINE rec == [id |-> r, row |-> rows[r]]
    <3>1. r \in Stored /\ r \in RowIds /\ rows[r] \in Row /\ rows[r].inq = req[h].inq
      BY <1>0, StoredRows DEF WithInq
    <3>2. rec \in Read /\ rec.id = r /\ rec.row = rows[r]
      BY <3>1 DEF Read
    <3>3. \A s \in RowIds : (rows[s] # None /\ rows[s].inq = req[h].inq)
                              => rec.row.total = rows[s].total
      BY <1>0, <3>1, <3>2 DEF TableOK, Stored
    <3>4. Continue(h, rec)
      BY <2>3
    <3> HIDE DEF rec
    <3>5. TableOK(rows', vendor') /\ UpToDate(pc'[h], req'[h], read'[h], rows')
      BY <2>1, <2>2, <3>1, <3>2, <3>3, <3>4, ContinueIsUpToDate
    <3> QED
      BY <1>1, <3>5
  <2>4. CASE WithInq(req[h].inq) = {} /\ Goto(h, "lookup") /\ UNCHANGED <<req, read, vendor>>
    <3>1. UpToDate("lookup", req[h], read[h], rows')
      BY <2>1, <2>4 DEF UpToDate, WithInq, Stored
    <3> QED
      BY <1>3, <1>5, <2>1, <2>4, <3>1
  <2> QED
    BY <1>10, <2>3, <2>4 DEF GetInquiry
<1>11. ASSUME NEW h \in Handlers, ListStale(h) PROVE SerialInv'
  <2>1. rows' = rows /\ pc[h] = "stale"
    BY <1>11 DEF ListStale
  <2>2. req[h].kind = "sweep"
    BY <1>6, <2>1 DEF UpToDate
  <2>3. ASSUME NEW r \in WithStatus(Pending), Continue(h, [id |-> r, row |-> rows[r]])
        PROVE  SerialInv'
    <3> DEFINE rec == [id |-> r, row |-> rows[r]]
    <3>1. r \in Stored /\ r \in RowIds /\ rows[r] \in Row
      BY <1>0, StoredRows DEF WithStatus
    <3>2. rec \in Read /\ rec.id = r /\ rec.row = rows[r]
      BY <3>1 DEF Read
    <3>3. Continue(h, rec)
      BY <2>3
    <3> HIDE DEF rec
    <3>4. TableOK(rows', vendor') /\ UpToDate(pc'[h], req'[h], read'[h], rows')
      BY <2>1, <2>2, <3>1, <3>2, <3>3, ContinueIsUpToDate
    <3> QED
      BY <1>1, <3>4
  <2>4. CASE Respond(h) /\ UNCHANGED vendor
    BY <1>2, <1>5, <2>1, <2>4, Zenon
  <2> QED
    BY <1>11, <2>3, <2>4 DEF ListStale
<1>12. ASSUME NEW h \in Handlers, SaveInquiry(h) PROVE SerialInv'
  BY <1>2, <1>12, SaveInquiryKeepsTable, Zenon DEF SaveInquiry
<1>13. ASSUME NEW h \in Handlers, CancelVA(h) PROVE SerialInv'
  BY <1>2, <1>13, SetPendingKeepsTable DEF CancelVA
<1>14. ASSUME NEW h \in Handlers, Claim(h) PROVE SerialInv'
  BY <1>2, <1>14, ClaimKeepsTable DEF Claim
<1>15. ASSUME NEW h \in Handlers, CheckExisting(h) PROVE SerialInv'
  <2>1. UNCHANGED <<rows, vendor>> /\ pc[h] = "existing"
    BY <1>15 DEF CheckExisting
  <2>2. CASE Respond(h)
    BY <1>2, <1>5, <2>1, <2>2
  <2>3. CASE Goto(h, "lookup") /\ UNCHANGED <<req, read>>
    <3>1. req[h].kind = "payment"
      BY <1>0, <2>1 DEF IInv, WellFormed, Position
    <3>2. UpToDate("lookup", req[h], read[h], rows')
      BY <3>1 DEF UpToDate
    <3> QED
      BY <1>3, <1>5, <2>1, <2>3, <3>2
  <2> QED
    BY <1>15, <2>2, <2>3 DEF CheckExisting
<1>16. ASSUME NEW h \in Handlers, SavePayment(h) PROVE SerialInv'
  <2>1. pc'[h] \in {"bills", "notify"}
    BY <1>0, <1>16 DEF SavePayment, Goto, TypeOK
  <2>2. UpToDate(pc'[h], req'[h], read'[h], rows')
    BY <2>1 DEF UpToDate
  <2> QED
    BY <1>1, <1>16, <2>2, SavePaymentKeepsTable
<1>17. ASSUME NEW h \in Handlers, SaveBillDetails(h) PROVE SerialInv'
  <2>1. UNCHANGED <<rows, vendor>> /\ (Respond(h) \/ (Goto(h, "notify") /\ UNCHANGED <<req, read>>))
    BY <1>17 DEF SaveBillDetails
  <2> QED
    BY <1>4, <1>5, <2>1
<1>18. ASSUME NEW h \in Handlers, NotifyPayment(h) \/ NotifyExpiry(h) \/ NotifyRecovered(h) \/ Stop(h)
       PROVE  SerialInv'
  BY <1>2, <1>5, <1>18 DEF NotifyPayment, NotifyExpiry, NotifyRecovered, Stop
<1>19. ASSUME NEW h \in Handlers, MarkExpired(h) PROVE SerialInv'
  <2>1. TableOK(rows', vendor')
    BY <1>19, SetPendingKeepsTable DEF MarkExpired
  <2>2. Respond(h) \/ (Goto(h, "dedupe") /\ UNCHANGED <<req, read>>)
    BY <1>19 DEF MarkExpired
  <2> QED
    BY <1>4, <2>1, <2>2
<1>20. ASSUME NEW h \in Handlers, DedupeExpiry(h) PROVE SerialInv'
  <2>1. UNCHANGED <<rows, vendor>> /\ (Respond(h) \/ (Goto(h, "expire") /\ UNCHANGED <<req, read>>))
    BY <1>20 DEF DedupeExpiry
  <2> QED
    BY <1>4, <1>5, <2>1
<1>21. ASSUME NEW h \in Handlers, VendorAnswers(h) PROVE SerialInv'
  <2>1. /\ UNCHANGED <<rows, vendor>> /\ pc[h] = "vendor"
        /\ Respond(h) \/ (Goto(h, "settle") /\ UNCHANGED <<req, read>>)
    BY <1>21 DEF VendorAnswers
  <2>2. UpToDate("settle", req[h], read[h], rows')
    BY <1>6, <2>1 DEF UpToDate
  <2> QED
    BY <1>2, <1>3, <1>5, <2>1, <2>2
<1>22. ASSUME NEW h \in Handlers, Settle(h) PROVE SerialInv'
  <2>1. Respond(h) \/ (Goto(h, "recovered") /\ UNCHANGED <<req, read>>)
    BY <1>22 DEF Settle
  <2> QED
    BY <1>4, <1>22, <2>1, SettleKeepsTable
<1>23. ASSUME NEW i \in InqIds, NEW p \in PayReqs, NEW f \in {"00", "02"}, CustomerPays(i, p, f)
       PROVE  SerialInv'
  <2> DEFINE new == [vendor[i] EXCEPT !.preq = p, !.flag = f]
  <2>1. vendor[i] \in VendorRecord /\ vendor[i] # None
    BY <1>0, <1>23 DEF CustomerPays, TypeOK
  <2>2. vendor' = [vendor EXCEPT ![i] = new] /\ new.amount = vendor[i].amount
    BY <1>23, <2>1 DEF CustomerPays, VendorRecord
  <2> HIDE DEF new
  <2>3. \A r \in RowIds : (rows[r] # None /\ rows[r].inq = i) => new.amount = rows[r].total
    BY <1>0, <2>1, <2>2 DEF TableOK
  <2>4. vendor \in [InqIds -> VendorRecord \cup {None}]
    BY <1>0 DEF TypeOK
  <2>5. TableOK(rows, vendor')
    BY <1>0, <2>2, <2>3, <2>4, AnswerKeepsTable
  <2>6. UNCHANGED <<rows, pc, req, read>>
    BY <1>23 DEF CustomerPays
  <2> QED
    BY <1>0, <1>6, <2>5, <2>6 DEF SerialInv
<1>24. ASSUME NEW r \in RowIds, ExpiredDatePasses(r) PROVE SerialInv'
  BY <1>0, <1>24, DatePassesKeepsTable DEF SerialInv
<1>25. CASE UNCHANGED vars
  BY <1>0, <1>6, <1>25 DEF vars, SerialInv
<1> QED
  BY <1>8, <1>9, <1>10, <1>11, <1>12, <1>13, <1>14, <1>15, <1>16, <1>17, <1>18, <1>19, <1>20,
     <1>21, <1>22, <1>23, <1>24, <1>25 DEF Next, Step

\* The invariant of serial service holds in every state.
LEMMA AlwaysSerial ==
    ASSUME OneAtATime
    PROVE  Spec => []SerialInv
BY SerialInit, SerialStep, PTL DEF Spec

\* Served one request at a time, a number never has two pending transactions,
\* however requests stop half way: create-va opens one only when its lookup found
\* none, and nothing is opened in between.
THEOREM OnePending ==
    ASSUME OneAtATime
    PROVE  Spec => []OnePendingTransaction
<1>1. SerialInv => OnePendingTransaction
  <2> SUFFICES ASSUME SerialInv PROVE Cardinality(WithStatus(Pending)) <= 1
    BY DEF OnePendingTransaction
  <2>1. \A r, s \in WithStatus(Pending) : r = s
    BY DEF SerialInv, TableOK, WithStatus, Stored
  <2>2. CASE WithStatus(Pending) = {}
    BY <2>2, FS_EmptySet
  <2>3. CASE WithStatus(Pending) # {}
    <3>1. PICK r : WithStatus(Pending) = {r}
      BY <2>1, <2>3
    <3> QED
      BY <3>1, FS_Singleton
  <2> QED
    BY <2>2, <2>3
<1> QED
  BY <1>1, AlwaysSerial, PTL

\* Served one request at a time, what a transaction was paid is what it billed,
\* whether /payment or the reconciler settled it: the amount the vendor reports
\* back is the one the inquiry told it.
THEOREM BilledIsPaid ==
    ASSUME OneAtATime
    PROVE  Spec => []PaidIsBilled
<1>1. SerialInv => PaidIsBilled
  BY DEF SerialInv, TableOK, PaidIsBilled, WithStatus, Stored
<1> QED
  BY <1>1, AlwaysSerial, PTL

\* Served one request at a time, a claimed transaction that is paid, expired or
\* deleted is never changed again but for the passing of its date: a payment
\* lands on the pending row its record was read from, though SavePayment's UPDATE
\* itself does not look at the status.
THEOREM ClosedStays ==
    ASSUME OneAtATime
    PROVE  Spec => ClosedIsFinal
<1>1. SerialInv /\ [Next]_vars
        => [\A r \in RowIds : Claimed(rows[r]) /\ rows[r].status # Pending
              => \/ rows'[r] = rows[r]
                 \/ rows'[r] = [rows[r] EXCEPT !.date = "past"]]_vars
  <2> DEFINE Kept(r) == rows'[r] = rows[r] \/ rows'[r] = [rows[r] EXCEPT !.date = "past"]
  <2> SUFFICES ASSUME SerialInv, [Next]_vars, NEW r \in RowIds, Claimed(rows[r]),
                      rows[r].status # Pending
               PROVE  Kept(r)
    OBVIOUS
  <2>0. /\ IInv /\ TypeOK /\ rows \in [RowIds -> Row \cup {None}]
        /\ r \notin WithStatus(Pending) /\ r \notin WithInq(Placeholder) /\ r \in Stored
    BY DEF SerialInv, IInv, TypeOK, WithStatus, WithInq, Claimed, Stored
  <2>1. ASSUME NEW h \in Handlers, SaveInquiry(h) PROVE Kept(r)
    <3>1. PICK s \in RowIds, new \in Row :
            /\ rows' = [rows EXCEPT ![s] = new]
            /\ s \in WithInq(Placeholder) \/ (s = NewId /\ NewId <= MaxRows)
      BY <2>0, <2>1, SaveInquiryWrites
    <3>2. s # r
      BY <2>0, <3>1, NewIdIsFree DEF IInv
    <3> QED
      BY <2>0, <3>1, <3>2
  <2>2. ASSUME NEW h \in Handlers, CancelVA(h) \/ MarkExpired(h) PROVE Kept(r)
    <3>1. PICK s \in {Success, Expired, Deleted} : rows' = SetPending(s)
      BY <2>2 DEF CancelVA, MarkExpired
    <3> QED
      BY <2>0, <3>1, SetPendingWrites
  <2>3. ASSUME NEW h \in Handlers, Claim(h) PROVE Kept(r)
    <3>1. rows' = rows \/ \E s, new : rows[s].inq = Placeholder /\ rows' = [rows EXCEPT ![s] = new]
      BY <2>0, <2>3, ClaimWrites
    <3> QED
      BY <2>0, <3>1 DEF Claimed
  <2>4. ASSUME NEW h \in Handlers, SavePayment(h) PROVE Kept(r)
    <3>1. /\ \E new \in Row : rows' = [rows EXCEPT ![read[h].id] = new]
          /\ rows[read[h].id].status = Pending
      BY <2>4, SavePaymentKeepsTable
    <3> QED
      BY <2>0, <3>1
  <2>5. ASSUME NEW h \in Handlers, Settle(h) PROVE Kept(r)
    BY <2>0, <2>5, SettleWrites
  <2>6. ASSUME NEW s \in RowIds, ExpiredDatePasses(s) PROVE Kept(r)
    BY <2>0, <2>6, DatePassesWrites
  <2>7. ASSUME NEW h \in Handlers,
               \/ Arrivals(h) \/ Lookup(h) \/ GetInquiry(h) \/ CheckExisting(h)
               \/ SaveBillDetails(h) \/ NotifyPayment(h) \/ DedupeExpiry(h) \/ NotifyExpiry(h)
               \/ ListStale(h) \/ VendorAnswers(h) \/ NotifyRecovered(h) \/ Stop(h)
        PROVE  rows' = rows
    BY <2>7 DEF Arrivals, CreateArrives, InquiryArrives, PaymentArrives, DeleteArrives,
                ReconcileArrives, SweepArrives, Arrive, Lookup, GetInquiry, CheckExisting,
                SaveBillDetails, NotifyPayment, DedupeExpiry, NotifyExpiry, ListStale,
                VendorAnswers, NotifyRecovered, Stop
  <2>8. ASSUME NEW i \in InqIds, NEW p \in PayReqs, NEW f, CustomerPays(i, p, f)
        PROVE  rows' = rows
    BY <2>8 DEF CustomerPays
  <2>9. UNCHANGED vars => rows' = rows
    BY DEF vars
  <2> QED
    BY <2>1, <2>2, <2>3, <2>4, <2>5, <2>6, <2>7, <2>8, <2>9 DEF Next, Step
<1> QED
  BY <1>1, AlwaysSerial, PTL DEF Spec, ClosedIsFinal
=============================================================================

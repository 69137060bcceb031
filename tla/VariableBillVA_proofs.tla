------------------------ MODULE VariableBillVA_proofs ------------------------
(***************************************************************************)
(* Proofs about VariableBillVA: the instalments implement PaymentLedger    *)
(* and back the row under every interleaving, and requests that follow one *)
(* another keep paid_amount the sum and never exceed the bill.             *)
(***************************************************************************)
EXTENDS VariableBillVA, FiniteSetTheorems, WellFoundedInduction, TLAPS

-----------------------------------------------------------------------------
(* Sums: what SUM(amount) over a finite set of instalments is              *)

Pick(s) == CHOOSE x \in s : TRUE

\* The equation that MapThenSumSet solves on the subsets of S.
IsSum(g, f, S) ==
    g = [s \in SUBSET S |-> IF s = {} THEN 0 ELSE f[Pick(s)] + g[s \ {Pick(s)}]]

\* A set of numbers has a least one: the proofs by induction are about the least
\* counterexample.
LEMMA LeastOne ==
    ASSUME NEW B \in SUBSET Nat, B # {}
    PROVE  \E n \in B : \A m \in B : n <= m
<1>1. PICK n \in B : \A m \in B : ~(<<m, n>> \in OpToRel(<, Nat))
  BY NatLessThanWellFounded, WFMin, Zenon
<1>2. \A m \in B : ~(m < n)
  BY <1>1, Zenon DEF OpToRel
<1> QED
  BY <1>2

\* A finite set without one of its elements.
LEMMA OneLess ==
    ASSUME NEW s, IsFiniteSet(s), NEW x \in s
    PROVE  /\ IsFiniteSet(s \ {x})
           /\ Cardinality(s) \in Nat \ {0} /\ Cardinality(s \ {x}) = Cardinality(s) - 1
<1>1. IsFiniteSet(s \ {x}) /\ Cardinality(s \ {x}) = Cardinality(s) - 1
  BY FS_RemoveElement
<1>2. Cardinality(s) \in Nat /\ Cardinality(s \ {x}) \in Nat
  BY <1>1, FS_CardinalityType
<1> QED
  BY <1>1, <1>2

\* The equation has a solution: it is built up from the subsets of n elements.
LEMMA SumExists ==
    ASSUME NEW S, IsFiniteSet(S), NEW f, \A p \in S : f[p] \in Nat
    PROVE  \E g \in [SUBSET S -> Nat] : IsSum(g, f, S)
<1> DEFINE Level(n) == {s \in SUBSET S : Cardinality(s) <= n}
           Upto(g, n) == /\ g \in [Level(n) -> Nat]
                         /\ \A s \in Level(n) :
                              g[s] = IF s = {} THEN 0 ELSE f[Pick(s)] + g[s \ {Pick(s)}]
           Bad == {n \in Nat : ~ \E g : Upto(g, n)}
<1>0. ASSUME NEW s \in SUBSET S, s # {}
      PROVE  /\ Pick(s) \in s /\ f[Pick(s)] \in Nat /\ s \ {Pick(s)} \in SUBSET S
             /\ Cardinality(s) \in Nat \ {0}
             /\ Cardinality(s \ {Pick(s)}) = Cardinality(s) - 1
  <2>1. Pick(s) \in s
    BY <1>0 DEF Pick
  <2>2. IsFiniteSet(s)
    BY FS_Subset
  <2> QED
    BY <2>1, <2>2, OneLess
<1>1. \E g : Upto(g, 0)
  <2> DEFINE g == [s \in Level(0) |-> 0]
  <2>1. \A s \in Level(0) : s = {}
    <3> SUFFICES ASSUME NEW s \in Level(0), s # {} PROVE FALSE
      OBVIOUS
    <3>1. s \in SUBSET S /\ Cardinality(s) <= 0
      OBVIOUS
    <3>2. Cardinality(s) \in Nat \ {0}
      BY <1>0, <3>1
    <3> QED
      BY <3>1, <3>2
  <2>2. Upto(g, 0)
    BY <2>1
  <2> QED
    BY <2>2
<1>2. ASSUME NEW n \in Nat, NEW g, Upto(g, n)
      PROVE  \E k : Upto(k, n + 1)
  <2> DEFINE k == [s \in Level(n + 1) |->
                     IF s \in Level(n) THEN g[s] ELSE f[Pick(s)] + g[s \ {Pick(s)}]]
  <2>1. \A s \in Level(n + 1) : s # {} => s \ {Pick(s)} \in Level(n)
    BY <1>0
  <2>2. {} \in Level(n)
    BY FS_EmptySet
  <2>3. ASSUME NEW s \in Level(n + 1)
        PROVE  /\ k[s] \in Nat
               /\ k[s] = IF s = {} THEN 0 ELSE f[Pick(s)] + k[s \ {Pick(s)}]
    <3>1. k[s] = IF s \in Level(n) THEN g[s] ELSE f[Pick(s)] + g[s \ {Pick(s)}]
      OBVIOUS
    <3>2. CASE s = {}
      BY <1>2, <2>2, <3>1, <3>2
    <3>3. CASE s # {}
      <4>1. /\ s \ {Pick(s)} \in Level(n) /\ s \ {Pick(s)} \in Level(n + 1)
            /\ f[Pick(s)] \in Nat /\ g[s \ {Pick(s)}] \in Nat
        BY <1>0, <1>2, <2>1, <3>3
      <4>2. k[s \ {Pick(s)}] = g[s \ {Pick(s)}]
        BY <4>1
      <4>3. k[s] = f[Pick(s)] + g[s \ {Pick(s)}]
        BY <1>2, <3>1, <3>3
      <4> HIDE DEF k, Level
      <4> QED
        BY <3>3, <4>1, <4>2, <4>3
    <3> QED
      BY <3>2, <3>3
  <2>4. k = [s \in Level(n + 1) |-> k[s]]
    OBVIOUS
  <2> HIDE DEF k, Level
  <2>5. Upto(k, n + 1)
    BY <2>3, <2>4
  <2> QED
    BY <2>5
<1>3. Bad = {}
  <2> SUFFICES ASSUME Bad # {} PROVE FALSE
    OBVIOUS
  <2> HIDE DEF Upto
  <2>1. PICK n \in Bad : \A m \in Bad : n <= m
    BY LeastOne
  <2>2. n \in Nat /\ n # 0 /\ ~ \E g : Upto(g, n)
    BY <1>1
  <2>3. n - 1 \in Nat /\ n - 1 \notin Bad
    BY <2>1, <2>2
  <2>4. \E g : Upto(g, n - 1)
    BY <2>3
  <2>5. \E k : Upto(k, (n - 1) + 1)
    BY <1>2, <2>3, <2>4
  <2>6. (n - 1) + 1 = n
    BY <2>2
  <2> QED
    BY <2>2, <2>5, <2>6
<1>4. Cardinality(S) \in Nat /\ \A s \in SUBSET S : Cardinality(s) <= Cardinality(S)
  BY FS_CardinalityType, FS_Subset
<1>5. Level(Cardinality(S)) = SUBSET S
  BY <1>4
<1>6. PICK g : Upto(g, Cardinality(S))
  BY <1>3, <1>4
<1>7. /\ g \in [SUBSET S -> Nat]
      /\ \A s \in SUBSET S : g[s] = IF s = {} THEN 0 ELSE f[Pick(s)] + g[s \ {Pick(s)}]
  BY <1>5, <1>6
<1>8. IsSum(g, f, S)
  BY <1>7 DEF IsSum
<1> QED
  BY <1>7, <1>8

\* Two solutions agree where their sets and functions do.
LEMMA SumUnique ==
    ASSUME NEW S, NEW T, NEW f, NEW e, NEW g, NEW k, IsSum(g, f, S), IsSum(k, e, T),
           NEW U, IsFiniteSet(U), U \subseteq S, U \subseteq T, \A p \in U : f[p] = e[p]
    PROVE  g[U] = k[U]
<1> DEFINE Bad == {Cardinality(u) : u \in {s \in SUBSET U : g[s] # k[s]}}
<1>1. \A u \in SUBSET U : IsFiniteSet(u) /\ Cardinality(u) \in Nat
  BY FS_Subset, FS_CardinalityType
<1>2. Bad \in SUBSET Nat
  BY <1>1
<1>3. \A s \in SUBSET S : g[s] = IF s = {} THEN 0 ELSE f[Pick(s)] + g[s \ {Pick(s)}]
  BY Zenon DEF IsSum
<1>4. \A s \in SUBSET T : k[s] = IF s = {} THEN 0 ELSE e[Pick(s)] + k[s \ {Pick(s)}]
  BY Zenon DEF IsSum
<1>5. Bad = {}
  <2> SUFFICES ASSUME Bad # {} PROVE FALSE
    OBVIOUS
  <2>1. PICK n \in Bad : \A m \in Bad : n <= m
    BY <1>2, LeastOne
  <2>2. PICK u \in SUBSET U : g[u] # k[u] /\ n = Cardinality(u)
    OBVIOUS
  <2>3. u # {}
    BY <1>3, <1>4, <2>2
  <2> DEFINE x == Pick(u)
  <2>4. x \in u
    BY <2>3 DEF Pick
  <2>5. u \ {x} \in SUBSET U /\ Cardinality(u \ {x}) < n
    BY <1>1, <2>2, <2>4, OneLess
  <2>6. g[u \ {x}] = k[u \ {x}]
    BY <1>1, <2>1, <2>2, <2>5
  <2>7. g[u] = f[x] + g[u \ {x}] /\ k[u] = e[x] + k[u \ {x}]
    BY <1>3, <1>4, <2>3
  <2>8. f[x] = e[x]
    BY <2>4
  <2> QED
    BY <2>2, <2>6, <2>7, <2>8
<1> QED
  BY <1>5

\* So the sum is a number that any solution gives.
LEMMA SumIsSolution ==
    ASSUME NEW S, IsFiniteSet(S), NEW f, \A p \in S : f[p] \in Nat
    PROVE  /\ SumOf(f, S) \in Nat
           /\ \A T, e, g : (IsSum(g, e, T) /\ S \subseteq T /\ \A p \in S : f[p] = e[p])
                             => SumOf(f, S) = g[S]
<1>1. PICK k \in [SUBSET S -> Nat] : IsSum(k, f, S)
  BY SumExists
<1>2. PICK h : IsSum(h, f, S) /\ SumOf(f, S) = h[S]
  BY <1>1, Zenon DEF SumOf, MapThenSumSet, MapThenFoldSet, Pick, IsSum
<1>3. h[S] = k[S]
  BY <1>1, <1>2, SumUnique
<1>4. ASSUME NEW T, NEW e, NEW g, IsSum(g, e, T), S \subseteq T, \A p \in S : f[p] = e[p]
      PROVE  SumOf(f, S) = g[S]
  BY <1>2, <1>4, SumUnique
<1> QED
  BY <1>1, <1>2, <1>3, <1>4

\* Nothing amounts to nothing.
LEMMA SumEmpty == \A f : SumOf(f, {}) = 0
<1> SUFFICES ASSUME NEW f PROVE SumOf(f, {}) = 0
  OBVIOUS
<1>1. IsFiniteSet({})
  BY FS_EmptySet
<1>2. PICK g \in [SUBSET {} -> Nat] : IsSum(g, f, {})
  BY <1>1, SumExists
<1>3. g[{}] = 0
  BY <1>2, Zenon DEF IsSum
<1> QED
  BY <1>1, <1>2, <1>3, SumIsSolution

\* The sum depends on the amounts of the instalments only.
LEMMA SumCongruent ==
    ASSUME NEW S, IsFiniteSet(S), NEW f, NEW e, \A p \in S : f[p] \in Nat /\ e[p] = f[p]
    PROVE  SumOf(e, S) = SumOf(f, S)
<1>1. PICK k \in [SUBSET S -> Nat] : IsSum(k, f, S)
  BY SumExists
<1> QED
  BY <1>1, SumIsSolution

\* Any element may be taken out first.
LEMMA SumRemove ==
    ASSUME NEW S, IsFiniteSet(S), NEW f, \A p \in S : f[p] \in Nat, NEW p \in S
    PROVE  SumOf(f, S) = f[p] + SumOf(f, S \ {p})
<1>1. PICK g \in [SUBSET S -> Nat] : IsSum(g, f, S)
  BY SumExists
<1>2. \A s \in SUBSET S : g[s] = IF s = {} THEN 0 ELSE f[Pick(s)] + g[s \ {Pick(s)}]
  BY <1>1, Zenon DEF IsSum
<1>3. \A u \in SUBSET S : IsFiniteSet(u) /\ Cardinality(u) \in Nat
  BY FS_Subset, FS_CardinalityType
<1> DEFINE Wrong(u) == \E q \in u : g[u] # f[q] + g[u \ {q}]
           Bad == {Cardinality(u) : u \in {s \in SUBSET S : Wrong(s)}}
<1>4. Bad = {}
  <2> SUFFICES ASSUME Bad # {} PROVE FALSE
    OBVIOUS
  <2>1. Bad \in SUBSET Nat
    BY <1>3
  <2>2. PICK n \in Bad : \A m \in Bad : n <= m
    BY <2>1, LeastOne
  <2>3. PICK u \in SUBSET S : Wrong(u) /\ n = Cardinality(u)
    OBVIOUS
  <2>4. PICK q \in u : g[u] # f[q] + g[u \ {q}]
    BY <2>3
  <2> DEFINE x == Pick(u)
  <2>5. x \in u /\ g[u] = f[x] + g[u \ {x}] /\ x # q
    BY <1>2, <2>4 DEF Pick
  <2>6. ASSUME NEW y \in u PROVE ~Wrong(u \ {y}) /\ u \ {y} \in SUBSET S
    <3>1. u \ {y} \in SUBSET S /\ Cardinality(u \ {y}) < n
      BY <1>3, <2>3, OneLess
    <3>2. Cardinality(u \ {y}) \in Nat /\ n \in Nat
      BY <1>3, <2>1, <3>1
    <3> HIDE DEF Wrong
    <3>3. Wrong(u \ {y}) => Cardinality(u \ {y}) \in Bad
      BY <3>1
    <3> QED
      BY <2>2, <3>1, <3>2, <3>3
  <2>7. g[u \ {x}] = f[q] + g[(u \ {x}) \ {q}]
    BY <2>5, <2>6
  <2>8. g[u \ {q}] = f[x] + g[(u \ {q}) \ {x}]
    BY <2>5, <2>6
  <2>9. (u \ {x}) \ {q} = (u \ {q}) \ {x} /\ (u \ {x}) \ {q} \in SUBSET S
    OBVIOUS
  <2>10. f[x] \in Nat /\ f[q] \in Nat /\ g[(u \ {x}) \ {q}] \in Nat
    BY <1>1, <2>5, <2>9
  <2> HIDE DEF x
  <2>11. g[u] = f[x] + (f[q] + g[(u \ {x}) \ {q}]) /\ g[u \ {q}] = f[x] + g[(u \ {x}) \ {q}]
    BY <2>5, <2>7, <2>8, <2>9
  <2>12. g[u] = f[q] + g[u \ {q}]
    <3> DEFINE a == f[x]
               b == f[q]
               c == g[(u \ {x}) \ {q}]
    <3>1. a \in Nat /\ b \in Nat /\ c \in Nat
      BY <2>10
    <3>2. g[u] = a + (b + c) /\ g[u \ {q}] = a + c
      BY <2>11
    <3> HIDE DEF a, b, c
    <3>3. a + (b + c) = b + (a + c)
      BY <3>1
    <3>4. g[u] = b + g[u \ {q}]
      BY <3>2, <3>3
    <3> QED
      BY <3>4 DEF b
  <2> QED
    BY <2>4, <2>12
<1>5. ~Wrong(S)
  BY <1>4
<1>6. IsFiniteSet(S \ {p})
  BY <1>3
<1>7. SumOf(f, S) = g[S] /\ SumOf(f, S \ {p}) = g[S \ {p}]
  BY <1>1, <1>6, SumIsSolution
<1> QED
  BY <1>5, <1>7

\* One more instalment adds its amount.
LEMMA SumAdd ==
    ASSUME NEW S, IsFiniteSet(S), NEW f, NEW p, p \notin S, \A q \in S \cup {p} : f[q] \in Nat
    PROVE  /\ IsFiniteSet(S \cup {p})
           /\ SumOf(f, S \cup {p}) = SumOf(f, S) + f[p]
<1>1. IsFiniteSet(S \cup {p}) /\ (S \cup {p}) \ {p} = S
  BY FS_AddElement
<1>2. SumOf(f, S \cup {p}) = f[p] + SumOf(f, S)
  BY <1>1, SumRemove
<1>3. SumOf(f, S) \in Nat /\ f[p] \in Nat
  BY SumIsSolution
<1> QED
  BY <1>1, <1>2, <1>3

\* More instalments amount to no less.
LEMMA SumMonotone ==
    ASSUME NEW T, IsFiniteSet(T), NEW S, S \subseteq T, NEW f, \A p \in T : f[p] \in Nat
    PROVE  SumOf(f, S) <= SumOf(f, T)
<1>1. \A u \in SUBSET T : /\ IsFiniteSet(u) /\ Cardinality(u) \in Nat /\ SumOf(f, u) \in Nat
  BY FS_Subset, FS_CardinalityType, SumIsSolution
<1> DEFINE Wrong(u) == S \subseteq u /\ ~(SumOf(f, S) <= SumOf(f, u))
           Bad == {Cardinality(u) : u \in {s \in SUBSET T : Wrong(s)}}
<1>2. Bad = {}
  <2> SUFFICES ASSUME Bad # {} PROVE FALSE
    OBVIOUS
  <2>1. Bad \in SUBSET Nat
    BY <1>1
  <2>2. PICK n \in Bad : \A m \in Bad : n <= m
    BY <2>1, LeastOne
  <2>3. PICK u \in SUBSET T : Wrong(u) /\ n = Cardinality(u)
    OBVIOUS
  <2>4. u # S
    BY <1>1, <2>3
  <2>5. PICK p \in u : p \notin S
    BY <2>3, <2>4
  <2>6. u \ {p} \in SUBSET T /\ S \subseteq u \ {p} /\ Cardinality(u \ {p}) < n
    BY <1>1, <2>3, <2>5, OneLess
  <2>7. SumOf(f, S) <= SumOf(f, u \ {p})
    <3>1. ~Wrong(u \ {p})
      <4> HIDE DEF Wrong
      <4>1. Wrong(u \ {p}) => Cardinality(u \ {p}) \in Bad
        BY <2>6
      <4>2. n \in Nat /\ Cardinality(u \ {p}) \in Nat
        BY <1>1, <2>1, <2>6
      <4> QED
        BY <2>2, <2>6, <4>1, <4>2
    <3> QED
      BY <2>6, <3>1
  <2>8. SumOf(f, u) = f[p] + SumOf(f, u \ {p}) /\ f[p] \in Nat
    BY <1>1, SumRemove
  <2>9. SumOf(f, S) \in Nat /\ SumOf(f, u) \in Nat /\ SumOf(f, u \ {p}) \in Nat
    BY <1>1, <2>6
  <2> QED
    BY <2>3, <2>7, <2>8, <2>9
<1> QED
  BY <1>2

-----------------------------------------------------------------------------
(* The inductive invariants                                                *)

\* What a handler at position l with request q and record d knows, of the
\* payments tendered and of the row's being claimed.
Position(l, q, d, tender, claimed) ==
    /\ l # "idle" => q \in Request
    /\ l \in {"existing", "replay", "insert", "sum", "total", "update", "notify"}
         => q.kind = "payment"
    /\ (l # "idle" /\ q.kind = "payment") => tender[q.preq] \in Amounts
    /\ l = "open" => q.kind = "create"
    /\ l \in {"vendor", "settle", "recovered"} => q.kind = "reconcile"
    /\ (l # "idle" /\ q.kind = "create") => ~claimed
    /\ l \in {"replay", "insert", "sum", "total", "update", "notify", "vendor", "settle",
              "recovered"} => d \in Row
    /\ l = "settle" => tender[Inquired] \in Amounts

WellFormed == \A h \in Handlers : Position(pc[h], req[h], read[h], tendered, txn.claimed)

\* A database transaction of h is open.
InTx(h) == pc[h] \in {"sum", "total", "update"}

\* A database transaction that reported a new instalment is the only one for it
\* and it is not on file; one that did not found it on file.
OneInserts ==
    /\ \A h \in Handlers : InTx(h) => (recorded[h] <=> req[h].preq \notin OnFile)
    /\ \A g, h \in Handlers :
         (Inserted(g) /\ Inserted(h) /\ req[g].preq = req[h].preq) => g = h

\* The one that committed an instalment owes its callback, and nobody else does.
OneTells ==
    /\ \A p \in PayReqs : callbacks[p] \in {0, 1} /\ (callbacks[p] = 1 => p \in OnFile)
    /\ \A h \in Handlers : pc[h] = "notify" => /\ req[h].preq \in OnFile
                                               /\ callbacks[req[h].preq] = 0
    /\ \A g, h \in Handlers :
         (pc[g] = "notify" /\ pc[h] = "notify" /\ req[g].preq = req[h].preq) => g = h

\* The row carries no payment but the one the vendor knows.
RowPayment == txn.preq \in {None, Inquired}

IInv ==
    /\ TypeOK /\ WellFormed /\ IsFiniteSet(OnFile)
    /\ OneInserts /\ OneTells /\ RowPayment /\ AnsweredIsOnFile

\* The sum a handler holds is within what it will leave on file, and the total it
\* compares with is the row's.
SumsAreBacked ==
    \A h \in Handlers :
      /\ pc[h] \in {"total", "update"} => paidAmount[h] <= Total(OnFile \cup {req[h].preq})
      /\ (pc[h] = "update" /\ txn.claimed) => read[h].total = txn.total

\* Requests that do not overlap: one is served, and the bill is open while an
\* instalment is being recorded.
OneServed ==
    InTurn =>
      /\ \A g, h \in Handlers : (pc[g] # "idle" /\ pc[h] # "idle") => g = h
      /\ \A h \in Handlers :
           /\ pc[h] = "replay" => read[h].status = txn.status
           /\ (pc[h] = "insert" \/ InTx(h)) => txn.status \in {Pending, Success}

\* Those that follow one another are inquiries, payments and deletions.
InTurnLoads ==
    \A l \in Loads : ~l.overlap => l.kinds \subseteq {"inquiry", "payment", "delete"}

\* They keep paid_amount the sum, up to the total, and settle what is paid in
\* full; a handler's record is what the row still says.
TallyInTurn ==
    InTurn =>
      /\ txn.paid = Total(OnFile) /\ txn.paid <= txn.total
      /\ txn.status = Pending => txn.paid < txn.total
      /\ \A h \in Handlers :
           /\ pc[h] # "idle" => req[h].kind \in {"inquiry", "payment", "delete"}
           /\ pc[h] \in {"replay", "insert", "sum", "total", "update"}
                => read[h].paid = txn.paid /\ read[h].total = txn.total
           /\ (pc[h] = "insert" \/ InTx(h))
                => /\ req[h].preq \notin OnFile
                   /\ txn.paid + tendered[req[h].preq] <= txn.total
           /\ pc[h] \in {"total", "update"} => paidAmount[h] = Total(OnFile \cup {req[h].preq})

-----------------------------------------------------------------------------
(* Types, and what handlers know                                           *)

\* The request a handler serves: its fields by its kind.
LEMMA RequestFields ==
    ASSUME NEW q \in Request
    PROVE  /\ q.kind \in RequestKinds
           /\ q.kind = "payment" => q.preq \in PayReqs
           /\ q.kind = "create" => q.total \in Totals
BY DEF Request, RequestKinds

\* The handlers keep their types.
HandlersOK ==
    /\ pc \in [Handlers -> PCs]
    /\ req \in [Handlers -> Request \cup {None}]
    /\ read \in [Handlers -> Row \cup {None}]
    /\ recorded \in [Handlers -> BOOLEAN]
    /\ paidAmount \in [Handlers -> Nat]

\* Only h moves.
Others(h) ==
    \A g \in Handlers \ {h} :
        /\ pc'[g] = pc[g] /\ req'[g] = req[g] /\ read'[g] = read[g]
        /\ recorded'[g] = recorded[g] /\ paidAmount'[g] = paidAmount[g]

\* The row keeps its type, its claim and the payment on it.
RowIsKept ==
    /\ txn' \in Row /\ txn'.claimed = txn.claimed
    /\ txn'.preq = txn.preq \/ txn'.preq = Inquired

\* The response goes out: the handler is idle.
LEMMA RespondMoves ==
    ASSUME TypeOK, NEW h \in Handlers, Respond(h)
    PROVE  /\ HandlersOK' /\ Others(h) /\ pc'[h] = "idle"
           /\ Position(pc'[h], req'[h], read'[h], tendered', txn'.claimed)
<1>1. /\ pc' = [pc EXCEPT ![h] = "idle"] /\ req' = [req EXCEPT ![h] = None]
      /\ read' = [read EXCEPT ![h] = None] /\ recorded' = [recorded EXCEPT ![h] = FALSE]
      /\ paidAmount' = [paidAmount EXCEPT ![h] = 0]
  BY DEF Respond, Goto
<1>2. HandlersOK
  BY DEF TypeOK, HandlersOK
<1>3. HandlersOK'
  BY <1>1, <1>2 DEF HandlersOK, PCs
<1>4. Others(h) /\ pc'[h] = "idle"
  BY <1>1, <1>2 DEF HandlersOK, Others
<1> QED
  BY <1>3, <1>4 DEF Position

\* The handler goes to l with the record d, keeping its request.
LEMMA GotoMoves ==
    ASSUME TypeOK, NEW h \in Handlers, NEW l \in PCs, Goto(h, l), UNCHANGED <<req, tx>>,
           NEW d \in Row \cup {None},
           \/ read' = read /\ d = read[h]
           \/ read' = [read EXCEPT ![h] = d]
    PROVE  /\ HandlersOK' /\ Others(h)
           /\ pc'[h] = l /\ req'[h] = req[h] /\ read'[h] = d
           /\ recorded'[h] = recorded[h] /\ paidAmount'[h] = paidAmount[h]
<1>1. pc' = [pc EXCEPT ![h] = l] /\ UNCHANGED <<req, recorded, paidAmount>>
  BY DEF Goto, tx
<1>2. HandlersOK
  BY DEF TypeOK, HandlersOK
<1>3. HandlersOK'
  BY <1>1, <1>2 DEF HandlersOK
<1>4. Others(h) /\ pc'[h] = l /\ read'[h] = d
  BY <1>1, <1>2 DEF HandlersOK, Others
<1> QED
  BY <1>1, <1>3, <1>4

\* A move of one handler keeps the types and what every handler knows.
LEMMA MoveKeepsTypes ==
    ASSUME IInv, NEW h \in Handlers, HandlersOK', Others(h), RowIsKept, UNCHANGED given,
           Position(pc'[h], req'[h], read'[h], tendered', txn'.claimed),
           payments' \in [PayReqs -> Amounts \cup {None}],
           \A p \in PayReqs : payments'[p] \in {None, tendered[p]},
           callbacks' \in [PayReqs -> Nat], recovered' \in Nat, answered' \in SUBSET PayReqs
    PROVE  TypeOK' /\ WellFormed' /\ RowPayment'
<1>1. tendered' = tendered /\ load' = load
  BY DEF given
<1>2. TypeOK'
  BY <1>1 DEF IInv, TypeOK, HandlersOK, RowIsKept
<1>3. ASSUME NEW g \in Handlers
      PROVE  Position(pc'[g], req'[g], read'[g], tendered', txn'.claimed)
  <2>1. CASE g = h
    BY <2>1
  <2>2. CASE g # h
    <3>1. pc'[g] = pc[g] /\ req'[g] = req[g] /\ read'[g] = read[g]
      BY <2>2 DEF Others
    <3>2. Position(pc[g], req[g], read[g], tendered, txn.claimed)
      BY DEF IInv, WellFormed
    <3> QED
      BY <1>1, <3>1, <3>2 DEF RowIsKept
  <2> QED
    BY <2>1, <2>2
<1>4. WellFormed'
  BY <1>3 DEF WellFormed
<1>5. RowPayment'
  BY DEF IInv, RowPayment, RowIsKept
<1> QED
  BY <1>2, <1>4, <1>5

\* An answer about a payment stays true.
LEMMA AnswersAreKept ==
    ASSUME IInv, RowIsKept, OnFile \subseteq OnFile',
           \A p \in answered' : p \in answered \/ p \in OnFile' \/ txn'.preq = p
    PROVE  AnsweredIsOnFile'
<1> SUFFICES ASSUME NEW p \in answered' PROVE p \in OnFile' \/ txn'.preq = p
  BY DEF AnsweredIsOnFile
<1>1. CASE p \in answered
  <2>1. p \in OnFile \/ txn.preq = p
    BY <1>1 DEF IInv, AnsweredIsOnFile
  <2>2. p \in PayReqs /\ p # None
    BY <1>1, NoneAssumption DEF IInv, TypeOK
  <2> QED
    BY <2>1, <2>2 DEF IInv, RowPayment, RowIsKept
<1>2. CASE p \notin answered
  BY <1>2
<1> QED
  BY <1>1, <1>2

\* A move of one handler that touches neither instalments nor callbacks.
LEMMA QuietKeepsInvariant ==
    ASSUME IInv, NEW h \in Handlers, HandlersOK', Others(h), RowIsKept,
           UNCHANGED <<given, payments, callbacks>>,
           Position(pc'[h], req'[h], read'[h], tendered', txn'.claimed),
           recovered' \in Nat, answered' \in SUBSET PayReqs,
           \A p \in answered' : p \in answered \/ p \in OnFile \/ txn'.preq = p,
           pc'[h] # "notify",
           pc'[h] \in {"sum", "total", "update"}
             => /\ recorded'[h] <=> req'[h].preq \notin OnFile
                /\ recorded'[h] => \A g \in Handlers \ {h} :
                                     Inserted(g) => req[g].preq # req'[h].preq
    PROVE  IInv'
<1>1. OnFile' = OnFile
  BY DEF OnFile
<1>2. TypeOK' /\ WellFormed' /\ RowPayment'
  <2>1. /\ payments' \in [PayReqs -> Amounts \cup {None}] /\ callbacks' \in [PayReqs -> Nat]
        /\ \A p \in PayReqs : payments'[p] \in {None, tendered[p]}
    BY DEF IInv, TypeOK
  <2> QED
    BY <2>1, MoveKeepsTypes
<1>3. AnsweredIsOnFile'
  BY <1>1, AnswersAreKept
<1>4. \A g \in Handlers : g # h => (Inserted(g)' <=> Inserted(g)) /\ (InTx(g)' <=> InTx(g))
  BY DEF Others, Inserted, InTx
<1>5. OneInserts'
  <2>1. ASSUME NEW g \in Handlers, InTx(g)'
        PROVE  recorded'[g] <=> req'[g].preq \notin OnFile'
    <3>1. CASE g = h
      BY <1>1, <2>1, <3>1 DEF InTx
    <3>2. CASE g # h
      <4>1. InTx(g) /\ recorded'[g] = recorded[g] /\ req'[g] = req[g]
        BY <1>4, <2>1, <3>2 DEF Others
      <4> QED
        BY <1>1, <4>1 DEF IInv, OneInserts
    <3> QED
      BY <3>1, <3>2
  <2>2. ASSUME NEW g \in Handlers, NEW k \in Handlers, Inserted(g)', Inserted(k)',
               req'[g].preq = req'[k].preq
        PROVE  g = k
    <3>1. ASSUME NEW j \in Handlers \ {h}, Inserted(j)', Inserted(h)' PROVE req'[j].preq # req'[h].preq
      BY <1>4, <3>1 DEF Inserted, Others
    <3>2. CASE g # h /\ k # h
      <4>1. Inserted(g) /\ Inserted(k) /\ req[g].preq = req[k].preq
        BY <1>4, <2>2, <3>2 DEF Others
      <4> QED
        BY <4>1 DEF IInv, OneInserts
    <3> QED
      BY <2>2, <3>1, <3>2
  <2> QED
    BY <2>1, <2>2 DEF OneInserts
<1>6. OneTells'
  <2>1. ASSUME NEW g \in Handlers, pc'[g] = "notify"
        PROVE  g # h /\ pc[g] = "notify" /\ req'[g] = req[g]
    BY <2>1 DEF Others
  <2> QED
    BY <1>1, <2>1 DEF IInv, OneTells
<1> QED
  BY <1>1, <1>2, <1>3, <1>5, <1>6 DEF IInv

\* What a handler knows.
LEMMA Known ==
    ASSUME IInv, NEW h \in Handlers
    PROVE  /\ Position(pc[h], req[h], read[h], tendered, txn.claimed)
           /\ pc[h] # "idle" => req[h] \in Request /\ req[h].kind \in RequestKinds
           /\ (pc[h] # "idle" /\ req[h].kind = "payment") => /\ req[h].preq \in PayReqs
                                                             /\ tendered[req[h].preq] \in Amounts
           /\ pc[h] = "open" => req[h].kind = "create" /\ req[h].total \in Totals
<1>1. Position(pc[h], req[h], read[h], tendered, txn.claimed)
  BY DEF IInv, WellFormed
<1>2. pc[h] # "idle" => req[h] \in Request
  BY <1>1 DEF Position
<1> QED
  BY <1>1, <1>2, RequestFields DEF Position

\* UPDATE and COMMIT: the instalment is on file, with the amount tendered.
LEMMA CommitWrites ==
    ASSUME IInv, NEW h \in Handlers, UpdateAndCommit(h)
    PROVE  /\ req[h].preq \in PayReqs /\ tendered[req[h].preq] \in Amounts
           /\ payments' \in [PayReqs -> Amounts \cup {None}]
           /\ \A p \in PayReqs : payments'[p] \in {None, tendered[p]}
           /\ OnFile' = OnFile \cup {req[h].preq} /\ IsFiniteSet(OnFile')
           /\ RowIsKept /\ txn'.paid = paidAmount[h] /\ txn'.total = txn.total
           /\ txn'.status = StatusAfter(paidAmount[h], read[h].total) /\ txn'.preq = txn.preq
           /\ req[h].preq \in OnFile => payments' = payments
<1> DEFINE p == req[h].preq
<1>1. /\ pc[h] = "update" /\ payments' = [payments EXCEPT ![p] = tendered[p]]
      /\ txn' = [txn EXCEPT !.paid = paidAmount[h],
                            !.status = StatusAfter(paidAmount[h], read[h].total)]
  BY DEF UpdateAndCommit
<1>2. p \in PayReqs /\ tendered[p] \in Amounts
  BY <1>1, Known DEF Position
<1>3. /\ payments \in [PayReqs -> Amounts \cup {None}] /\ txn \in Row /\ paidAmount[h] \in Nat
      /\ \A q \in PayReqs : payments[q] \in {None, tendered[q]}
  BY DEF IInv, TypeOK
<1>4. tendered[p] # None
  BY <1>2, NoneAssumption, AmountsAssumption
<1>5. /\ payments' \in [PayReqs -> Amounts \cup {None}]
      /\ \A q \in PayReqs : payments'[q] \in {None, tendered[q]}
      /\ OnFile' = OnFile \cup {p} /\ (p \in OnFile => payments' = payments)
  BY <1>1, <1>2, <1>3, <1>4 DEF OnFile
<1>6. IsFiniteSet(OnFile')
  BY <1>5, FS_AddElement DEF IInv
<1>7. StatusAfter(paidAmount[h], read[h].total) \in {Success, Pending}
  BY DEF StatusAfter
<1>8. /\ RowIsKept /\ txn'.paid = paidAmount[h] /\ txn'.total = txn.total
      /\ txn'.status = StatusAfter(paidAmount[h], read[h].total) /\ txn'.preq = txn.preq
  BY <1>1, <1>3, <1>7 DEF RowIsKept, Row
<1> QED
  BY <1>2, <1>5, <1>6, <1>8

\* The commit keeps the invariant: nobody else was recording the instalment.
LEMMA CommitKeepsInvariant ==
    ASSUME IInv, NEW h \in Handlers, UpdateAndCommit(h)
    PROVE  IInv'
<1> DEFINE p == req[h].preq
<1>0. /\ TypeOK /\ pc[h] = "update" /\ InTx(h) /\ UNCHANGED <<given, tasks>>
      /\ callbacks' \in [PayReqs -> Nat] /\ recovered' \in Nat /\ callbacks' = callbacks
  BY DEF IInv, TypeOK, UpdateAndCommit, InTx, tasks
<1>1. /\ p \in PayReqs /\ tendered[p] \in Amounts /\ RowIsKept
      /\ payments' \in [PayReqs -> Amounts \cup {None}]
      /\ \A q \in PayReqs : payments'[q] \in {None, tendered[q]}
      /\ OnFile' = OnFile \cup {p} /\ IsFiniteSet(OnFile')
      /\ p \in OnFile => payments' = payments
  BY CommitWrites
<1>2. recorded[h] <=> p \notin OnFile
  BY <1>0 DEF IInv, OneInserts
<1>3. CASE ~recorded[h]
  <2>1. Respond(h) /\ answered' = answered \cup {p} /\ p \in OnFile /\ payments' = payments
    BY <1>1, <1>2, <1>3 DEF UpdateAndCommit, Recorded
  <2>2. /\ HandlersOK' /\ Others(h) /\ pc'[h] = "idle"
        /\ Position(pc'[h], req'[h], read'[h], tendered', txn'.claimed)
    BY <1>0, <2>1, RespondMoves
  <2>3. answered' \in SUBSET PayReqs
    BY <1>0, <1>1, <2>1 DEF TypeOK
  <2> QED
    BY <1>0, <1>1, <2>1, <2>2, <2>3, QuietKeepsInvariant
<1>4. CASE recorded[h]
  <2>1. Goto(h, "notify") /\ UNCHANGED <<req, read, tx, answered>>
    BY <1>4 DEF UpdateAndCommit, Recorded
  <2>2. Position("update", req[h], read[h], tendered, txn.claimed) /\ read[h] \in Row
    BY <1>0, Known DEF Position
  <2>3. /\ HandlersOK' /\ Others(h) /\ pc'[h] = "notify" /\ req'[h] = req[h] /\ read'[h] = read[h]
    BY <1>0, <2>1, <2>2, GotoMoves DEF PCs
  <2>4. Position(pc'[h], req'[h], read'[h], tendered', txn'.claimed)
    BY <1>0, <1>1, <2>2, <2>3 DEF Position, given, RowIsKept
  <2>5. answered' \in SUBSET PayReqs
    BY <1>0, <2>1 DEF TypeOK
  <2>6. TypeOK' /\ WellFormed' /\ RowPayment'
    BY <1>0, <1>1, <2>3, <2>4, <2>5, MoveKeepsTypes
  <2>7. AnsweredIsOnFile'
    BY <1>1, <2>1, AnswersAreKept
  <2>8. Inserted(h)
    BY <1>0, <1>4 DEF Inserted
  <2>9. ASSUME NEW g \in Handlers, InTx(g)'
        PROVE  /\ g # h /\ InTx(g) /\ recorded'[g] = recorded[g] /\ req'[g] = req[g]
               /\ req[g].preq = p => ~recorded[g]
    <3>1. g # h
      BY <2>3, <2>9 DEF InTx
    <3>2. InTx(g) /\ recorded'[g] = recorded[g] /\ req'[g] = req[g]
      BY <2>3, <2>9, <3>1 DEF InTx, Others
    <3>3. recorded[g] => Inserted(g)
      BY <3>2 DEF InTx, Inserted
    <3> QED
      BY <2>8, <3>1, <3>2, <3>3 DEF IInv, OneInserts
  <2>10. OneInserts'
    <3>1. ASSUME NEW g \in Handlers, InTx(g)'
          PROVE  recorded'[g] <=> req'[g].preq \notin OnFile'
      <4>1. recorded[g] <=> req[g].preq \notin OnFile
        BY <2>9, <3>1 DEF IInv, OneInserts
      <4> QED
        BY <1>1, <2>9, <3>1, <4>1
    <3>2. ASSUME NEW g \in Handlers, NEW k \in Handlers, Inserted(g)', Inserted(k)',
                 req'[g].preq = req'[k].preq
          PROVE  g = k
      <4>1. InTx(g)' /\ InTx(k)' /\ recorded'[g] /\ recorded'[k]
        BY <3>2 DEF InTx, Inserted
      <4>2. Inserted(g) /\ Inserted(k) /\ req[g].preq = req[k].preq
        BY <2>9, <3>2, <4>1 DEF InTx, Inserted
      <4> QED
        BY <4>2 DEF IInv, OneInserts
    <3> QED
      BY <3>1, <3>2 DEF OneInserts
  <2>11. OneTells'
    <3>1. callbacks[p] = 0
      BY <1>1, <1>2, <1>4 DEF IInv, OneTells
    <3>2. \A g \in Handlers \ {h} : pc'[g] = "notify"
            => /\ pc[g] = "notify" /\ req'[g] = req[g] /\ req[g].preq \in OnFile
               /\ req[g].preq # p /\ callbacks[req[g].preq] = 0
      BY <1>2, <1>4, <2>3 DEF Others, IInv, OneTells
    <3>3. \A g \in Handlers : pc'[g] = "notify" => /\ req'[g].preq \in OnFile'
                                                   /\ callbacks'[req'[g].preq] = 0
      BY <1>0, <1>1, <2>3, <3>1, <3>2
    <3>4. ASSUME NEW g \in Handlers, NEW k \in Handlers, pc'[g] = "notify", pc'[k] = "notify",
                 req'[g].preq = req'[k].preq
          PROVE  g = k
      <4>1. CASE g # h /\ k # h
        BY <3>2, <3>4, <4>1 DEF IInv, OneTells
      <4>2. CASE g = h \/ k = h
        BY <2>3, <3>2, <3>4, <4>2
      <4> QED
        BY <4>1, <4>2
    <3>5. \A q \in PayReqs : callbacks'[q] \in {0, 1} /\ (callbacks'[q] = 1 => q \in OnFile')
      BY <1>0, <1>1 DEF IInv, OneTells
    <3> QED
      BY <3>3, <3>4, <3>5 DEF OneTells
  <2> QED
    BY <1>1, <2>6, <2>7, <2>10, <2>11 DEF IInv
<1> QED
  BY <1>3, <1>4

\* The callback of /payment: the first one for its instalment.
LEMMA NotifyKeepsInvariant ==
    ASSUME IInv, NEW h \in Handlers, NotifyPayment(h)
    PROVE  IInv'
<1> DEFINE p == req[h].preq
<1>0. /\ TypeOK /\ pc[h] = "notify" /\ UNCHANGED <<txn, payments, given, recovered>> /\ Respond(h)
      /\ answered' = answered \cup {p} /\ RowIsKept /\ recovered' \in Nat
      /\ callbacks' = callbacks \/ callbacks' = [callbacks EXCEPT ![p] = @ + 1]
  BY DEF IInv, TypeOK, NotifyPayment, RowIsKept
<1>1. p \in PayReqs /\ p \in OnFile /\ callbacks[p] = 0
  BY <1>0, Known DEF Position, IInv, OneTells
<1>2. /\ HandlersOK' /\ Others(h) /\ pc'[h] = "idle"
      /\ Position(pc'[h], req'[h], read'[h], tendered', txn'.claimed)
  BY <1>0, RespondMoves
<1>3. answered' \in SUBSET PayReqs /\ OnFile' = OnFile
  BY <1>0, <1>1 DEF TypeOK, OnFile
<1>4. CASE callbacks' = callbacks
  BY <1>0, <1>1, <1>2, <1>3, <1>4, QuietKeepsInvariant
<1>5. CASE callbacks' = [callbacks EXCEPT ![p] = @ + 1]
  <2>1. /\ callbacks' \in [PayReqs -> Nat] /\ callbacks'[p] = 1
        /\ \A q \in PayReqs \ {p} : callbacks'[q] = callbacks[q]
    BY <1>0, <1>1, <1>5 DEF TypeOK
  <2>2. /\ payments' \in [PayReqs -> Amounts \cup {None}]
        /\ \A q \in PayReqs : payments'[q] \in {None, tendered[q]}
    BY <1>0 DEF TypeOK
  <2>3. TypeOK' /\ WellFormed' /\ RowPayment'
    BY <1>0, <1>2, <1>3, <2>1, <2>2, MoveKeepsTypes
  <2>4. AnsweredIsOnFile'
    BY <1>0, <1>1, <1>3, AnswersAreKept
  <2>5. \A g \in Handlers : (InTx(g)' => g # h /\ InTx(g)) /\ (Inserted(g)' => g # h /\ Inserted(g))
    BY <1>2 DEF Others, Inserted, InTx
  <2>6. OneInserts'
    BY <1>2, <1>3, <2>5 DEF IInv, OneInserts, Others
  <2>7. \A g \in Handlers : pc'[g] = "notify"
          => /\ g # h /\ pc[g] = "notify" /\ req'[g] = req[g] /\ req[g].preq # p
             /\ req[g].preq \in PayReqs
    <3>1. ASSUME NEW g \in Handlers, pc'[g] = "notify"
          PROVE  g # h /\ pc[g] = "notify" /\ req'[g] = req[g]
      BY <1>2, <3>1 DEF Others
    <3>2. ASSUME NEW g \in Handlers, pc[g] = "notify", g # h
          PROVE  req[g].preq # p /\ req[g].preq \in PayReqs
      BY <1>0, <3>2, Known DEF IInv, OneTells, Position
    <3> QED
      BY <3>1, <3>2
  <2>8. OneTells'
    BY <1>1, <1>3, <2>1, <2>7 DEF IInv, OneTells
  <2> QED
    BY <1>3, <2>3, <2>4, <2>6, <2>8 DEF IInv
<1> QED
  BY <1>0, <1>4, <1>5

\* The invariant holds before any payment.
LEMMA InitInvariant == Init => IInv
<1> SUFFICES ASSUME Init PROVE IInv
  OBVIOUS
<1>1. OnFile = {} /\ answered = {} /\ txn.preq = None
  BY DEF Init, OnFile
<1>2. txn \in Row
  <2>1. load.totals \subseteq Totals /\ load.claims \subseteq BOOLEAN
    BY LoadsAssumption DEF Init, Load
  <2>2. txn \in [status: {Pending}, paid: {0}, total: Totals, preq: {None},
                claimed: BOOLEAN, past: {FALSE}, url: BOOLEAN]
    BY <2>1 DEF Init
  <2>3. {FALSE} \subseteq BOOLEAN /\ {Pending} \subseteq {Success, Expired, Pending, Deleted}
    OBVIOUS
  <2>4. ASSUME NEW F, F \subseteq BOOLEAN, NEW T,
               T \subseteq {Success, Expired, Pending, Deleted},
               txn \in [status: T, paid: {0}, total: Totals, preq: {None},
                       claimed: BOOLEAN, past: F, url: BOOLEAN]
        PROVE  txn \in Row
    BY <2>4 DEF Row
  <2> QED
    BY <2>2, <2>3, <2>4
<1>3. /\ payments \in [PayReqs -> Amounts \cup {None}] /\ tendered \in [PayReqs -> Amounts \cup {None}]
      /\ \A p \in PayReqs : payments[p] \in {None, tendered[p]}
      /\ callbacks \in [PayReqs -> Nat] /\ \A p \in PayReqs : callbacks[p] = 0
  BY DEF Init
<1>4. HandlersOK /\ \A h \in Handlers : pc[h] = "idle"
  BY DEF Init, HandlersOK, PCs
<1>5. TypeOK
  BY <1>1, <1>2, <1>3, <1>4 DEF Init, TypeOK, HandlersOK
<1>6. WellFormed /\ OneInserts
  BY <1>4 DEF WellFormed, Position, OneInserts, InTx, Inserted
<1>7. OneTells
  BY <1>3, <1>4 DEF OneTells
<1> QED
  BY <1>1, <1>5, <1>6, <1>7, FS_EmptySet DEF IInv, RowPayment, AnsweredIsOnFile

\* The row is written by one statement.
LEMMA RowWrites ==
    ASSUME IInv
    PROVE  /\ txn' = txn => RowIsKept
           /\ \A s \in {Expired, Deleted} : SetPending(s) => RowIsKept
           /\ ExpiredDatePasses => RowIsKept
           /\ \A h \in Handlers : SaveInquiry(h) => RowIsKept
           /\ \A h \in Handlers : Settle(h) => RowIsKept
<1>1. txn \in Row
  BY DEF IInv, TypeOK
<1>2. txn' = txn => RowIsKept
  BY <1>1 DEF RowIsKept
<1>3. ASSUME NEW s \in {Expired, Deleted}, SetPending(s) PROVE RowIsKept
  BY <1>1, <1>2, <1>3 DEF SetPending, RowIsKept, Row, Success, Expired, Pending, Deleted
<1>4. ASSUME ExpiredDatePasses PROVE RowIsKept
  BY <1>1, <1>4 DEF ExpiredDatePasses, RowIsKept, Row
<1>5. ASSUME NEW h \in Handlers, SaveInquiry(h) PROVE RowIsKept
  <2>1. req[h].total \in Totals
    BY <1>5, Known DEF SaveInquiry
  <2>2. PICK url \in BOOLEAN :
           txn' = [txn EXCEPT !.status = Pending, !.total = req[h].total, !.past = FALSE, !.url = url]
    BY <1>5 DEF SaveInquiry
  <2> QED
    BY <1>1, <2>1, <2>2 DEF RowIsKept, Row, Success, Expired, Pending, Deleted
<1>6. ASSUME NEW h \in Handlers, Settle(h) PROVE RowIsKept
  <2>1. tendered[Inquired] \in Nat
    BY <1>6, Known, AmountsAssumption DEF Settle, Position
  <2>2. txn' = txn \/ txn' = [txn EXCEPT !.status = Success, !.paid = tendered[Inquired],
                                         !.preq = Inquired]
    BY <1>6 DEF Settle
  <2> QED
    BY <1>1, <1>2, <2>1, <2>2, InquiredAssumption, ZenonT(30)
    DEF RowIsKept, Row, Success, Expired, Pending, Deleted
<1> QED
  BY <1>2, <1>3, <1>4, <1>5, <1>6

\* The invariant is kept by every statement, call and failure.
LEMMA Invariance == IInv /\ [Next]_vars => IInv'
<1> SUFFICES ASSUME IInv, [Next]_vars PROVE IInv'
  OBVIOUS
<1>0. TypeOK /\ (txn' = txn => RowIsKept)
  BY RowWrites DEF IInv
<1>1. ASSUME NEW h \in Handlers, Respond(h), RowIsKept, UNCHANGED <<given, payments, callbacks>>,
             recovered' \in Nat, answered' \in SUBSET PayReqs,
             \A p \in answered' : p \in answered \/ p \in OnFile \/ txn'.preq = p
      PROVE  IInv'
  <2>1. /\ HandlersOK' /\ Others(h) /\ pc'[h] = "idle"
        /\ Position(pc'[h], req'[h], read'[h], tendered', txn'.claimed)
    BY <1>0, <1>1, RespondMoves
  <2> QED
    BY <1>1, <2>1, QuietKeepsInvariant
<1>2. ASSUME NEW h \in Handlers, Respond(h), RowIsKept,
             UNCHANGED <<given, payments, tasks, answered>>
      PROVE  IInv'
  <2>1. /\ recovered' \in Nat /\ UNCHANGED <<given, payments, callbacks>>
        /\ answered' \in SUBSET PayReqs /\ answered' = answered
    BY <1>0, <1>2 DEF TypeOK, tasks
  <2> QED
    BY <1>1, <1>2, <2>1
<1>3. ASSUME NEW h \in Handlers, NEW l \in PCs \ {"sum", "total", "update", "notify"},
             Goto(h, l), UNCHANGED <<req, tx>>, NEW d \in Row \cup {None},
             \/ read' = read /\ d = read[h]
             \/ read' = [read EXCEPT ![h] = d],
             RowIsKept, UNCHANGED <<given, payments, tasks, answered>>,
             Position(l, req[h], d, tendered, txn.claimed)
      PROVE  IInv'
  <2>1. /\ HandlersOK' /\ Others(h) /\ pc'[h] = l /\ req'[h] = req[h] /\ read'[h] = d
    BY <1>0, <1>3, GotoMoves
  <2>2. Position(pc'[h], req'[h], read'[h], tendered', txn'.claimed)
    BY <1>3, <2>1 DEF RowIsKept, given
  <2>3. /\ recovered' \in Nat /\ answered' \in SUBSET PayReqs
        /\ UNCHANGED <<given, payments, callbacks, answered>>
    BY <1>0, <1>3 DEF TypeOK, tasks
  <2> QED
    BY <1>3, <2>1, <2>2, <2>3, QuietKeepsInvariant
<1>4. ASSUME NEW h \in Handlers, NEW r \in Request, NEW l \in {"existing", "lookup"},
             l = "existing" => r.kind = "payment",
             r.kind = "payment" => tendered[r.preq] \in Amounts,
             r.kind = "create" => ~txn.claimed, Arrive(h, r, l)
      PROVE  IInv'
  <2>1. /\ pc' = [pc EXCEPT ![h] = l] /\ req' = [req EXCEPT ![h] = r]
        /\ UNCHANGED <<txn, payments, given, tasks, read, tx, answered>>
    BY <1>4 DEF Arrive, Goto
  <2>2. HandlersOK' /\ Others(h) /\ pc'[h] = l /\ req'[h] = r
    BY <1>0, <2>1 DEF TypeOK, HandlersOK, Others, PCs, tx
  <2>3. Position(pc'[h], req'[h], read'[h], tendered', txn'.claimed)
    BY <1>4, <2>1, <2>2 DEF Position, given
  <2>4. /\ recovered' \in Nat /\ answered' \in SUBSET PayReqs
        /\ UNCHANGED <<given, payments, callbacks, answered>>
    BY <1>0, <2>1 DEF TypeOK, tasks
  <2>5. pc'[h] \notin {"sum", "total", "update", "notify"}
    BY <2>2
  <2> QED
    BY <1>0, <2>1, <2>2, <2>3, <2>4, <2>5, QuietKeepsInvariant
<1>5. ASSUME NEW h \in Handlers, Arrivals(h) PROVE IInv'
  <2>1. ASSUME NEW p \in PayReqs, PaymentArrives(h, p) PROVE IInv'
    <3>1. [kind |-> "payment", preq |-> p] \in Request
      BY DEF Request
    <3>2. tendered[p] \in Amounts
      BY <1>0, <2>1 DEF PaymentArrives, TypeOK
    <3> QED
      BY <1>4, <2>1, <3>1, <3>2 DEF PaymentArrives
  <2>2. CASE InquiryArrives(h) \/ DeleteArrives(h) \/ ReconcileArrives(h)
    <3>1. PICK k \in {"inquiry", "delete", "reconcile"} : Arrive(h, [kind |-> k], "lookup")
      BY <2>2 DEF InquiryArrives, DeleteArrives, ReconcileArrives
    <3>2. [kind |-> k] \in Request
      BY DEF Request
    <3> QED
      BY <1>4, <3>1, <3>2
  <2>3. CASE CreateArrives(h)
    <3>1. PICK t \in load.totals : Arrive(h, [kind |-> "create", total |-> t], "lookup")
      BY <2>3 DEF CreateArrives
    <3>2. t \in Totals
      BY <1>0, LoadsAssumption DEF TypeOK, Load
    <3>3. [kind |-> "create", total |-> t] \in Request
      BY <3>2 DEF Request
    <3> QED
      BY <1>4, <2>3, <3>1, <3>3 DEF CreateArrives
  <2> QED
    BY <1>5, <2>1, <2>2, <2>3 DEF Arrivals
<1>6. ASSUME NEW h \in Handlers PROVE read[h] \in Row \cup {None}
  BY <1>0 DEF TypeOK
<1>7. ASSUME NEW h \in Handlers, CheckExisting(h) PROVE IInv'
  <2> DEFINE p == req[h].preq
  <2>1. UNCHANGED <<txn, payments, given, tasks>> /\ pc[h] = "existing"
    BY <1>7 DEF CheckExisting
  <2>2. p \in PayReqs
    BY <2>1, Known DEF Position
  <2>3. CASE txn.preq = p /\ answered' = answered \cup {p} /\ Respond(h)
    <3>1. recovered' \in Nat /\ UNCHANGED <<given, payments, callbacks>>
      BY <1>0, <2>1 DEF TypeOK, tasks
    <3>2. /\ answered' \in SUBSET PayReqs /\ RowIsKept
          /\ \A q \in answered' : q \in answered \/ q \in OnFile \/ txn'.preq = q
      BY <1>0, <2>1, <2>2, <2>3 DEF TypeOK
    <3> QED
      BY <1>1, <2>3, <3>1, <3>2
  <2>4. CASE Goto(h, "lookup") /\ UNCHANGED <<req, read, tx, answered>>
    <3>1. Position("lookup", req[h], read[h], tendered, txn.claimed)
      BY <2>1, Known DEF Position
    <3> QED
      BY <1>0, <1>3, <1>6, <2>1, <2>4, <3>1 DEF PCs
  <2> QED
    BY <1>7, <2>3, <2>4 DEF CheckExisting
<1>8. ASSUME NEW h \in Handlers, Lookup(h) PROVE IInv'
  <2>1. UNCHANGED <<txn, payments, given, tasks, answered>> /\ pc[h] = "lookup"
    BY <1>8 DEF Lookup
  <2>2. CASE Respond(h)
    BY <1>0, <1>2, <2>1, <2>2
  <2>3. CASE /\ Route(h) # "answer" /\ Goto(h, Route(h)) /\ read' = [read EXCEPT ![h] = txn]
             /\ UNCHANGED <<req, tx>>
    <3> DEFINE l == Route(h)
    <3>1. /\ l \in {"replay", "mark", "cancel", "open", "vendor"}
          /\ l = "replay" => req[h].kind = "payment"
          /\ l = "open" => req[h].kind = "create"
          /\ l = "vendor" => req[h].kind = "reconcile"
      BY <2>1, <2>3, Known DEF Route, RequestKinds
    <3> HIDE DEF l
    <3>2. txn \in Row
      BY <1>0 DEF TypeOK
    <3>3. Position(l, req[h], txn, tendered, txn.claimed)
      BY <2>1, <3>1, <3>2, Known DEF Position
    <3>4. Goto(h, l) /\ l \in PCs \ {"sum", "total", "update", "notify"}
      BY <2>3, <3>1 DEF l, PCs
    <3> QED
      BY <1>0, <1>3, <2>1, <2>3, <3>2, <3>3, <3>4
  <2> QED
    BY <1>8, <2>2, <2>3 DEF Lookup
<1>9. ASSUME NEW h \in Handlers, Replay(h) PROVE IInv'
  <2> DEFINE p == req[h].preq
  <2>1. UNCHANGED <<txn, payments, given, tasks>> /\ pc[h] = "replay"
    BY <1>9 DEF Replay
  <2>2. p \in PayReqs /\ read[h] \in Row
    BY <2>1, Known DEF Position
  <2>3. CASE p \in OnFile /\ answered' = answered \cup {p} /\ Respond(h)
    <3>1. recovered' \in Nat /\ UNCHANGED <<given, payments, callbacks>>
      BY <1>0, <2>1 DEF TypeOK, tasks
    <3>2. /\ answered' \in SUBSET PayReqs /\ RowIsKept
          /\ \A q \in answered' : q \in answered \/ q \in OnFile \/ txn'.preq = q
      BY <1>0, <2>1, <2>2, <2>3 DEF TypeOK
    <3> QED
      BY <1>1, <2>3, <3>1, <3>2
  <2>4. CASE Respond(h) /\ UNCHANGED answered
    BY <1>0, <1>2, <2>1, <2>4
  <2>5. CASE (Goto(h, "mark") \/ Goto(h, "insert")) /\ UNCHANGED <<req, read, tx, answered>>
    <3>1. /\ Position("mark", req[h], read[h], tendered, txn.claimed)
          /\ Position("insert", req[h], read[h], tendered, txn.claimed)
      BY <2>1, Known DEF Position
    <3> QED
      BY <1>0, <1>3, <1>6, <2>1, <2>5, <3>1 DEF PCs
  <2>6. \/ p \in OnFile /\ answered' = answered \cup {p} /\ Respond(h)
        \/ Respond(h) /\ UNCHANGED answered
        \/ (Goto(h, "mark") \/ Goto(h, "insert")) /\ UNCHANGED <<req, read, tx, answered>>
    BY <1>9 DEF Replay
  <2> QED
    BY <2>3, <2>4, <2>5, <2>6
<1>10. ASSUME NEW h \in Handlers, Insert(h) PROVE IInv'
  <2> DEFINE new == req[h].preq \notin OnFile
  <2>1. /\ UNCHANGED <<txn, payments, given, tasks, req, read, paidAmount, answered>>
        /\ pc[h] = "insert" /\ pc' = [pc EXCEPT ![h] = "sum"]
        /\ recorded' = [recorded EXCEPT ![h] = new]
        /\ \A g \in Handlers \ {h} : Inserted(g) => req[g].preq # req[h].preq
    BY <1>10 DEF Insert, Goto
  <2>2. new \in BOOLEAN
    OBVIOUS
  <2>3. recorded' \in [Handlers -> BOOLEAN] /\ recorded'[h] = new
        /\ \A g \in Handlers \ {h} : recorded'[g] = recorded[g]
    <3> HIDE DEF new
    <3> QED
      BY <1>0, <2>1, <2>2 DEF TypeOK
  <2>4. HandlersOK' /\ Others(h) /\ pc'[h] = "sum" /\ req'[h] = req[h] /\ read'[h] = read[h]
    BY <1>0, <2>1, <2>3 DEF TypeOK, HandlersOK, Others, PCs
  <2>5. Position(pc'[h], req'[h], read'[h], tendered', txn'.claimed)
    BY <2>1, <2>4, Known DEF Position, given
  <2>6. /\ recovered' \in Nat /\ answered' \in SUBSET PayReqs
        /\ UNCHANGED <<given, payments, callbacks, answered>>
    BY <1>0, <2>1 DEF TypeOK, tasks
  <2>7. recorded'[h] <=> req'[h].preq \notin OnFile
    BY <2>3, <2>4
  <2> HIDE DEF new
  <2> QED
    BY <1>0, <2>1, <2>4, <2>5, <2>6, <2>7, QuietKeepsInvariant
<1>11. ASSUME NEW h \in Handlers, InTx(h), NEW l \in {"total", "update"}, pc'[h] = l,
              HandlersOK', Others(h), req'[h] = req[h], recorded'[h] = recorded[h],
              read'[h] \in Row, UNCHANGED <<txn, payments, given, tasks, answered>>
       PROVE  IInv'
  <2>1. Position(pc'[h], req'[h], read'[h], tendered', txn'.claimed)
    BY <1>11, Known DEF Position, InTx, given
  <2>2. /\ recovered' \in Nat /\ answered' \in SUBSET PayReqs
        /\ UNCHANGED <<given, payments, callbacks, answered>>
    BY <1>0, <1>11 DEF TypeOK, tasks
  <2>3. recorded'[h] <=> req'[h].preq \notin OnFile
    BY <1>11 DEF IInv, OneInserts
  <2>4. recorded'[h] => \A g \in Handlers \ {h} : Inserted(g) => req[g].preq # req'[h].preq
    BY <1>11 DEF IInv, OneInserts, Inserted, InTx
  <2> QED
    BY <1>0, <1>11, <2>1, <2>2, <2>3, <2>4, QuietKeepsInvariant
<1>12. ASSUME NEW h \in Handlers, SumInstalments(h) PROVE IInv'
  <2> DEFINE S == OnFile \cup (IF recorded[h] THEN {req[h].preq} ELSE {})
  <2>1. /\ UNCHANGED <<txn, payments, given, tasks, req, read, recorded, answered>>
        /\ pc[h] = "sum" /\ pc' = [pc EXCEPT ![h] = "total"]
        /\ paidAmount' = [paidAmount EXCEPT ![h] = Total(S)]
    BY <1>12 DEF SumInstalments, Goto
  <2>2. Total(S) \in Nat
    <3>1. IsFiniteSet(S)
      BY FS_AddElement DEF IInv
    <3>2. \A p \in S : tendered[p] \in Nat
      <4>1. \A p \in OnFile : tendered[p] \in Amounts
        BY <1>0 DEF TypeOK, OnFile
      <4>2. tendered[req[h].preq] \in Amounts
        BY <2>1, Known DEF Position
      <4> QED
        BY <4>1, <4>2, AmountsAssumption
    <3> HIDE DEF S
    <3> QED
      BY <3>1, <3>2, SumIsSolution DEF Total
  <2> HIDE DEF S
  <2>3. HandlersOK' /\ Others(h) /\ pc'[h] = "total"
    BY <1>0, <2>1, <2>2 DEF TypeOK, HandlersOK, Others, PCs
  <2>4. read'[h] \in Row /\ InTx(h)
    BY <2>1, Known DEF Position, InTx
  <2> QED
    BY <1>11, <2>1, <2>3, <2>4
<1>13. ASSUME NEW h \in Handlers, SelectTotal(h) PROVE IInv'
  <2> DEFINE d == [read[h] EXCEPT !.total = txn.total]
  <2>1. /\ UNCHANGED <<txn, payments, given, tasks, req, tx, answered>>
        /\ pc[h] = "total" /\ Goto(h, "update")
        /\ read' = [read EXCEPT ![h] = d]
    BY <1>13 DEF SelectTotal
  <2>2. read[h] \in Row /\ InTx(h) /\ txn \in Row
    BY <1>0, <2>1, Known DEF Position, InTx, TypeOK
  <2>3. d \in Row
    BY <2>2 DEF Row
  <2> HIDE DEF d
  <2>4. /\ HandlersOK' /\ Others(h) /\ pc'[h] = "update" /\ req'[h] = req[h] /\ read'[h] = d
        /\ recorded'[h] = recorded[h]
    BY <1>0, <2>1, <2>3, GotoMoves DEF PCs
  <2> QED
    BY <1>11, <2>1, <2>2, <2>3, <2>4
<1>14. ASSUME NEW h \in Handlers, MarkExpired(h) \/ CancelVA(h) \/ SaveInquiry(h) \/ Stop(h)
       PROVE  IInv'
  <2>1. RowIsKept
    BY <1>0, <1>14, RowWrites DEF MarkExpired, CancelVA, Stop
  <2> QED
    BY <1>2, <1>14, <2>1 DEF MarkExpired, CancelVA, SaveInquiry, Stop
<1>15. ASSUME NEW h \in Handlers, VendorAnswers(h) PROVE IInv'
  <2>1. UNCHANGED <<txn, payments, given, tasks, answered>> /\ pc[h] = "vendor"
    BY <1>15 DEF VendorAnswers
  <2>2. CASE Respond(h)
    BY <1>0, <1>2, <2>1, <2>2
  <2>3. CASE tendered[Inquired] # None /\ Goto(h, "settle") /\ UNCHANGED <<req, read, tx>>
    <3>1. tendered[Inquired] \in Amounts
      BY <1>0, <2>3, InquiredAssumption DEF TypeOK
    <3>2. Position("settle", req[h], read[h], tendered, txn.claimed)
      BY <2>1, <3>1, Known DEF Position
    <3> QED
      BY <1>0, <1>3, <1>6, <2>1, <2>3, <3>2 DEF PCs
  <2> QED
    BY <1>15, <2>2, <2>3 DEF VendorAnswers
<1>16. ASSUME NEW h \in Handlers, Settle(h) PROVE IInv'
  <2>1. UNCHANGED <<payments, given, tasks, answered>> /\ pc[h] = "settle" /\ RowIsKept
    BY <1>16, RowWrites DEF Settle
  <2>2. CASE Respond(h)
    BY <1>2, <2>1, <2>2
  <2>3. CASE Goto(h, "recovered") /\ UNCHANGED <<req, read, tx>>
    <3>1. Position("recovered", req[h], read[h], tendered, txn.claimed)
      BY <2>1, Known DEF Position
    <3> QED
      BY <1>3, <1>6, <2>1, <2>3, <3>1 DEF PCs
  <2> QED
    BY <1>16, <2>2, <2>3 DEF Settle
<1>17. ASSUME NEW h \in Handlers, NotifyRecovered(h) PROVE IInv'
  <2>1. /\ UNCHANGED <<txn, payments, given, callbacks, answered>> /\ Respond(h)
        /\ recovered' = recovered \/ recovered' = recovered + 1
    BY <1>17 DEF NotifyRecovered
  <2>2. recovered' \in Nat /\ answered' \in SUBSET PayReqs
    BY <1>0, <2>1 DEF TypeOK
  <2> QED
    BY <1>0, <1>1, <2>1, <2>2
<1>18. ASSUME UNCHANGED <<load, payments, tasks, pc, req, read, tx, answered>>,
              RowIsKept, NEW t, tendered' = t, t \in [PayReqs -> Amounts \cup {None}],
              \A p \in PayReqs : tendered[p] # None => t[p] = tendered[p]
       PROVE  IInv'
  <2>1. TypeOK'
    BY <1>0, <1>18, NoneAssumption DEF TypeOK, tasks, tx, RowIsKept
  <2>2. ASSUME NEW g \in Handlers
        PROVE  Position(pc'[g], req'[g], read'[g], tendered', txn'.claimed)
    <3>1. pc'[g] = pc[g] /\ req'[g] = req[g] /\ read'[g] = read[g] /\ txn'.claimed = txn.claimed
      BY <1>18 DEF RowIsKept
    <3>2. \A p \in PayReqs : tendered[p] \in Amounts => t[p] \in Amounts
      BY <1>18, NoneAssumption, AmountsAssumption
    <3> QED
      BY <1>18, <3>1, <3>2, Known, InquiredAssumption DEF Position
  <2>3. OnFile' = OnFile
    BY <1>18 DEF OnFile
  <2>4. OneInserts' /\ OneTells'
    BY <1>18, <2>3 DEF IInv, OneInserts, OneTells, InTx, Inserted, tasks, tx
  <2>5. AnsweredIsOnFile' /\ RowPayment'
    BY <1>18, <2>3, AnswersAreKept DEF IInv, RowPayment, RowIsKept
  <2> QED
    BY <2>1, <2>2, <2>3, <2>4, <2>5 DEF IInv, WellFormed
<1>19. ASSUME NEW p \in PayReqs, NEW m \in Amounts, CustomerPays(p, m) PROVE IInv'
  <2>1. /\ UNCHANGED <<load, txn, payments, tasks, pc, req, read, tx, answered>>
        /\ tendered[p] = None /\ tendered' = [tendered EXCEPT ![p] = m]
    BY <1>19 DEF CustomerPays
  <2>2. /\ tendered' \in [PayReqs -> Amounts \cup {None}]
        /\ \A q \in PayReqs : tendered[q] # None => tendered'[q] = tendered[q]
    BY <1>0, <2>1 DEF TypeOK
  <2> QED
    BY <1>0, <1>18, <2>1, <2>2
<1>20. CASE ExpiredDatePasses \/ UNCHANGED vars
  <2>1. RowIsKept
    BY <1>0, <1>20, RowWrites DEF vars
  <2>2. UNCHANGED <<load, payments, tasks, pc, req, read, tx, answered>> /\ tendered' = tendered
    BY <1>20 DEF ExpiredDatePasses, vars, given
  <2>3. tendered \in [PayReqs -> Amounts \cup {None}]
    BY <1>0 DEF TypeOK
  <2> QED
    BY <1>18, <2>1, <2>2, <2>3
<1> QED
  BY <1>5, <1>7, <1>8, <1>9, <1>10, <1>12, <1>13, <1>14, <1>15, <1>16, <1>17, <1>19, <1>20,
     CommitKeepsInvariant, NotifyKeepsInvariant DEF Next, Step

\* The invariant holds in every state.
LEMMA AlwaysInvariant == Spec => []IInv
BY InitInvariant, Invariance, PTL DEF Spec

-----------------------------------------------------------------------------
(* The ledger                                                              *)

\* Rows, instalments and handlers keep their types under every interleaving, and
\* an instalment is on file with the amount its customer tendered.
THEOREM TypeCorrect == Spec => []TypeOK
<1>1. IInv => TypeOK
  BY DEF IInv
<1> QED
  BY <1>1, AlwaysInvariant, PTL

\* A payment answered as on file is on file, for every number of handlers,
\* payments, failures and interleavings.
THEOREM AnswersAreOnFile == Spec => []AnsweredIsOnFile
<1>1. IInv => AnsweredIsOnFile
  BY DEF IInv
<1> QED
  BY <1>1, AlwaysInvariant, PTL

\* Instalments are written by the commit, callbacks by notifyMerchantWithVA.
LEMMA LedgerWriters ==
    ASSUME [Next]_vars
    PROVE  \/ UNCHANGED <<payments, callbacks>>
           \/ \E h \in Handlers : UpdateAndCommit(h) \/ NotifyPayment(h)
<1>1. ASSUME NEW h \in Handlers, Arrivals(h) PROVE UNCHANGED <<payments, callbacks>>
  BY <1>1 DEF Arrivals, PaymentArrives, InquiryArrives, DeleteArrives, ReconcileArrives,
              CreateArrives, Arrive, tasks
<1>2. ASSUME NEW h \in Handlers,
             \/ CheckExisting(h) \/ Lookup(h) \/ Replay(h) \/ Insert(h) \/ SumInstalments(h)
             \/ SelectTotal(h) \/ MarkExpired(h) \/ CancelVA(h) \/ SaveInquiry(h)
             \/ VendorAnswers(h) \/ Settle(h) \/ NotifyRecovered(h) \/ Stop(h)
      PROVE  UNCHANGED <<payments, callbacks>>
  BY <1>2 DEF CheckExisting, Lookup, Replay, Insert, SumInstalments, SelectTotal, MarkExpired,
              CancelVA, SaveInquiry, VendorAnswers, Settle, NotifyRecovered, Stop, tasks
<1>3. ASSUME NEW p \in PayReqs, NEW m \in Amounts, CustomerPays(p, m)
      PROVE  UNCHANGED <<payments, callbacks>>
  BY <1>3 DEF CustomerPays, tasks
<1>4. CASE ExpiredDatePasses \/ UNCHANGED vars
  BY <1>4 DEF ExpiredDatePasses, vars, tasks
<1> QED
  BY <1>1, <1>2, <1>3, <1>4 DEF Next, Step

\* The variable-bill handlers implement PaymentLedger: the commit that records an
\* instalment is a Credit, its callback a Tell, and every other step, a commit
\* that found the instalment on file included, a stuttering step.
THEOREM Refinement == Spec => ImplementsLedger
<1>1. Init => Ledger!Init
  BY DEF Init, Ledger!Init
<1>2. IInv /\ [Next]_vars => [Ledger!Next]_(Ledger!ledgerVars)
  <2> SUFFICES ASSUME IInv, [Next]_vars
               PROVE  [Ledger!Next]_(Ledger!ledgerVars)
    OBVIOUS
  <2>1. CASE UNCHANGED <<payments, callbacks>>
    BY <2>1 DEF Ledger!ledgerVars
  <2>2. ASSUME NEW h \in Handlers, UpdateAndCommit(h) PROVE [Ledger!Next]_(Ledger!ledgerVars)
    <3> DEFINE p == req[h].preq
    <3>1. p \in PayReqs /\ tendered[p] \in Amounts /\ (p \in OnFile => payments' = payments)
      BY <2>2, CommitWrites
    <3>2. payments' = [payments EXCEPT ![p] = tendered[p]] /\ callbacks' = callbacks
      BY <2>2 DEF UpdateAndCommit, tasks
    <3>3. CASE p \in OnFile
      BY <3>1, <3>2, <3>3 DEF Ledger!ledgerVars
    <3>4. CASE p \notin OnFile
      <4>1. Ledger!Credit(p, tendered[p])
        BY <3>1, <3>2, <3>4 DEF Ledger!Credit, OnFile
      <4> QED
        BY <3>1, <4>1 DEF Ledger!Next
    <3> QED
      BY <3>3, <3>4
  <2>3. ASSUME NEW h \in Handlers, NotifyPayment(h) PROVE [Ledger!Next]_(Ledger!ledgerVars)
    <3> DEFINE p == req[h].preq
    <3>1. p \in PayReqs /\ p \in OnFile /\ callbacks[p] = 0
      BY <2>3, Known DEF NotifyPayment, Position, IInv, OneTells
    <3>2. /\ payments' = payments
          /\ callbacks' = callbacks \/ callbacks' = [callbacks EXCEPT ![p] = @ + 1]
      BY <2>3 DEF NotifyPayment
    <3>3. CASE callbacks' = callbacks
      BY <3>2, <3>3 DEF Ledger!ledgerVars
    <3>4. CASE callbacks' = [callbacks EXCEPT ![p] = @ + 1]
      <4>1. callbacks' = [callbacks EXCEPT ![p] = 1]
        BY <3>1, <3>4
      <4>2. Ledger!Tell(p)
        BY <3>1, <3>2, <4>1 DEF Ledger!Tell, OnFile
      <4> QED
        BY <3>1, <4>2 DEF Ledger!Next
    <3> QED
      BY <3>2, <3>3, <3>4
  <2> QED
    BY <2>1, <2>2, <2>3, LedgerWriters
<1> QED
  BY <1>1, <1>2, AlwaysInvariant, PTL DEF Spec, ImplementsLedger, Ledger!Spec

-----------------------------------------------------------------------------
(* The steps, by what they do to the row and to the handler that takes them *)

\* A request arrives.
Begins(h) ==
    /\ pc[h] = "idle" /\ pc'[h] \in {"existing", "lookup"} /\ txn' = txn
    /\ load.overlap \/ Quiescent
    /\ req'[h].kind \in load.kinds

\* A request ends, with the last statement of MarkExpired, CancelVA or SaveInquiry
\* or without writing the row.
Ends(h) ==
    /\ pc[h] # "idle" /\ pc'[h] = "idle"
    /\ \/ txn' = txn
       \/ txn.status = Pending /\ \E s \in {Expired, Deleted} : txn' = [txn EXCEPT !.status = s]
       \/ /\ pc[h] = "open"
          /\ \E url \in BOOLEAN :
               txn' = [txn EXCEPT !.status = Pending, !.total = req[h].total, !.past = FALSE, !.url = url]

\* The reconciler settles the row.
Settles(h) ==
    /\ pc[h] = "settle" /\ pc'[h] = "recovered" /\ req'[h] = req[h] /\ txn.status = Pending
    /\ txn' = [txn EXCEPT !.status = Success, !.paid = tendered[Inquired], !.preq = Inquired]

\* A request goes on; the row is not written.
GoesOn(h) ==
    /\ pc[h] # "idle" /\ req'[h] = req[h] /\ txn' = txn
    /\ \/ pc[h] = "existing" /\ pc'[h] = "lookup"
       \/ /\ pc[h] = "lookup" /\ pc'[h] \in {"replay", "mark", "cancel", "open", "vendor"}
          /\ read'[h] = txn
       \/ pc[h] = "vendor" /\ pc'[h] = "settle"
       \/ pc[h] = "replay" /\ pc'[h] = "mark"
       \/ /\ pc[h] = "replay" /\ pc'[h] = "insert" /\ read'[h] = read[h]
          /\ req[h].preq \notin OnFile /\ IsPayable(read[h])
          /\ ~Overpays(read[h], tendered[req[h].preq])
       \/ pc[h] = "insert" /\ pc'[h] = "sum" /\ read'[h] = read[h]
       \/ /\ pc[h] = "sum" /\ pc'[h] = "total" /\ read'[h] = read[h]
          /\ paidAmount'[h] = Total(OnFile \cup (IF recorded[h] THEN {req[h].preq} ELSE {}))
       \/ /\ pc[h] = "total" /\ pc'[h] = "update" /\ paidAmount'[h] = paidAmount[h]
          /\ read'[h] = [read[h] EXCEPT !.total = txn.total]

\* The commit of an instalment, and what its handler does next.
Commits(h) == UpdateAndCommit(h) /\ Others(h) /\ pc'[h] \in {"idle", "notify"}

\* Time passes: the handlers and the instalments stay as they are.
Waits ==
    /\ UNCHANGED <<payments, given, pc, req, read, tx>>
    /\ txn' = txn \/ txn' = [txn EXCEPT !.past = TRUE]

\* A handler's step that commits no instalment.
Moves(h) ==
    /\ Others(h) /\ UNCHANGED <<payments, given>>
    /\ Begins(h) \/ Ends(h) \/ Settles(h) \/ GoesOn(h)

\* Every step is one of these.
LEMMA StepKinds ==
    ASSUME IInv, [Next]_vars
    PROVE  \/ \E h \in Handlers : Moves(h) \/ Commits(h)
           \/ \E p \in PayReqs, m \in Amounts : CustomerPays(p, m)
           \/ Waits
<1>0. TypeOK
  BY DEF IInv
<1>1. ASSUME NEW h \in Handlers, Arrivals(h) PROVE Moves(h)
  <2>0. PICK l \in {"existing", "lookup"} : \E r : Arrive(h, r, l)
    BY <1>1 DEF Arrivals, PaymentArrives, InquiryArrives, DeleteArrives, ReconcileArrives,
                CreateArrives
  <2>1. PICK r : Arrive(h, r, l)
    BY <2>0
  <2>2. /\ pc[h] = "idle" /\ pc' = [pc EXCEPT ![h] = l] /\ req' = [req EXCEPT ![h] = r]
        /\ r.kind \in load.kinds /\ (load.overlap \/ Quiescent)
        /\ UNCHANGED <<txn, payments, given, read, recorded, paidAmount>>
    BY <2>1 DEF Arrive, Goto, tx
  <2>3. pc'[h] = l /\ req'[h] = r /\ Others(h)
    BY <1>0, <2>2 DEF TypeOK, Others
  <2> QED
    BY <2>2, <2>3 DEF Moves, Begins
<1>2. ASSUME NEW h \in Handlers, Respond(h), pc[h] # "idle", UNCHANGED <<payments, given>>,
             \/ txn' = txn
             \/ txn.status = Pending /\ \E s \in {Expired, Deleted} : txn' = [txn EXCEPT !.status = s]
             \/ SaveInquiry(h)
      PROVE  Moves(h)
  <2>1. Others(h) /\ pc'[h] = "idle"
    BY <1>0, <1>2, RespondMoves
  <2> QED
    BY <1>2, <2>1 DEF Moves, Ends, SaveInquiry
<1>3. ASSUME NEW h \in Handlers, NEW l \in PCs, Goto(h, l), UNCHANGED <<req, read, tx>>
      PROVE  /\ Others(h) /\ pc'[h] = l /\ req'[h] = req[h] /\ read'[h] = read[h]
             /\ paidAmount'[h] = paidAmount[h]
  BY <1>0, <1>3, GotoMoves DEF TypeOK
<1>4. ASSUME NEW h \in Handlers, CheckExisting(h) PROVE Moves(h)
  <2>1. UNCHANGED <<txn, payments, given>> /\ pc[h] = "existing"
    BY <1>4 DEF CheckExisting
  <2>2. CASE Respond(h)
    BY <1>2, <2>1, <2>2
  <2>3. CASE Goto(h, "lookup") /\ UNCHANGED <<req, read, tx>>
    BY <1>3, <2>1, <2>3 DEF PCs, Moves, GoesOn
  <2> QED
    BY <1>4, <2>2, <2>3 DEF CheckExisting
<1>5. ASSUME NEW h \in Handlers, Lookup(h) PROVE Moves(h)
  <2>1. UNCHANGED <<txn, payments, given>> /\ pc[h] = "lookup"
    BY <1>5 DEF Lookup
  <2>2. CASE Respond(h)
    BY <1>2, <2>1, <2>2
  <2>3. CASE /\ Route(h) # "answer" /\ Goto(h, Route(h)) /\ read' = [read EXCEPT ![h] = txn]
             /\ UNCHANGED <<req, tx>>
    <3> DEFINE l == Route(h)
    <3>1. l \in {"replay", "mark", "cancel", "open", "vendor"}
      BY <2>1, <2>3, Known DEF Route, RequestKinds
    <3>2. txn \in Row \cup {None} /\ Goto(h, l) /\ l \in PCs
      BY <1>0, <2>3, <3>1 DEF TypeOK, PCs
    <3> HIDE DEF l
    <3>3. Others(h) /\ pc'[h] = l /\ req'[h] = req[h] /\ read'[h] = txn
      BY <1>0, <2>3, <3>2, GotoMoves
    <3> QED
      BY <2>1, <3>1, <3>3 DEF Moves, GoesOn
  <2> QED
    BY <1>5, <2>2, <2>3 DEF Lookup
<1>6. ASSUME NEW h \in Handlers, Replay(h) PROVE Moves(h)
  <2> DEFINE p == req[h].preq
  <2>1. UNCHANGED <<txn, payments, given>> /\ pc[h] = "replay"
    BY <1>6 DEF Replay
  <2>2. CASE Respond(h)
    BY <1>2, <2>1, <2>2
  <2>3. CASE Goto(h, "mark") /\ UNCHANGED <<req, read, tx>>
    BY <1>3, <2>1, <2>3 DEF PCs, Moves, GoesOn
  <2>4. CASE /\ Goto(h, "insert") /\ UNCHANGED <<req, read, tx>>
             /\ p \notin OnFile /\ IsPayable(read[h]) /\ ~Overpays(read[h], tendered[p])
    <3>1. Others(h) /\ pc'[h] = "insert" /\ req'[h] = req[h] /\ read'[h] = read[h]
      BY <1>3, <2>4 DEF PCs
    <3> QED
      BY <2>1, <2>4, <3>1 DEF Moves, GoesOn
  <2>5. \/ Respond(h)
        \/ Goto(h, "mark") /\ UNCHANGED <<req, read, tx>>
        \/ /\ Goto(h, "insert") /\ UNCHANGED <<req, read, tx>>
           /\ p \notin OnFile /\ IsPayable(read[h]) /\ ~Overpays(read[h], tendered[p])
    BY <1>6, Zenon DEF Replay
  <2> QED
    BY <2>2, <2>3, <2>4, <2>5
<1>7. ASSUME NEW h \in Handlers, Insert(h) PROVE Moves(h)
  <2>1. /\ UNCHANGED <<txn, payments, given, req, read, paidAmount>> /\ pc[h] = "insert"
        /\ pc' = [pc EXCEPT ![h] = "sum"]
        /\ \E b : recorded' = [recorded EXCEPT ![h] = b]
    BY <1>7 DEF Insert, Goto
  <2>2. Others(h) /\ pc'[h] = "sum"
    BY <1>0, <2>1 DEF TypeOK, Others
  <2> QED
    BY <2>1, <2>2 DEF Moves, GoesOn
<1>8. ASSUME NEW h \in Handlers, SumInstalments(h) PROVE Moves(h)
  <2> DEFINE s == Total(OnFile \cup (IF recorded[h] THEN {req[h].preq} ELSE {}))
  <2>1. /\ UNCHANGED <<txn, payments, given, req, read, recorded>> /\ pc[h] = "sum"
        /\ pc' = [pc EXCEPT ![h] = "total"] /\ paidAmount' = [paidAmount EXCEPT ![h] = s]
    BY <1>8 DEF SumInstalments, Goto
  <2> HIDE DEF s
  <2>2. Others(h) /\ pc'[h] = "total" /\ paidAmount'[h] = s
    BY <1>0, <2>1 DEF TypeOK, Others
  <2> QED
    BY <2>1, <2>2 DEF Moves, GoesOn, s
<1>9. ASSUME NEW h \in Handlers, SelectTotal(h) PROVE Moves(h)
  <2> DEFINE d == [read[h] EXCEPT !.total = txn.total]
  <2>1. /\ UNCHANGED <<txn, payments, given, req, recorded, paidAmount>> /\ pc[h] = "total"
        /\ pc' = [pc EXCEPT ![h] = "update"] /\ read' = [read EXCEPT ![h] = d]
    BY <1>9 DEF SelectTotal, Goto, tx
  <2> HIDE DEF d
  <2>2. Others(h) /\ pc'[h] = "update" /\ read'[h] = d
    BY <1>0, <2>1 DEF TypeOK, Others
  <2> QED
    BY <2>1, <2>2 DEF Moves, GoesOn, d
<1>10. ASSUME NEW h \in Handlers, UpdateAndCommit(h) PROVE Commits(h)
  <2>1. CASE Respond(h)
    BY <1>0, <1>10, <2>1, RespondMoves DEF Commits
  <2>2. CASE Goto(h, "notify") /\ UNCHANGED <<req, read, tx>>
    BY <1>3, <1>10, <2>2 DEF PCs, Commits
  <2> QED
    BY <1>10, <2>1, <2>2 DEF UpdateAndCommit, Recorded
<1>11. ASSUME NEW h \in Handlers,
              \/ MarkExpired(h) \/ CancelVA(h) \/ SaveInquiry(h) \/ Stop(h)
              \/ NotifyPayment(h) \/ NotifyRecovered(h)
       PROVE  Moves(h)
  <2>1. Respond(h) /\ pc[h] # "idle" /\ UNCHANGED <<payments, given>>
    BY <1>11 DEF MarkExpired, CancelVA, SaveInquiry, Stop, NotifyPayment, NotifyRecovered
  <2>2. \/ txn' = txn
        \/ txn.status = Pending /\ \E s \in {Expired, Deleted} : txn' = [txn EXCEPT !.status = s]
        \/ SaveInquiry(h)
    BY <1>11 DEF MarkExpired, CancelVA, SetPending, Stop, NotifyPayment, NotifyRecovered
  <2> QED
    BY <1>2, <2>1, <2>2
<1>12. ASSUME NEW h \in Handlers, VendorAnswers(h) PROVE Moves(h)
  <2>1. UNCHANGED <<txn, payments, given>> /\ pc[h] = "vendor"
    BY <1>12 DEF VendorAnswers
  <2>2. CASE Respond(h)
    BY <1>2, <2>1, <2>2
  <2>3. CASE Goto(h, "settle") /\ UNCHANGED <<req, read, tx>>
    BY <1>3, <2>1, <2>3 DEF PCs, Moves, GoesOn
  <2> QED
    BY <1>12, <2>2, <2>3 DEF VendorAnswers
<1>13. ASSUME NEW h \in Handlers, Settle(h) PROVE Moves(h)
  <2>1. UNCHANGED <<payments, given>> /\ pc[h] = "settle"
    BY <1>13 DEF Settle
  <2>2. CASE Respond(h) /\ UNCHANGED txn
    BY <1>2, <2>1, <2>2
  <2>3. CASE /\ txn' = [txn EXCEPT !.status = Success, !.paid = tendered[Inquired],
                                   !.preq = Inquired]
             /\ txn.status = Pending /\ Goto(h, "recovered") /\ UNCHANGED <<req, read, tx>>
    BY <1>3, <2>1, <2>3 DEF PCs, Moves, Settles
  <2> QED
    BY <1>13, <2>2, <2>3 DEF Settle
<1>14. CASE ExpiredDatePasses \/ UNCHANGED vars
  BY <1>14 DEF ExpiredDatePasses, vars, Waits
<1> QED
  BY <1>1, <1>4, <1>5, <1>6, <1>7, <1>8, <1>9, <1>10, <1>11, <1>12, <1>13, <1>14 DEF Next, Step

-----------------------------------------------------------------------------
(* The row is backed by instalments                                        *)

SumsInv == SumsAreBacked /\ RowIsBacked

\* The amounts of the instalments on file and of those being recorded.
LEMMA AmountsOnFile ==
    ASSUME IInv
    PROVE  /\ \A p \in OnFile : tendered[p] \in Nat /\ tendered[p] # None
           /\ Total(OnFile) \in Nat
           /\ \A h \in Handlers : (pc[h] = "insert" \/ InTx(h))
                => /\ req[h].preq \in PayReqs
                   /\ tendered[req[h].preq] \in Nat \ {0} /\ tendered[req[h].preq] # None
                   /\ IsFiniteSet(OnFile \cup {req[h].preq})
                   /\ Total(OnFile \cup {req[h].preq}) \in Nat
                   /\ Total(OnFile) <= Total(OnFile \cup {req[h].preq})
<1>1. IsFiniteSet(OnFile)
  BY DEF IInv
<1>2. \A p \in OnFile : tendered[p] \in Nat /\ tendered[p] # None
  BY AmountsAssumption, NoneAssumption DEF IInv, TypeOK, OnFile
<1>3. Total(OnFile) \in Nat
  BY <1>1, <1>2, SumIsSolution DEF Total
<1>4. ASSUME NEW h \in Handlers, pc[h] = "insert" \/ InTx(h)
      PROVE  /\ req[h].preq \in PayReqs
             /\ tendered[req[h].preq] \in Nat \ {0} /\ tendered[req[h].preq] # None
             /\ IsFiniteSet(OnFile \cup {req[h].preq})
             /\ Total(OnFile \cup {req[h].preq}) \in Nat
             /\ Total(OnFile) <= Total(OnFile \cup {req[h].preq})
  <2> DEFINE p == req[h].preq
             S == OnFile \cup {p}
  <2>1. p \in PayReqs /\ tendered[p] \in Amounts
    BY <1>4, Known DEF Position, InTx
  <2>2. tendered[p] \in Nat \ {0} /\ tendered[p] # None
    BY <2>1, AmountsAssumption, NoneAssumption
  <2>3. IsFiniteSet(S) /\ OnFile \subseteq S
    BY <1>1, FS_AddElement
  <2>4. \A q \in S : tendered[q] \in Nat
    BY <1>2, <2>2
  <2> HIDE DEF S
  <2>5. Total(S) \in Nat /\ Total(OnFile) <= Total(S)
    BY <2>3, <2>4, SumIsSolution, SumMonotone DEF Total
  <2> QED
    BY <2>1, <2>2, <2>3, <2>5 DEF S
<1> QED
  BY <1>2, <1>3, <1>4

\* The sums do not change while no instalment is committed or tendered.
LEMMA SameSums ==
    ASSUME UNCHANGED <<payments, given>>
    PROVE  OnFile' = OnFile /\ \A s : Total(s)' = Total(s)
BY DEF OnFile, given, Total

\* Nothing has been read or committed at first.
LEMMA InitSums == Init => SumsInv
<1> SUFFICES ASSUME Init PROVE SumsInv
  OBVIOUS
<1>1. OnFile = {} /\ txn.paid = 0 /\ txn.status = Pending /\ \A h \in Handlers : pc[h] = "idle"
  BY DEF Init, OnFile
<1>2. Total(OnFile) = 0
  BY <1>1, SumEmpty DEF Total
<1> QED
  BY <1>1, <1>2 DEF SumsInv, SumsAreBacked, RowIsBacked, Pending, Success

\* A step that commits no instalment keeps the row and the sums read backed.
LEMMA MovesKeepSums ==
    ASSUME IInv, SumsInv, NEW h \in Handlers, Moves(h)
    PROVE  SumsInv'
<1>0. /\ txn \in Row /\ Others(h) /\ OnFile' = OnFile /\ Total(OnFile)' = Total(OnFile)
      /\ \A s : Total(s)' = Total(s)
      /\ Begins(h) \/ Ends(h) \/ Settles(h) \/ GoesOn(h)
  BY SameSums DEF IInv, TypeOK, Moves
<1>1. /\ txn'.claimed = txn.claimed
      /\ txn.claimed => txn'.total = txn.total
      /\ \/ txn'.preq # None
         \/ ~txn.claimed
         \/ /\ txn'.preq = txn.preq /\ txn'.paid = txn.paid
            /\ txn'.status = Success => txn.status = Success
  <2>1. CASE txn' = txn
    BY <2>1
  <2>2. CASE Ends(h)
    <3>1. pc[h] = "open" => ~txn.claimed
      BY Known DEF Position
    <3> QED
      BY <1>0, <2>2, <3>1 DEF Ends, Row, Success, Expired, Deleted
  <2>3. CASE Settles(h)
    BY <1>0, <2>3, InquiredAssumption, NoneAssumption DEF Settles, Row
  <2> QED
    BY <1>0, <2>1, <2>2, <2>3 DEF Begins, GoesOn
<1>2. RowIsBacked'
  BY <1>0, <1>1 DEF SumsInv, RowIsBacked
<1>3. ASSUME NEW g \in Handlers
      PROVE  /\ pc'[g] \in {"total", "update"}
                  => paidAmount'[g] <= Total(OnFile \cup {req'[g].preq})
             /\ (pc'[g] = "update" /\ txn'.claimed) => read'[g].total = txn'.total
  <2>1. CASE g # h
    <3>1. /\ pc'[g] = pc[g] /\ req'[g] = req[g] /\ read'[g] = read[g]
          /\ paidAmount'[g] = paidAmount[g]
      BY <1>0, <2>1 DEF Others
    <3> QED
      BY <1>1, <3>1 DEF SumsInv, SumsAreBacked
  <2>2. CASE g = h /\ pc'[h] = "total"
    <3>1. /\ pc[h] = "sum" /\ req'[h] = req[h] /\ InTx(h)
          /\ paidAmount'[h] = Total(OnFile \cup (IF recorded[h] THEN {req[h].preq} ELSE {}))
      BY <1>0, <2>2 DEF Begins, Ends, Settles, GoesOn, InTx
    <3>2. CASE recorded[h]
      BY <2>2, <3>1, <3>2, AmountsOnFile
    <3>3. CASE ~recorded[h]
      <4>1. OnFile \cup (IF recorded[h] THEN {req[h].preq} ELSE {}) = OnFile
        BY <3>3
      <4> QED
        BY <2>2, <3>1, <4>1, AmountsOnFile
    <3> QED
      BY <3>2, <3>3
  <2>3. CASE g = h /\ pc'[h] = "update"
    <3>1. /\ pc[h] = "total" /\ req'[h] = req[h] /\ paidAmount'[h] = paidAmount[h] /\ txn' = txn
          /\ read'[h] = [read[h] EXCEPT !.total = txn.total]
      BY <1>0, <2>3 DEF Begins, Ends, Settles, GoesOn
    <3>2. read[h] \in Row
      BY <3>1, Known DEF Position
    <3> QED
      BY <2>3, <3>1, <3>2 DEF SumsInv, SumsAreBacked, Row
  <2> QED
    BY <2>1, <2>2, <2>3
<1>4. SumsAreBacked'
  BY <1>0, <1>3 DEF SumsAreBacked
<1> QED
  BY <1>2, <1>4 DEF SumsInv

\* A commit leaves the sum it read backed: by its own instalment and by those on
\* file, however many were committed since.
LEMMA CommitKeepsSums ==
    ASSUME IInv, SumsInv, NEW h \in Handlers, Commits(h)
    PROVE  SumsInv'
<1> DEFINE p == req[h].preq
<1>0. /\ pc[h] = "update" /\ InTx(h) /\ tendered' = tendered /\ Others(h)
      /\ pc'[h] \in {"idle", "notify"}
  BY DEF Commits, UpdateAndCommit, InTx, given
<1>1. /\ OnFile' = OnFile \cup {p} /\ txn'.paid = paidAmount[h] /\ txn'.total = txn.total
      /\ txn'.status = StatusAfter(paidAmount[h], read[h].total) /\ txn'.claimed = txn.claimed
  BY CommitWrites DEF Commits, RowIsKept
<1>2. /\ \A s : Total(s)' = Total(s)
      /\ Total(OnFile)' = Total(OnFile \cup {p})
  BY <1>0, <1>1 DEF Total
<1>3. /\ paidAmount[h] \in Nat /\ txn.total \in Nat /\ Total(OnFile \cup {p}) \in Nat
      /\ paidAmount[h] <= Total(OnFile \cup {p})
      /\ txn.claimed => read[h].total = txn.total
  <2>1. txn.total \in Nat /\ paidAmount[h] \in Nat
    BY AmountsAssumption DEF IInv, TypeOK, Row
  <2> QED
    BY <1>0, <2>1, AmountsOnFile DEF SumsInv, SumsAreBacked
<1>4. RowIsBacked'
  <2> SUFFICES ASSUME txn.claimed
               PROVE  /\ paidAmount[h] <= Total(OnFile \cup {p})
                      /\ txn'.status = Success => Total(OnFile \cup {p}) >= txn.total
    BY <1>1, <1>2 DEF RowIsBacked
  <2>1. txn'.status = Success => paidAmount[h] >= txn.total
    BY <1>1, <1>3 DEF StatusAfter, Success, Pending
  <2> QED
    BY <1>3, <2>1
<1>5. ASSUME NEW g \in Handlers
      PROVE  /\ pc'[g] \in {"total", "update"}
                  => paidAmount'[g] <= Total(OnFile' \cup {req'[g].preq})
             /\ (pc'[g] = "update" /\ txn'.claimed) => read'[g].total = txn'.total
  <2>1. CASE g = h
    BY <1>0, <2>1
  <2>2. CASE g # h
    <3>1. /\ pc'[g] = pc[g] /\ req'[g] = req[g] /\ read'[g] = read[g]
          /\ paidAmount'[g] = paidAmount[g]
      BY <1>0, <2>2 DEF Others
    <3>2. (pc[g] = "update" /\ txn.claimed) => read[g].total = txn.total
      BY DEF SumsInv, SumsAreBacked
    <3>3. ASSUME pc[g] \in {"total", "update"}
          PROVE  paidAmount[g] <= Total(OnFile' \cup {req[g].preq})
      <4> DEFINE S == OnFile \cup {req[g].preq}
                 T == OnFile' \cup {req[g].preq}
      <4>1. S \subseteq T
        BY <1>1
      <4>2. InTx(g)
        BY <3>3 DEF InTx
      <4>3. IsFiniteSet(T) /\ \A q \in T : tendered[q] \in Nat
        <5>1. /\ \A q \in OnFile \cup {p, req[g].preq} : tendered[q] \in Nat
              /\ IsFiniteSet(OnFile \cup {p})
          BY <1>0, <4>2, AmountsOnFile
        <5>2. IsFiniteSet((OnFile \cup {p}) \cup {req[g].preq})
          BY <5>1, FS_AddElement
        <5> QED
          BY <1>1, <5>1, <5>2
      <4>4. paidAmount[g] <= Total(S) /\ paidAmount[g] \in Nat
        BY <3>3 DEF SumsInv, SumsAreBacked, IInv, TypeOK
      <4> HIDE DEF S, T
      <4>5. IsFiniteSet(S) /\ \A q \in S : tendered[q] \in Nat
        BY <4>1, <4>3, FS_Subset
      <4>6. Total(S) <= Total(T) /\ Total(S) \in Nat /\ Total(T) \in Nat
        BY <4>1, <4>3, <4>5, SumMonotone, SumIsSolution DEF Total
      <4>7. paidAmount[g] <= Total(T)
        BY <4>4, <4>6
      <4> QED
        BY <4>7 DEF T
    <3> QED
      BY <1>1, <3>1, <3>2, <3>3
  <2> QED
    BY <2>1, <2>2
<1>6. SumsAreBacked'
  BY <1>2, <1>5 DEF SumsAreBacked
<1> QED
  BY <1>4, <1>6 DEF SumsInv

\* What another customer tenders is in no sum.
LEMMA TenderKeepsSums ==
    ASSUME IInv, NEW p \in PayReqs, NEW m \in Amounts, CustomerPays(p, m)
    PROVE  /\ OnFile' = OnFile /\ Total(OnFile)' = Total(OnFile)
           /\ \A h \in Handlers : (pc[h] = "insert" \/ InTx(h))
                => /\ tendered'[req[h].preq] = tendered[req[h].preq]
                   /\ Total(OnFile \cup {req[h].preq})' = Total(OnFile \cup {req[h].preq})
<1>1. payments' = payments /\ tendered[p] = None /\ tendered' = [tendered EXCEPT ![p] = m]
      /\ req' = req /\ tendered \in [PayReqs -> Amounts \cup {None}]
  BY DEF CustomerPays, IInv, TypeOK
<1>2. OnFile' = OnFile /\ \A q : (tendered[q] # None) => tendered'[q] = tendered[q]
  BY <1>1 DEF OnFile
<1>3. ASSUME NEW S, IsFiniteSet(S), \A q \in S : tendered[q] \in Nat /\ tendered[q] # None
      PROVE  SumOf(tendered', S) = SumOf(tendered, S)
  BY <1>2, <1>3, SumCongruent
<1>4. Total(OnFile)' = Total(OnFile)
  <2>1. SumOf(tendered', OnFile) = SumOf(tendered, OnFile)
    BY <1>3, AmountsOnFile DEF IInv
  <2> QED
    BY <1>2, <2>1 DEF Total
<1>5. ASSUME NEW h \in Handlers, pc[h] = "insert" \/ InTx(h)
      PROVE  /\ tendered'[req[h].preq] = tendered[req[h].preq]
             /\ Total(OnFile \cup {req[h].preq})' = Total(OnFile \cup {req[h].preq})
  <2> DEFINE S == OnFile \cup {req[h].preq}
  <2>1. /\ IsFiniteSet(S) /\ \A q \in S : tendered[q] \in Nat /\ tendered[q] # None
        /\ tendered[req[h].preq] # None
    BY <1>5, AmountsOnFile
  <2>2. SumOf(tendered', S) = SumOf(tendered, S)
    <3> HIDE DEF S
    <3> QED
      BY <1>3, <2>1
  <2> QED
    BY <1>1, <1>2, <2>1, <2>2 DEF Total
<1> QED
  BY <1>2, <1>4, <1>5

\* The row and the sums stay backed.
LEMMA SumsInvariance == IInv /\ SumsInv /\ [Next]_vars => SumsInv'
<1> SUFFICES ASSUME IInv, SumsInv, [Next]_vars PROVE SumsInv'
  OBVIOUS
<1>1. ASSUME NEW p \in PayReqs, NEW m \in Amounts, CustomerPays(p, m) PROVE SumsInv'
  <2>1. UNCHANGED <<txn, pc, req, read, paidAmount>>
    BY <1>1 DEF CustomerPays, tx
  <2>2. /\ OnFile' = OnFile /\ Total(OnFile)' = Total(OnFile)
        /\ \A h \in Handlers : pc[h] \in {"total", "update"}
             => Total(OnFile \cup {req[h].preq})' = Total(OnFile \cup {req[h].preq})
    BY <1>1, TenderKeepsSums DEF InTx
  <2> QED
    BY <2>1, <2>2 DEF SumsInv, SumsAreBacked, RowIsBacked
<1>2. CASE Waits
  <2>1. /\ UNCHANGED <<pc, req, read, paidAmount>> /\ txn \in Row
        /\ OnFile' = OnFile /\ Total(OnFile)' = Total(OnFile) /\ \A s : Total(s)' = Total(s)
    BY <1>2, SameSums DEF Waits, tx, IInv, TypeOK
  <2>2. /\ txn'.claimed = txn.claimed /\ txn'.total = txn.total /\ txn'.preq = txn.preq
        /\ txn'.paid = txn.paid /\ txn'.status = txn.status
    BY <1>2, <2>1 DEF Waits, Row
  <2> QED
    BY <2>1, <2>2 DEF SumsInv, SumsAreBacked, RowIsBacked
<1> QED
  BY <1>1, <1>2, StepKinds, MovesKeepSums, CommitKeepsSums

\* However the instalments interleave and whatever fails, a claimed row that the
\* reconciler did not settle claims no more than its instalments amount to, and
\* is settled only when they reach the total.
THEOREM RowIsCovered == Spec => []RowIsBacked
<1>1. Init => IInv /\ SumsInv
  BY InitInvariant, InitSums
<1>2. IInv /\ SumsInv /\ [Next]_vars => IInv' /\ SumsInv'
  BY Invariance, SumsInvariance
<1>3. SumsInv => RowIsBacked
  BY DEF SumsInv
<1> QED
  BY <1>1, <1>2, <1>3, PTL DEF Spec

-----------------------------------------------------------------------------
(* Requests that follow one another                                        *)

\* At first nothing is served and the bill is open.
LEMMA InitServed == Init => OneServed
BY DEF Init, OneServed, InTx

\* One request is served at a time, and its status is the row's when it records.
LEMMA ServedInvariance == IInv /\ OneServed /\ [Next]_vars => OneServed'
<1> SUFFICES ASSUME IInv, OneServed, [Next]_vars, InTurn' PROVE OneServed'
  BY DEF OneServed
<1> DEFINE Served(l, d, s) == /\ l = "replay" => d.status = s
                              /\ l \in {"insert", "sum", "total", "update"} => s \in {Pending, Success}
<1>0. txn \in Row
  BY DEF IInv, TypeOK
<1>1. ASSUME NEW h \in Handlers, Others(h), InTurn, \A g \in Handlers \ {h} : pc[g] = "idle",
             Served(pc'[h], read'[h], txn'.status)
      PROVE  OneServed'
  <2>1. \A g \in Handlers \ {h} : pc'[g] = "idle"
    BY <1>1 DEF Others
  <2> QED
    BY <1>1, <2>1 DEF OneServed, InTx
<1>2. ASSUME NEW h \in Handlers, pc[h] # "idle", InTurn
      PROVE  /\ \A g \in Handlers \ {h} : pc[g] = "idle"
             /\ Served(pc[h], read[h], txn.status)
  BY <1>2 DEF OneServed, InTx
<1>3. ASSUME NEW h \in Handlers, Moves(h) PROVE OneServed'
  <2>1. InTurn /\ Others(h)
    BY <1>3 DEF Moves, given, InTurn
  <2>2. CASE Begins(h)
    <3>1. \A g \in Handlers : pc[g] = "idle"
      BY <2>1, <2>2 DEF Begins, InTurn, Quiescent
    <3>2. Served(pc'[h], read'[h], txn'.status)
      BY <2>2 DEF Begins
    <3> HIDE DEF Served
    <3> QED
      BY <1>1, <2>1, <3>1, <3>2
  <2>3. CASE Ends(h) \/ Settles(h)
    <3>1. pc[h] # "idle" /\ pc'[h] \in {"idle", "recovered"}
      BY <2>3 DEF Ends, Settles
    <3>2. Served(pc'[h], read'[h], txn'.status)
      BY <3>1
    <3> HIDE DEF Served
    <3> QED
      BY <1>1, <1>2, <2>1, <3>1, <3>2
  <2>4. CASE GoesOn(h)
    <3>1. pc[h] # "idle" /\ txn' = txn
      BY <2>4 DEF GoesOn
    <3>2. Served(pc[h], read[h], txn.status)
      BY <1>2, <2>1, <3>1
    <3>3. Served(pc'[h], read'[h], txn'.status)
      <4>1. CASE pc'[h] = "insert"
        <5>1. pc[h] = "replay" /\ IsPayable(read[h])
          BY <2>4, <4>1 DEF GoesOn
        <5> QED
          BY <3>1, <3>2, <4>1, <5>1 DEF IsPayable
      <4>2. CASE pc'[h] = "replay"
        BY <2>4, <4>2 DEF GoesOn
      <4>3. CASE pc'[h] \in {"sum", "total", "update"}
        BY <2>4, <3>1, <3>2, <4>3 DEF GoesOn
      <4> QED
        BY <4>1, <4>2, <4>3
    <3> HIDE DEF Served
    <3> QED
      BY <1>1, <1>2, <2>1, <3>1, <3>3
  <2> QED
    BY <1>3, <2>2, <2>3, <2>4 DEF Moves
<1>4. ASSUME NEW h \in Handlers, Commits(h) PROVE OneServed'
  <2>1. InTurn /\ Others(h) /\ pc[h] # "idle" /\ pc'[h] \in {"idle", "notify"}
    BY <1>4 DEF Commits, UpdateAndCommit, given, InTurn
  <2>2. Served(pc'[h], read'[h], txn'.status)
    BY <2>1
  <2> HIDE DEF Served
  <2> QED
    BY <1>1, <1>2, <2>1, <2>2
<1>5. ASSUME UNCHANGED <<load, pc, read>>, txn'.status = txn.status PROVE OneServed'
  BY <1>5 DEF OneServed, InTurn, InTx
<1>6. ASSUME NEW p \in PayReqs, NEW m \in Amounts, CustomerPays(p, m) PROVE OneServed'
  BY <1>5, <1>6 DEF CustomerPays
<1>7. CASE Waits
  <2>1. UNCHANGED <<load, pc, read>> /\ txn'.status = txn.status
    BY <1>0, <1>7 DEF Waits, given, Row
  <2> QED
    BY <1>5, <2>1
<1> QED
  BY <1>3, <1>4, <1>6, <1>7, StepKinds

\* No sequence of requests that do not overlap reopens an expired or deleted
\* bill, whatever fails between two statements and whatever comes next.
THEOREM ClosedStays == Spec => ClosedStaysClosedInTurn
<1>1. Init => IInv /\ OneServed
  BY InitInvariant, InitServed
<1>2. IInv /\ OneServed /\ [Next]_vars => IInv' /\ OneServed'
  BY Invariance, ServedInvariance
<1>3. IInv /\ OneServed /\ [Next]_vars
        => [InTurn /\ txn.status \in {Expired, Deleted} /\ txn.claimed
              => txn'.status = txn.status]_vars
  <2> SUFFICES ASSUME IInv, OneServed, [Next]_vars, InTurn,
                      txn.status \in {Expired, Deleted}, txn.claimed
               PROVE  txn'.status = txn.status
    OBVIOUS
  <2>0. txn \in Row /\ txn.status \notin {Pending, Success}
    BY DEF IInv, TypeOK, Expired, Deleted, Pending, Success
  <2>1. ASSUME NEW h \in Handlers, Moves(h) PROVE txn'.status = txn.status
    <3>1. pc[h] # "open"
      BY Known DEF Position
    <3> QED
      BY <2>0, <2>1, <3>1 DEF Moves, Begins, Ends, Settles, GoesOn
  <2>2. ASSUME NEW h \in Handlers, Commits(h) PROVE FALSE
    <3>1. InTx(h)
      BY <2>2 DEF Commits, UpdateAndCommit, InTx
    <3> QED
      BY <2>0, <3>1 DEF OneServed
  <2>3. ASSUME NEW p \in PayReqs, NEW m \in Amounts, CustomerPays(p, m)
        PROVE  txn'.status = txn.status
    BY <2>3 DEF CustomerPays
  <2>4. CASE Waits
    BY <2>0, <2>4 DEF Waits, Row
  <2> QED
    BY <2>1, <2>2, <2>3, <2>4, StepKinds
<1> QED
  BY <1>1, <1>2, <1>3, PTL DEF Spec, ClosedStaysClosedInTurn

-----------------------------------------------------------------------------
(* The tally of inquiries, payments and deletions that follow one another  *)

\* What a handler at l with request q and record d, which read the sum a, knows of
\* the row r, of the instalments on file and of the amounts tendered.
InStep(l, q, d, a, r, file, tender) ==
    /\ l # "idle" => q.kind \in {"inquiry", "payment", "delete"}
    /\ l \in {"replay", "insert", "sum", "total", "update"} => d.paid = r.paid /\ d.total = r.total
    /\ l \in {"insert", "sum", "total", "update"}
         => q.preq \notin file /\ r.paid + tender[q.preq] <= r.total
    /\ l \in {"total", "update"} => a = SumOf(tender, file \cup {q.preq})

\* The row alone.
Tallies(r, sum) ==
    /\ r.paid = sum /\ r.paid <= r.total
    /\ r.status = Pending => r.paid < r.total

\* The tally is what the row says and what each handler knows, before and after.
LEMMA TallyParts ==
    /\ TallyInTurn <=>
         (InTurn => /\ Tallies(txn, Total(OnFile))
                    /\ \A h \in Handlers :
                         InStep(pc[h], req[h], read[h], paidAmount[h], txn, OnFile, tendered))
    /\ TallyInTurn' <=>
         (InTurn' => /\ Tallies(txn', Total(OnFile)')
                     /\ \A h \in Handlers :
                          InStep(pc'[h], req'[h], read'[h], paidAmount'[h], txn', OnFile', tendered'))
<1>1. \A h : (pc[h] = "insert" \/ InTx(h)) <=> pc[h] \in {"insert", "sum", "total", "update"}
  BY DEF InTx
<1>2. \A h : (pc'[h] = "insert" \/ InTx(h)') <=> pc'[h] \in {"insert", "sum", "total", "update"}
  BY DEF InTx
<1>3. \A s : Total(s) = SumOf(tendered, s) /\ Total(s)' = SumOf(tendered', s)
  BY DEF Total
<1>4. TallyInTurn <=>
         (InTurn => /\ Tallies(txn, Total(OnFile))
                    /\ \A h \in Handlers :
                         InStep(pc[h], req[h], read[h], paidAmount[h], txn, OnFile, tendered))
  BY <1>1, <1>3, Zenon DEF TallyInTurn, Tallies, InStep
<1>5. TallyInTurn' <=>
         (InTurn' => /\ Tallies(txn', Total(OnFile)')
                     /\ \A h \in Handlers :
                          InStep(pc'[h], req'[h], read'[h], paidAmount'[h], txn', OnFile', tendered'))
  BY <1>2, <1>3, Zenon DEF TallyInTurn, Tallies, InStep
<1> QED
  BY <1>4, <1>5

\* At first nothing is paid.
LEMMA InitTally == Init => TallyInTurn
<1> SUFFICES ASSUME Init PROVE TallyInTurn
  OBVIOUS
<1>1. OnFile = {} /\ txn.paid = 0 /\ \A h \in Handlers : pc[h] = "idle"
  BY DEF Init, OnFile
<1>2. Total(OnFile) = 0
  BY <1>1, SumEmpty DEF Total
<1>3. txn.total \in Nat \ {0}
  BY InitInvariant, AmountsAssumption DEF IInv, TypeOK, Row
<1> QED
  BY <1>1, <1>2, <1>3 DEF TallyInTurn, InTx

\* A step that commits no instalment keeps the tally.
LEMMA MovesKeepTally ==
    ASSUME InTurnLoads, IInv, OneServed, TallyInTurn, NEW h \in Handlers, Moves(h)
    PROVE  TallyInTurn'
<1> SUFFICES ASSUME InTurn' PROVE TallyInTurn'
  BY DEF TallyInTurn
<1>0. /\ txn \in Row /\ Others(h) /\ OnFile' = OnFile /\ Total(OnFile)' = Total(OnFile)
      /\ tendered' = tendered /\ InTurn /\ load \in Loads
      /\ Begins(h) \/ Ends(h) \/ Settles(h) \/ GoesOn(h)
  BY SameSums DEF IInv, TypeOK, Moves, given, InTurn
<1>1. /\ Tallies(txn, Total(OnFile))
      /\ \A g \in Handlers : InStep(pc[g], req[g], read[g], paidAmount[g], txn, OnFile, tendered)
  BY <1>0, TallyParts
<1>2. \A g \in Handlers \ {h} : pc'[g] = "idle"
  <2>1. \A g \in Handlers \ {h} : pc[g] = "idle"
    BY <1>0 DEF Begins, Ends, Settles, GoesOn, OneServed, InTurn, Quiescent
  <2> QED
    BY <1>0, <2>1 DEF Others
<1>3. ASSUME Tallies(txn', Total(OnFile)),
             InStep(pc'[h], req'[h], read'[h], paidAmount'[h], txn', OnFile, tendered)
      PROVE  TallyInTurn'
  <2>1. \A g \in Handlers : InStep(pc'[g], req'[g], read'[g], paidAmount'[g], txn', OnFile, tendered)
    BY <1>2, <1>3 DEF InStep
  <2> QED
    BY <1>0, <1>3, <2>1, TallyParts
<1>4. CASE Begins(h)
  <2>1. req'[h].kind \in {"inquiry", "payment", "delete"}
    BY <1>0, <1>4 DEF Begins, InTurnLoads, InTurn
  <2>2. InStep(pc'[h], req'[h], read'[h], paidAmount'[h], txn', OnFile, tendered)
    BY <1>4, <2>1 DEF Begins, InStep
  <2> QED
    BY <1>1, <1>3, <1>4, <2>2 DEF Begins
<1>5. CASE Ends(h)
  <2>1. pc[h] # "open"
    BY <1>1, Known DEF InStep
  <2>2. Tallies(txn', Total(OnFile))
    BY <1>0, <1>1, <1>5, <2>1 DEF Ends, Tallies, Row, Expired, Deleted, Pending
  <2>3. InStep(pc'[h], req'[h], read'[h], paidAmount'[h], txn', OnFile, tendered)
    BY <1>5 DEF Ends, InStep
  <2> QED
    BY <1>3, <2>2, <2>3
<1>6. CASE Settles(h)
  <2>1. req[h].kind = "reconcile"
    BY <1>6, Known DEF Settles, Position
  <2> QED
    BY <1>1, <1>6, <2>1 DEF Settles, InStep
<1>7. CASE GoesOn(h)
  <2> DEFINE p == req[h].preq
  <2>0. /\ txn' = txn /\ req'[h] = req[h] /\ pc[h] # "idle"
        /\ InStep(pc[h], req[h], read[h], paidAmount[h], txn, OnFile, tendered)
    BY <1>1, <1>7 DEF GoesOn
  <2> SUFFICES InStep(pc'[h], req'[h], read'[h], paidAmount'[h], txn, OnFile, tendered)
    BY <1>1, <1>3, <2>0
  <2>1. CASE pc'[h] \in {"lookup", "mark", "cancel", "open", "vendor", "settle"}
    BY <2>0, <2>1 DEF InStep
  <2>2. CASE pc'[h] = "replay"
    <3>1. read'[h] = txn
      BY <1>7, <2>2 DEF GoesOn
    <3> QED
      BY <2>0, <2>2, <3>1 DEF InStep
  <2>3. CASE pc'[h] = "insert"
    <3>1. /\ pc[h] = "replay" /\ read'[h] = read[h] /\ p \notin OnFile
          /\ ~Overpays(read[h], tendered[p])
      BY <1>7, <2>3 DEF GoesOn
    <3>2. read[h].paid = txn.paid /\ read[h].total = txn.total
      BY <2>0, <3>1 DEF InStep
    <3>3. txn.paid \in Nat /\ txn.total \in Nat /\ tendered[p] \in Nat
      BY <1>0, <3>1, Known, AmountsAssumption DEF Position, Row
    <3>4. txn.paid + tendered[p] <= txn.total
      BY <3>1, <3>2, <3>3 DEF Overpays
    <3> QED
      BY <2>0, <2>3, <3>1, <3>2, <3>4 DEF InStep
  <2>4. CASE pc'[h] = "sum"
    <3>1. pc[h] = "insert" /\ read'[h] = read[h]
      BY <1>7, <2>4 DEF GoesOn
    <3> QED
      BY <2>0, <2>4, <3>1 DEF InStep
  <2>5. CASE pc'[h] = "total"
    <3>1. /\ pc[h] = "sum" /\ read'[h] = read[h]
          /\ paidAmount'[h] = Total(OnFile \cup (IF recorded[h] THEN {p} ELSE {}))
      BY <1>7, <2>5 DEF GoesOn
    <3>2. p \notin OnFile /\ recorded[h]
      BY <2>0, <3>1 DEF InStep, IInv, OneInserts, InTx
    <3>3. paidAmount'[h] = SumOf(tendered, OnFile \cup {p})
      BY <3>1, <3>2 DEF Total
    <3> QED
      BY <2>0, <2>5, <3>1, <3>3 DEF InStep
  <2>6. CASE pc'[h] = "update"
    <3>1. /\ pc[h] = "total" /\ paidAmount'[h] = paidAmount[h] /\ read[h] \in Row
          /\ read'[h] = [read[h] EXCEPT !.total = txn.total]
      BY <1>7, <2>6, Known DEF GoesOn, Position
    <3>2. read'[h].paid = read[h].paid /\ read'[h].total = txn.total
      BY <3>1 DEF Row
    <3> QED
      BY <2>0, <2>6, <3>1, <3>2 DEF InStep
  <2> QED
    BY <1>7, <2>1, <2>2, <2>3, <2>4, <2>5, <2>6 DEF GoesOn
<1> QED
  BY <1>0, <1>4, <1>5, <1>6, <1>7

\* The commit adds its instalment to the tally, within what the bill still owes.
LEMMA CommitKeepsTally ==
    ASSUME IInv, OneServed, TallyInTurn, NEW h \in Handlers, Commits(h)
    PROVE  TallyInTurn'
<1> SUFFICES ASSUME InTurn' PROVE TallyInTurn'
  BY DEF TallyInTurn
<1> DEFINE p == req[h].preq
<1>0. /\ InTurn /\ pc[h] = "update" /\ InTx(h) /\ tendered' = tendered /\ Others(h)
      /\ pc'[h] \in {"idle", "notify"}
  BY DEF Commits, UpdateAndCommit, InTx, given, InTurn
<1>1. /\ OnFile' = OnFile \cup {p} /\ txn'.paid = paidAmount[h] /\ txn'.total = txn.total
      /\ txn'.status = StatusAfter(paidAmount[h], read[h].total)
  BY CommitWrites DEF Commits
<1>2. /\ txn.paid = Total(OnFile) /\ read[h].total = txn.total /\ p \notin OnFile
      /\ txn.paid + tendered[p] <= txn.total /\ paidAmount[h] = Total(OnFile \cup {p})
  BY <1>0 DEF TallyInTurn
<1>3. /\ Total(OnFile)' = Total(OnFile \cup {p})
      /\ Total(OnFile \cup {p}) = Total(OnFile) + tendered[p]
  <2>1. IsFiniteSet(OnFile) /\ \A q \in OnFile \cup {p} : tendered[q] \in Nat
    BY <1>0, AmountsOnFile DEF IInv
  <2>2. SumOf(tendered, OnFile \cup {p}) = SumOf(tendered, OnFile) + tendered[p]
    <3> HIDE DEF p
    <3> QED
      BY <1>2, <2>1, SumAdd
  <2> QED
    BY <1>0, <1>1, <2>2 DEF Total
<1>4. txn.total \in Nat /\ paidAmount[h] \in Nat
  BY AmountsAssumption DEF IInv, TypeOK, Row
<1>5. Tallies(txn', Total(OnFile)')
  BY <1>1, <1>2, <1>3, <1>4 DEF Tallies, StatusAfter, Pending, Success
<1>6. ASSUME NEW g \in Handlers
      PROVE  InStep(pc'[g], req'[g], read'[g], paidAmount'[g], txn', OnFile', tendered')
  <2>1. g # h => pc'[g] = "idle"
    BY <1>0 DEF Others, OneServed
  <2>2. pc'[g] = "notify" => req'[g].kind = "payment"
    BY CommitKeepsInvariant DEF Commits, IInv, WellFormed, Position
  <2> QED
    BY <1>0, <2>1, <2>2 DEF InStep
<1> QED
  BY <1>5, <1>6, TallyParts

\* The tally is kept.
LEMMA TallyInvariance ==
    InTurnLoads /\ IInv /\ OneServed /\ TallyInTurn /\ [Next]_vars => TallyInTurn'
<1> SUFFICES ASSUME InTurnLoads, IInv, OneServed, TallyInTurn, [Next]_vars PROVE TallyInTurn'
  OBVIOUS
<1>1. ASSUME NEW p \in PayReqs, NEW m \in Amounts, CustomerPays(p, m) PROVE TallyInTurn'
  <2>1. UNCHANGED <<load, txn, pc, req, read, paidAmount>>
    BY <1>1 DEF CustomerPays, tx
  <2>2. /\ OnFile' = OnFile /\ Total(OnFile)' = Total(OnFile)
        /\ \A h \in Handlers : (pc[h] = "insert" \/ InTx(h))
             => /\ tendered'[req[h].preq] = tendered[req[h].preq]
                /\ Total(OnFile \cup {req[h].preq})' = Total(OnFile \cup {req[h].preq})
    BY <1>1, TenderKeepsSums
  <2> QED
    BY <2>1, <2>2 DEF TallyInTurn, InTurn, InTx
<1>2. CASE Waits
  <2>1. /\ UNCHANGED <<load, pc, req, read, paidAmount, tendered>> /\ txn \in Row
        /\ OnFile' = OnFile /\ Total(OnFile)' = Total(OnFile) /\ \A s : Total(s)' = Total(s)
    BY <1>2, SameSums DEF Waits, tx, given, IInv, TypeOK
  <2>2. txn'.total = txn.total /\ txn'.paid = txn.paid /\ txn'.status = txn.status
    BY <1>2, <2>1 DEF Waits, Row
  <2> QED
    BY <2>1, <2>2 DEF TallyInTurn, InTurn, InTx
<1> QED
  BY <1>1, <1>2, StepKinds, MovesKeepTally, CommitKeepsTally

\* Inquiries, payments and deletions that follow one another keep the tally.
LEMMA AlwaysTally == ASSUME InTurnLoads PROVE Spec => []TallyInTurn
<1>1. Init => IInv /\ OneServed /\ TallyInTurn
  BY InitInvariant, InitServed, InitTally
<1>2. IInv /\ OneServed /\ TallyInTurn /\ [Next]_vars => IInv' /\ OneServed' /\ TallyInTurn'
  BY Invariance, ServedInvariance, TallyInvariance
<1> QED
  BY <1>1, <1>2, PTL DEF Spec

\* Where the requests that do not overlap are inquiries, payments and deletions,
\* instalments that follow one another never add up to more than the bill, also
\* when a request stops anywhere and is sent again.
THEOREM CeilingInTurn == ASSUME InTurnLoads PROVE Spec => []UpToTheBillInTurn
<1>1. TallyInTurn => UpToTheBillInTurn
  BY DEF TallyInTurn, UpToTheBillInTurn, UpToTheBill
<1> QED
  BY <1>1, AlwaysTally, PTL

\* paid_amount is the sum of the instalments on file after every such sequence.
THEOREM SumInTurn == ASSUME InTurnLoads PROVE Spec => []PaidIsTheSumInTurn
<1>1. TallyInTurn => PaidIsTheSumInTurn
  BY DEF TallyInTurn, PaidIsTheSumInTurn, PaidIsTheSum
<1> QED
  BY <1>1, AlwaysTally, PTL

\* Nor do they leave a bill pending that is paid in full: the last instalment
\* settles it, whichever request lands it.
THEOREM SettledInTurn == ASSUME InTurnLoads PROVE Spec => []PaidInFullIsSettledInTurn
<1>1. IInv /\ TallyInTurn => PaidInFullIsSettledInTurn
  <2> SUFFICES ASSUME IInv, TallyInTurn, InTurn, Total(OnFile) >= txn.total
               PROVE  txn.status # Pending
    BY DEF PaidInFullIsSettledInTurn, PaidInFullIsSettled
  <2>1. txn.paid \in Nat /\ txn.total \in Nat
    BY AmountsAssumption DEF IInv, TypeOK, Row
  <2> QED
    BY <2>1 DEF TallyInTurn
<1> QED
  BY <1>1, AlwaysInvariant, AlwaysTally, PTL
=============================================================================

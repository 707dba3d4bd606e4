---------------------------- MODULE QuotasProofs ----------------------------
(***************************************************************************)
(* Theorems about Quotas, for every list of quotas, number of things,      *)
(* windows and plans: the books balance and nobody gets past a quota.      *)
(***************************************************************************)
EXTENDS Quotas, FiniteSetTheorems, TLAPS

(***************************************************************************)
(* The inductive invariant                                                 *)
(***************************************************************************)
\* An id stands for one quota, of the list as it was last saved.
ListNow ==
    /\ \A e \in list : e.id[1] = edits
    /\ \A e, f \in list : e.id = f.id => e = f

\* Nothing is counted yet for a list that is still to be saved.
Known ==
    /\ \A r \in usage : r.id[1] <= edits
    /\ \A x \in Things : \A h \in Hits(x) : h.id[1] <= edits

\* What a report takes off by a time is what was charged then.
Exact ==
    \A x \in Things : thing[x] # None =>
        /\ thing[x].at \in {"pending", "dropped"} => thing[x].kind \in Stamped /\ thing[x].hits = HitsAt(x, thing[x].stamp)
        /\ thing[x].kind \in Stamped => thing[x].kind \in plan.kinds
        /\ thing[x].kind \in Stamped /\ thing[x].at = "charged" => thing[x].hits = HitsAt(x, now)

\* The books, and the limits, of every window there may be.
Balanced == \A e \in list, k \in Keys, b \in Nat : Count(usage, <<e.id, k, b>>) = Owed(<<e.id, k, b>>)
Within == ~plan.needAll => \A e \in list, k \in Keys, b \in Nat : Owed(<<e.id, k, b>>) <= e.q.max

IInv == TypeOK /\ ListNow /\ Known /\ Exact /\ Balanced /\ Within

(***************************************************************************)
(* Rows                                                                    *)
(***************************************************************************)
LEMMA CountType ==
    ASSUME NEW rows, rows \subseteq Row, NEW cell
    PROVE  Count(rows, cell) \in Nat
<1>1. CASE \E r \in rows : Cell(r) = cell
  <2> DEFINE c == CHOOSE r \in rows : Cell(r) = cell
  <2>1. \E r \in rows : Cell(r) = cell
    BY <1>1
  <2>2. c \in rows /\ Cell(c) = cell
    BY <2>1
  <2> HIDE DEF c
  <2>3. c.count \in Nat
    BY <2>2 DEF Row
  <2> QED
    BY <1>1, <2>3 DEF Count, c
<1>2. CASE ~\E r \in rows : Cell(r) = cell
  BY <1>2 DEF Count
<1> QED
  BY <1>1, <1>2

LEMMA CountIs ==
    ASSUME NEW rows, OnePerCell(rows), NEW r \in rows
    PROVE  Count(rows, Cell(r)) = r.count
<1> DEFINE c == CHOOSE s \in rows : Cell(s) = Cell(r)
<1>1. c \in rows /\ Cell(c) = Cell(r)
  OBVIOUS
<1>2. c = r
  BY <1>1 DEF OnePerCell
<1> QED
  BY <1>2 DEF Count

LEMMA CountNone ==
    ASSUME NEW rows, NEW cell, \A r \in rows : Cell(r) # cell
    PROVE  Count(rows, cell) = 0
  BY DEF Count

LEMMA SetCount ==
    ASSUME NEW r \in Row, NEW c \in Nat, NEW p, p = [r EXCEPT !.count = c]
    PROVE  p \in Row /\ Cell(p) = Cell(r) /\ p.count = c /\ p.id = r.id
  BY DEF Row, Cell

\* Rows that are the cells of others, each with what a function of its cell says, count just that.
LEMMA RowsOf ==
    ASSUME NEW from, from \subseteq Row, NEW rows, NEW n,
           \A p \in rows : \E r \in from : p = [r EXCEPT !.count = n[Cell(r)]],
           \A r \in from : [r EXCEPT !.count = n[Cell(r)]] \in rows,
           \A r \in from : n[Cell(r)] \in Nat
    PROVE  /\ rows \subseteq Row /\ OnePerCell(rows)
           /\ \A r \in from : Count(rows, Cell(r)) = n[Cell(r)]
           /\ \A cell : (\A r \in from : Cell(r) # cell) => Count(rows, cell) = 0
           /\ \A p \in rows : \E r \in from : p.id = r.id
<1>1. \A r \in from : LET p == [r EXCEPT !.count = n[Cell(r)]]
                      IN  Cell(p) = Cell(r) /\ p.count = n[Cell(r)]
  BY SetCount
<1>2. \A p \in rows : \E r \in from : p \in Row /\ Cell(p) = Cell(r) /\ p.count = n[Cell(p)] /\ p.id = r.id
  <2> SUFFICES ASSUME NEW p \in rows
               PROVE  \E r \in from : p \in Row /\ Cell(p) = Cell(r) /\ p.count = n[Cell(p)] /\ p.id = r.id
    OBVIOUS
  <2>1. PICK r \in from : p = [r EXCEPT !.count = n[Cell(r)]]
    OBVIOUS
  <2>2. p \in Row /\ Cell(p) = Cell(r) /\ p.count = n[Cell(r)] /\ p.id = r.id
    BY <2>1, SetCount
  <2> QED
    BY <2>2
<1>3. rows \subseteq Row
  BY <1>2
<1>4. ASSUME NEW p \in rows, NEW q \in rows, Cell(p) = Cell(q) PROVE p = q
  <2>1. p.count = q.count
    BY <1>2, <1>4
  <2>2. p \in Row /\ q \in Row
    BY <1>3
  <2> QED
    BY <1>4, <2>1, <2>2 DEF Row, Cell
<1>5. OnePerCell(rows)
  BY <1>4 DEF OnePerCell
<1>6. ASSUME NEW r \in from PROVE Count(rows, Cell(r)) = n[Cell(r)]
  <2> DEFINE p == [r EXCEPT !.count = n[Cell(r)]]
  <2>1. p \in rows /\ Cell(p) = Cell(r) /\ p.count = n[Cell(r)]
    BY <1>1
  <2> HIDE DEF p
  <2> QED
    BY <1>5, <2>1, CountIs
<1>7. ASSUME NEW cell, \A r \in from : Cell(r) # cell PROVE Count(rows, cell) = 0
  <2>1. \A p \in rows : Cell(p) # cell
    BY <1>2, <1>7
  <2> QED
    BY <2>1, CountNone
<1> QED
  BY <1>2, <1>3, <1>5, <1>6, <1>7

\* Adding hits adds what they count, cell by cell, and taking them off takes that off, down to nothing.
LEMMA PlusCounts ==
    ASSUME usage \subseteq Row, OnePerCell(usage), NEW hits, hits \subseteq Row, OnePerCell(hits)
    PROVE  /\ Plus(hits) \subseteq Row /\ OnePerCell(Plus(hits))
           /\ \A cell : Count(Plus(hits), cell) = Count(usage, cell) + Count(hits, cell)
           /\ \A p \in Plus(hits) : \E r \in usage \cup hits : p.id = r.id
<1> DEFINE from == usage \cup hits
           n == [cell \in {Cell(r) : r \in from} |-> Count(usage, cell) + Count(hits, cell)]
<1>1. from \subseteq Row
  OBVIOUS
<1>2. \A r \in from : n[Cell(r)] = Count(usage, Cell(r)) + Count(hits, Cell(r))
  OBVIOUS
<1>3. \A r \in from : n[Cell(r)] \in Nat
  BY <1>2, CountType
<1> HIDE DEF n
<1>4. \A p \in Plus(hits) : \E r \in from : p = [r EXCEPT !.count = n[Cell(r)]]
  BY <1>2 DEF Plus
<1>5. \A r \in from : [r EXCEPT !.count = n[Cell(r)]] \in Plus(hits)
  BY <1>2 DEF Plus
<1> HIDE DEF from
<1>6. /\ Plus(hits) \subseteq Row /\ OnePerCell(Plus(hits))
      /\ \A r \in from : Count(Plus(hits), Cell(r)) = n[Cell(r)]
      /\ \A cell : (\A r \in from : Cell(r) # cell) => Count(Plus(hits), cell) = 0
      /\ \A p \in Plus(hits) : \E r \in from : p.id = r.id
  BY <1>1, <1>3, <1>4, <1>5, RowsOf
<1>7. ASSUME NEW cell PROVE Count(Plus(hits), cell) = Count(usage, cell) + Count(hits, cell)
  <2>1. CASE \E r \in from : Cell(r) = cell
    BY <1>2, <1>6, <2>1
  <2>2. CASE \A r \in from : Cell(r) # cell
    <3>1. Count(usage, cell) = 0 /\ Count(hits, cell) = 0
      BY <2>2, CountNone DEF from
    <3> QED
      BY <1>6, <2>2, <3>1
  <2> QED
    BY <2>1, <2>2
<1> QED
  BY <1>6, <1>7 DEF from

LEMMA MinusCounts ==
    ASSUME usage \subseteq Row, OnePerCell(usage), NEW hits, hits \subseteq Row
    PROVE  /\ Minus(hits) \subseteq Row /\ OnePerCell(Minus(hits))
           /\ \A cell : Count(Minus(hits), cell) = Less(Count(usage, cell), Count(hits, cell))
           /\ \A p \in Minus(hits) : \E r \in usage : p.id = r.id
<1> DEFINE n == [cell \in {Cell(r) : r \in usage} |-> Less(Count(usage, cell), Count(hits, cell))]
<1>1. \A r \in usage : n[Cell(r)] = Less(Count(usage, Cell(r)), Count(hits, Cell(r)))
  OBVIOUS
<1>2. \A cell : Less(Count(usage, cell), Count(hits, cell)) \in Nat
  BY CountType DEF Less
<1>3. \A r \in usage : n[Cell(r)] \in Nat
  BY <1>1, <1>2
<1> HIDE DEF n
<1>4. \A r \in usage : [r EXCEPT !.count = n[Cell(r)]] = [r EXCEPT !.count = Less(@, Count(hits, Cell(r)))]
  <2> SUFFICES ASSUME NEW r \in usage
               PROVE  [r EXCEPT !.count = n[Cell(r)]] = [r EXCEPT !.count = Less(r.count, Count(hits, Cell(r)))]
    OBVIOUS
  <2>1. Count(usage, Cell(r)) = r.count
    BY CountIs
  <2> QED
    BY <1>1, <2>1
<1>5. \A p \in Minus(hits) : \E r \in usage : p = [r EXCEPT !.count = n[Cell(r)]]
  BY <1>4 DEF Minus
<1>6. \A r \in usage : [r EXCEPT !.count = n[Cell(r)]] \in Minus(hits)
  BY <1>4 DEF Minus
<1>7. /\ Minus(hits) \subseteq Row /\ OnePerCell(Minus(hits))
      /\ \A r \in usage : Count(Minus(hits), Cell(r)) = n[Cell(r)]
      /\ \A cell : (\A r \in usage : Cell(r) # cell) => Count(Minus(hits), cell) = 0
      /\ \A p \in Minus(hits) : \E r \in usage : p.id = r.id
  BY <1>3, <1>5, <1>6, RowsOf
<1>8. ASSUME NEW cell PROVE Count(Minus(hits), cell) = Less(Count(usage, cell), Count(hits, cell))
  <2>1. CASE \E r \in usage : Cell(r) = cell
    BY <1>1, <1>7, <2>1
  <2>2. CASE \A r \in usage : Cell(r) # cell
    <3>1. Count(usage, cell) = 0
      BY <2>2, CountNone
    <3>2. Less(0, Count(hits, cell)) = 0
      BY CountType DEF Less
    <3> QED
      BY <1>7, <2>2, <3>1, <3>2
  <2> QED
    BY <2>1, <2>2
<1> QED
  BY <1>7, <1>8

(***************************************************************************)
(* What is owed: a sum, as the number of the units it is made of           *)
(***************************************************************************)
Units(f) == UNION {{x} \X (1..f[x]) : x \in Things}

LEMMA UnitsIn ==
    ASSUME NEW f
    PROVE  \A u : u \in Units(f) <=> \E x \in Things : \E i \in 1..f[x] : u = <<x, i>>
  BY DEF Units

LEMMA ColumnsFinite ==
    ASSUME NEW T, IsFiniteSet(T), NEW f, \A y \in T : f[y] \in Nat
    PROVE  IsFiniteSet(UNION {{y} \X (1..f[y]) : y \in T})
<1> DEFINE S == {{y} \X (1..f[y]) : y \in T}
           h == [y \in T |-> {y} \X (1..f[y])]
<1>1. h \in Surjection(T, S)
  BY DEF Surjection
<1>2. IsFiniteSet(S)
  <2> HIDE DEF h, S
  <2> QED
    BY <1>1, FS_Surjection
<1>3. ASSUME NEW y \in T PROVE IsFiniteSet({y} \X (1..f[y]))
  <2>1. f[y] \in Nat
    OBVIOUS
  <2>2. IsFiniteSet(1..f[y])
    BY <2>1, FS_Interval
  <2>3. IsFiniteSet({y})
    BY FS_Singleton
  <2> QED
    BY <2>2, <2>3, FS_Product
<1>4. \A U \in S : IsFiniteSet(U)
  BY <1>3
<1> HIDE DEF S
<1>5. IsFiniteSet(UNION S)
  BY <1>2, <1>4, FS_UNION
<1> QED
  BY <1>5 DEF S

Rest(f, x) == UNION {{y} \X (1..f[y]) : y \in Things \ {x}}

LEMMA OneColumn ==
    ASSUME NEW f \in [Things -> Nat], NEW x \in Things
    PROVE  /\ Cardinality(Rest(f, x)) \in Nat
           /\ Cardinality(Units(f)) = Cardinality(Rest(f, x)) + f[x]
<1> DEFINE C == {x} \X (1..f[x])
<1>1. IsFiniteSet(Things \ {x})
  BY QuotasAssumption, FS_Difference
<1>2. IsFiniteSet(Rest(f, x))
  BY <1>1, ColumnsFinite DEF Rest
<1>3. IsFiniteSet(C) /\ Cardinality(C) = f[x]
  <2>1. IsFiniteSet({x}) /\ Cardinality({x}) = 1
    BY FS_Singleton
  <2>2. f[x] \in Nat
    OBVIOUS
  <2>3. IsFiniteSet(1..f[x]) /\ Cardinality(1..f[x]) = f[x]
    BY <2>2, FS_Interval
  <2>4. IsFiniteSet(C) /\ Cardinality(C) = 1 * f[x]
    BY <2>1, <2>3, FS_Product
  <2> QED
    BY <2>2, <2>4
<1>4. Units(f) = Rest(f, x) \cup C
  BY DEF Units, Rest
<1>5. Rest(f, x) \cap C = {}
  BY DEF Rest
<1> HIDE DEF C
<1>6. Cardinality(Rest(f, x) \cup C) = Cardinality(Rest(f, x)) + Cardinality(C) - Cardinality(Rest(f, x) \cap C)
  BY <1>2, <1>3, FS_Union
<1>7. Cardinality(Rest(f, x)) \in Nat
  BY <1>2, FS_CardinalityType
<1>8. Cardinality(Rest(f, x) \cap C) = 0
  BY <1>5, FS_EmptySet
<1>9. f[x] \in Nat
  OBVIOUS
<1> QED
  BY <1>3, <1>4, <1>6, <1>7, <1>8, <1>9

\* With the value of one thing changed there are so many units more, or less.
LEMMA OneChanged ==
    ASSUME NEW f \in [Things -> Nat], NEW g \in [Things -> Nat], NEW x \in Things, \A y \in Things \ {x} : g[y] = f[y]
    PROVE  /\ Cardinality(Units(f)) \in Nat /\ Cardinality(Units(f)) >= f[x]
           /\ Cardinality(Units(g)) = Cardinality(Units(f)) - f[x] + g[x]
<1>1. Rest(g, x) = Rest(f, x)
  BY DEF Rest
<1>2. /\ Cardinality(Rest(f, x)) \in Nat
      /\ Cardinality(Units(f)) = Cardinality(Rest(f, x)) + f[x]
      /\ Cardinality(Units(g)) = Cardinality(Rest(g, x)) + g[x]
  BY OneColumn
<1>3. f[x] \in Nat /\ g[x] \in Nat
  OBVIOUS
<1> QED
  BY <1>1, <1>2, <1>3

LEMMA OwedOf ==
    ASSUME NEW cell
    PROVE  /\ Owed(cell) = Cardinality(Units([x \in Things |-> Count(Hits(x), cell)]))
           /\ Owed(cell)' = Cardinality(Units([x \in Things |-> Count(Hits(x)', cell)]))
  BY DEF Owed, Units

LEMMA HitsAreRows ==
    ASSUME TypeOK
    PROVE  \A x \in Things : Hits(x) \subseteq Row /\ OnePerCell(Hits(x))
  BY DEF TypeOK, Hits, Thing, OnePerCell

LEMMA OwedMoves ==
    ASSUME TypeOK, TypeOK', NEW x \in Things, \A y \in Things \ {x} : Hits(y)' = Hits(y), NEW cell
    PROVE  /\ Owed(cell) \in Nat /\ Count(Hits(x), cell) \in Nat /\ Count(Hits(x)', cell) \in Nat
           /\ Owed(cell) >= Count(Hits(x), cell)
           /\ Owed(cell)' = Owed(cell) - Count(Hits(x), cell) + Count(Hits(x)', cell)
<1> DEFINE f == [y \in Things |-> Count(Hits(y), cell)]
           g == [y \in Things |-> Count(Hits(y)', cell)]
<1>1. \A y \in Things : Hits(y) \subseteq Row /\ Hits(y)' \subseteq Row
  <2>1. \A y \in Things : Hits(y) \subseteq Row
    BY HitsAreRows
  <2>2. \A y \in Things : Hits(y)' \subseteq Row
    BY DEF TypeOK, Hits, Thing
  <2> QED
    BY <2>1, <2>2
<1>2. \A y \in Things : Count(Hits(y), cell) \in Nat /\ Count(Hits(y)', cell) \in Nat
  BY <1>1, CountType
<1>3. f \in [Things -> Nat] /\ g \in [Things -> Nat]
  BY <1>2
<1>4. \A y \in Things \ {x} : g[y] = f[y]
  OBVIOUS
<1>5. f[x] = Count(Hits(x), cell) /\ g[x] = Count(Hits(x)', cell)
  OBVIOUS
<1>6. Owed(cell) = Cardinality(Units(f)) /\ Owed(cell)' = Cardinality(Units(g))
  BY OwedOf
<1> HIDE DEF f, g
<1>7. /\ Cardinality(Units(f)) \in Nat /\ Cardinality(Units(f)) >= f[x]
      /\ Cardinality(Units(g)) = Cardinality(Units(f)) - f[x] + g[x]
  BY <1>3, <1>4, OneChanged
<1> QED
  BY <1>2, <1>5, <1>6, <1>7

LEMMA OwedSame ==
    ASSUME \A y \in Things : Hits(y)' = Hits(y), NEW cell
    PROVE  Owed(cell)' = Owed(cell)
  BY DEF Owed

LEMMA OwedNothing ==
    ASSUME NEW cell, \A y \in Things : Count(Hits(y), cell) = 0
    PROVE  Owed(cell) = 0
<1>1. UNION {{x} \X (1..Count(Hits(x), cell)) : x \in Things} = {}
  OBVIOUS
<1> QED
  BY <1>1, FS_EmptySet DEF Owed

(***************************************************************************)
(* What a thing is charged                                                 *)
(***************************************************************************)
LEMMA AmountType ==
    ASSUME NEW q, NEW kind
    PROVE  AmountOf(q, kind) \in Nat
<1>1. IsFiniteSet(Bytes)
  <2>1. IsFiniteSet({"drive-bytes"})
    BY FS_Singleton
  <2>2. Size \in Int /\ 1 \in Int
    BY DEF Size
  <2>3. IsFiniteSet(1..Size)
    BY <2>2, FS_Interval
  <2> QED
    BY <2>1, <2>3, FS_Product DEF Bytes
<1>2. IsFiniteSet({<<"drive-upload", 1>>}) /\ IsFiniteSet({<<"receive-file", 1>>}) /\ IsFiniteSet({<<kind, 1>>})
  BY FS_Singleton
<1>3. IsFiniteSet({<<"drive-upload", 1>>} \cup Bytes)
  BY <1>1, <1>2, FS_Union
<1>4. IsFiniteSet(Charges(kind))
  BY <1>1, <1>2, <1>3 DEF Charges
<1>5. {u \in Charges(kind) : u[1] \in Covers[q.kind]} \in SUBSET Charges(kind)
  OBVIOUS
<1>6. IsFiniteSet({u \in Charges(kind) : u[1] \in Covers[q.kind]})
  BY <1>4, <1>5, FS_Subset
<1> QED
  BY <1>6, FS_CardinalityType DEF AmountOf

LEMMA BucketType ==
    ASSUME NEW q \in Quota, NEW t \in Nat
    PROVE  Bucket(q, t) \in Nat
<1>1. q.per \in Nat \ {0}
  BY DEF Quota
<1>2. \A p \in Nat \ {0} : t \div p \in Nat
  OBVIOUS
<1> QED
  BY <1>1, <1>2 DEF Bucket

LEMMA HitsOfRows ==
    ASSUME TypeOK, ListNow, NEW kind, NEW channel, NEW keys \in SUBSET Keys, NEW t \in Nat
    PROVE  /\ HitsOf(kind, channel, keys, t) \subseteq Row
           /\ OnePerCell(HitsOf(kind, channel, keys, t))
           /\ \A h \in HitsOf(kind, channel, keys, t) : h.id[1] = edits
           /\ \A e \in list : \A k, b :
                 Count(HitsOf(kind, channel, keys, t), <<e.id, k, b>>) # 0 =>
                    /\ e \in Applicable(kind, channel) /\ k \in keys /\ b = Bucket(e.q, t)
                    /\ Count(HitsOf(kind, channel, keys, t), <<e.id, k, b>>) = AmountOf(e.q, kind)
<1> DEFINE H == HitsOf(kind, channel, keys, t)
<1>1. \A e \in list : e.id \in Nat \X Nat /\ Bucket(e.q, t) \in Nat /\ AmountOf(e.q, kind) \in Nat
  BY BucketType, AmountType DEF TypeOK
<1>2. \A h \in H : \E e \in Applicable(kind, channel), k \in keys :
                      h = [id |-> e.id, key |-> k, bucket |-> Bucket(e.q, t), count |-> AmountOf(e.q, kind)]
  BY DEF HitsOf
<1>3. Applicable(kind, channel) \subseteq list
  BY DEF Applicable
<1> HIDE DEF H
<1>4. H \subseteq Row
  <2> SUFFICES ASSUME NEW h \in H PROVE h \in Row
    OBVIOUS
  <2>1. PICK e \in Applicable(kind, channel), k \in keys :
               h = [id |-> e.id, key |-> k, bucket |-> Bucket(e.q, t), count |-> AmountOf(e.q, kind)]
    BY <1>2
  <2> QED
    BY <1>1, <1>3, <2>1 DEF Row
<1>5. ASSUME NEW g \in H, NEW h \in H, Cell(g) = Cell(h) PROVE g = h
  <2>1. PICK e \in Applicable(kind, channel), k \in keys :
               g = [id |-> e.id, key |-> k, bucket |-> Bucket(e.q, t), count |-> AmountOf(e.q, kind)]
    BY <1>2
  <2>2. PICK f \in Applicable(kind, channel), l \in keys :
               h = [id |-> f.id, key |-> l, bucket |-> Bucket(f.q, t), count |-> AmountOf(f.q, kind)]
    BY <1>2
  <2>3. e.id = f.id /\ k = l
    BY <1>5, <2>1, <2>2 DEF Cell
  <2>4. e = f
    BY <1>3, <2>3 DEF ListNow
  <2> QED
    BY <2>1, <2>2, <2>3, <2>4
<1>6. OnePerCell(H)
  BY <1>5 DEF OnePerCell
<1>7. \A h \in H : h.id[1] = edits
  BY <1>2, <1>3 DEF ListNow
<1>8. ASSUME NEW e \in list, NEW k, NEW b, Count(H, <<e.id, k, b>>) # 0
      PROVE  e \in Applicable(kind, channel) /\ k \in keys /\ b = Bucket(e.q, t) /\ Count(H, <<e.id, k, b>>) = AmountOf(e.q, kind)
  <2>1. PICK h \in H : Cell(h) = <<e.id, k, b>>
    BY <1>8, CountNone
  <2>2. Count(H, <<e.id, k, b>>) = h.count
    BY <1>6, <1>8, <2>1, CountIs
  <2>3. PICK f \in Applicable(kind, channel), l \in keys :
               h = [id |-> f.id, key |-> l, bucket |-> Bucket(f.q, t), count |-> AmountOf(f.q, kind)]
    BY <1>2
  <2>4. f.id = e.id /\ l = k /\ b = Bucket(f.q, t)
    BY <2>1, <2>3 DEF Cell
  <2>5. f = e
    BY <1>3, <2>4 DEF ListNow
  <2> QED
    BY <2>2, <2>3, <2>4, <2>5
<1>9. \A e \in list : \A k, b :
         Count(H, <<e.id, k, b>>) # 0 =>
            e \in Applicable(kind, channel) /\ k \in keys /\ b = Bucket(e.q, t) /\ Count(H, <<e.id, k, b>>) = AmountOf(e.q, kind)
  BY <1>8
<1> QED
  BY <1>4, <1>6, <1>7, <1>9 DEF H

(***************************************************************************)
(* Steps                                                                   *)
(***************************************************************************)
\* A step that charges nothing and gives nothing back keeps the books.
LEMMA Quiet ==
    ASSUME IInv, UNCHANGED <<plan, list, usage, edits>>, \A y \in Things : Hits(y)' = Hits(y)
    PROVE  ListNow' /\ Known' /\ Balanced' /\ Within'
<1>1. ListNow'
  BY DEF IInv, ListNow
<1>2. Known'
  BY DEF IInv, Known
<1>3. \A cell : Owed(cell)' = Owed(cell)
  BY OwedSame
<1>4. Balanced'
  <2> SUFFICES ASSUME NEW e \in list, NEW k \in Keys, NEW b \in Nat
               PROVE  Count(usage, <<e.id, k, b>>) = Owed(<<e.id, k, b>>)'
    BY DEF Balanced, Count
  <2> QED
    BY <1>3 DEF IInv, Balanced
<1>5. Within'
  <2> SUFFICES ASSUME ~plan.needAll, NEW e \in list, NEW k \in Keys, NEW b \in Nat
               PROVE  Owed(<<e.id, k, b>>)' <= e.q.max
    BY DEF Within
  <2> QED
    BY <1>3 DEF IInv, Within
<1> QED
  BY <1>1, <1>2, <1>4, <1>5

LEMMA ThingOf ==
    ASSUME TypeOK, NEW x \in Things, thing[x] # None
    PROVE  /\ thing[x] \in Thing /\ Hits(x) = thing[x].hits /\ OnePerCell(thing[x].hits)
           /\ thing[x].hits \subseteq Row /\ thing[x].kind \in Kinds /\ thing[x].at \in Stages /\ thing[x].stamp \in Nat
  BY DEF TypeOK, Hits, Thing

\* Things that only get on to another stage keep what they were charged.
LEMMA Relabelled ==
    ASSUME IInv, UNCHANGED <<plan, now, list, usage, edits>>, NEW S \in SUBSET Things, NEW at \in Stages \ {"charged"},
           \A x \in S : thing[x] # None /\ (at \in {"pending", "dropped"} => thing[x].at = "pending"),
           thing' = [x \in Things |-> IF x \in S THEN [thing[x] EXCEPT !.at = at] ELSE thing[x]]
    PROVE  IInv'
<1>1. \A x \in S : /\ thing'[x] \in Thing /\ thing'[x] # None /\ thing'[x].at = at
                   /\ thing'[x].kind = thing[x].kind /\ thing'[x].hits = thing[x].hits /\ thing'[x].stamp = thing[x].stamp
  <2> SUFFICES ASSUME NEW x \in S
               PROVE  /\ thing'[x] \in Thing /\ thing'[x] # None /\ thing'[x].at = at
                      /\ thing'[x].kind = thing[x].kind /\ thing'[x].hits = thing[x].hits /\ thing'[x].stamp = thing[x].stamp
    OBVIOUS
  <2>1. thing[x] \in Thing
    BY ThingOf DEF IInv
  <2>2. thing'[x] = [thing[x] EXCEPT !.at = at]
    OBVIOUS
  <2>3. thing'[x] \in Thing
    BY <2>1, <2>2 DEF Thing
  <2>4. thing'[x] # None
    BY <2>3, QuotasAssumption
  <2> QED
    BY <2>1, <2>2, <2>3, <2>4 DEF Thing
<1>2. \A x \in Things \ S : thing'[x] = thing[x]
  OBVIOUS
<1>3. \A x \in Things : Hits(x)' = Hits(x)
  BY <1>1, <1>2 DEF Hits
<1>4. TypeOK'
  <2>1. thing' \in [Things -> Thing \cup {None}]
    BY <1>1, <1>2 DEF IInv, TypeOK
  <2>2. \A x \in Things : thing'[x] # None => OnePerCell(thing'[x].hits)
    BY <1>1, <1>2, ThingOf DEF IInv
  <2> QED
    BY <2>1, <2>2 DEF IInv, TypeOK, OnePerCell
<1>5. Exact'
  <2> SUFFICES ASSUME NEW x \in Things, thing'[x] # None
               PROVE  /\ thing'[x].at \in {"pending", "dropped"} => thing'[x].kind \in Stamped /\ thing'[x].hits = HitsAt(x, thing[x].stamp)'
                      /\ thing'[x].kind \in Stamped => thing'[x].kind \in plan.kinds
                      /\ thing'[x].kind \in Stamped /\ thing'[x].at = "charged" => thing'[x].hits = HitsAt(x, now)'
                      /\ thing'[x].stamp = thing[x].stamp
    BY DEF Exact, HitsAt
  <2>1. thing[x] # None /\ thing'[x].kind = thing[x].kind /\ thing'[x].hits = thing[x].hits /\ thing'[x].stamp = thing[x].stamp
    BY <1>1, <1>2
  <2>2. \A t : HitsAt(x, t)' = HitsAt(x, t)
    BY <2>1 DEF HitsAt, HitsOf, Applicable
  <2>3. thing'[x].at \in {"pending", "dropped"} => thing[x].at \in {"pending", "dropped"}
    BY <1>1, <1>2
  <2>4. thing'[x].at = "charged" => thing[x].at = "charged"
    BY <1>1, <1>2
  <2> QED
    BY <2>1, <2>2, <2>3, <2>4 DEF IInv, Exact
<1> QED
  BY <1>3, <1>4, <1>5, Quiet DEF IInv

LEMMA BecomesKeeps ==
    ASSUME IInv, UNCHANGED <<plan, now, list, usage, edits>>, NEW x \in Things, thing[x] # None, NEW at \in Stages \ {"charged"},
           at \in {"pending", "dropped"} => thing[x].at = "pending", Becomes(x, at)
    PROVE  IInv'
<1>1. thing' = [y \in Things |-> IF y \in {x} THEN [thing[y] EXCEPT !.at = at] ELSE thing[y]]
  BY DEF IInv, TypeOK, Becomes
<1>2. \A y \in {x} : thing[y] # None /\ (at \in {"pending", "dropped"} => thing[y].at = "pending")
  OBVIOUS
<1> QED
  BY <1>1, <1>2, Relabelled

LEMMA StoreKeeps == ASSUME IInv, NEW x \in Things, Store(x) PROVE IInv'
<1> DEFINE at == IF thing[x].kind \in Stamped THEN "pending" ELSE "kept"
<1>1. /\ thing[x] # None /\ thing[x].at = "charged" /\ UNCHANGED <<plan, now, list, usage, edits>>
      /\ thing[x] \in Thing /\ OnePerCell(thing[x].hits)
  BY ThingOf DEF IInv, Store
<1>2. thing'[x] = [thing[x] EXCEPT !.at = at, !.stamp = now] /\ \A y \in Things \ {x} : thing'[y] = thing[y]
  BY DEF Store, IInv, TypeOK
<1>3. at \in Stages /\ now \in Nat
  BY DEF Stages, IInv, TypeOK
<1> HIDE DEF at
<1>4. /\ thing'[x] \in Thing /\ thing'[x].hits = thing[x].hits /\ thing'[x].kind = thing[x].kind
      /\ thing'[x].at = at /\ thing'[x].stamp = now
  BY <1>1, <1>2, <1>3 DEF Thing
<1>5. thing'[x] # None
  BY <1>4, QuotasAssumption
<1>6. \A y \in Things : Hits(y)' = Hits(y)
  BY <1>1, <1>2, <1>4, <1>5 DEF Hits
<1>7. TypeOK'
  <2>1. thing' \in [Things -> Thing \cup {None}]
    <3>1. thing' = [thing EXCEPT ![x] = thing'[x]]
      BY DEF Store, IInv, TypeOK
    <3> QED
      BY <1>4, <3>1 DEF IInv, TypeOK
  <2>2. \A y \in Things : thing'[y] # None => OnePerCell(thing'[y].hits)
    BY <1>1, <1>2, <1>4, ThingOf DEF IInv
  <2> QED
    BY <1>1, <2>1, <2>2 DEF IInv, TypeOK, OnePerCell
<1>8. Exact'
  <2>3. at = "pending" <=> thing[x].kind \in Stamped
    BY DEF at
  <2>4. at \notin {"charged", "dropped"}
    BY DEF at
  <2>5. ASSUME NEW y \in Things, thing'[y] # None
        PROVE  /\ thing'[y].at \in {"pending", "dropped"} => thing'[y].kind \in Stamped /\ thing'[y].hits = HitsAt(y, thing'[y].stamp)
               /\ thing'[y].kind \in Stamped => thing'[y].kind \in plan.kinds
               /\ thing'[y].kind \in Stamped /\ thing'[y].at = "charged" => thing'[y].hits = HitsAt(y, now)
    <3>1. CASE y = x
      BY <1>1, <1>4, <2>3, <2>4, <3>1 DEF IInv, Exact
    <3>2. CASE y # x
      BY <1>1, <1>2, <2>5, <3>2 DEF IInv, Exact
    <3> QED
      BY <3>1, <3>2
  <2>6. \A y \in Things : HitsAt(y, now)' = HitsAt(y, now) /\ HitsAt(y, thing[y].stamp)' = HitsAt(y, thing'[y].stamp)
    <3>1. \A y \in Things : thing'[y].kind = thing[y].kind
      BY <1>2, <1>4
    <3> QED
      BY <1>1, <3>1 DEF HitsAt, HitsOf, Applicable
  <2> QED
    BY <1>1, <2>5, <2>6 DEF Exact
<1> QED
  BY <1>1, <1>6, <1>7, <1>8, Quiet DEF IInv

\* Giving back what a thing was charged keeps the books, whatever was counted since.
LEMMA GivesBack ==
    ASSUME IInv, UNCHANGED <<plan, now, list, edits>>, NEW x \in Things, thing[x] # None,
           usage' = Minus(thing[x].hits), Forget(x)
    PROVE  IInv'
<1>1. /\ thing[x].hits \subseteq Row /\ OnePerCell(thing[x].hits) /\ Hits(x) = thing[x].hits
      /\ usage \subseteq Row /\ OnePerCell(usage)
  BY ThingOf DEF IInv, TypeOK
<1>2. /\ usage' \subseteq Row /\ OnePerCell(usage')
      /\ \A cell : Count(usage', cell) = Less(Count(usage, cell), Count(thing[x].hits, cell))
      /\ \A p \in usage' : \E r \in usage : p.id = r.id
  BY <1>1, MinusCounts
<1>3. thing'[x] = None /\ \A y \in Things \ {x} : thing'[y] = thing[y]
  BY DEF Forget, IInv, TypeOK
<1>4. Hits(x)' = {} /\ \A y \in Things \ {x} : Hits(y)' = Hits(y)
  BY <1>3 DEF Hits
<1>5. TypeOK'
  <2>1. thing' \in [Things -> Thing \cup {None}]
    BY DEF Forget, IInv, TypeOK
  <2>2. \A y \in Things : thing'[y] # None => OnePerCell(thing'[y].hits)
    BY <1>3, ThingOf DEF IInv
  <2> QED
    BY <1>2, <2>1, <2>2 DEF IInv, TypeOK, OnePerCell
<1>6. ListNow'
  BY DEF IInv, ListNow
<1>7. Known'
  BY <1>2, <1>4 DEF IInv, Known
<1>8. Exact'
  <2>1. \A y \in Things \ {x} : HitsAt(y, thing[y].stamp)' = HitsAt(y, thing[y].stamp) /\ HitsAt(y, now)' = HitsAt(y, now)
    BY <1>3 DEF HitsAt, HitsOf, Applicable
  <2> QED
    BY <1>3, <2>1 DEF IInv, Exact
<1>9. \A cell : /\ Owed(cell) \in Nat /\ Count(thing[x].hits, cell) \in Nat
                /\ Owed(cell) >= Count(thing[x].hits, cell)
                /\ Owed(cell)' = Owed(cell) - Count(thing[x].hits, cell)
  <2> SUFFICES ASSUME NEW cell
               PROVE  /\ Owed(cell) \in Nat /\ Count(thing[x].hits, cell) \in Nat
                      /\ Owed(cell) >= Count(thing[x].hits, cell)
                      /\ Owed(cell)' = Owed(cell) - Count(thing[x].hits, cell)
    OBVIOUS
  <2>1. Count(Hits(x)', cell) = 0
    BY <1>4, CountNone
  <2>2. /\ Owed(cell) \in Nat /\ Count(Hits(x), cell) \in Nat
        /\ Owed(cell) >= Count(Hits(x), cell)
        /\ Owed(cell)' = Owed(cell) - Count(Hits(x), cell) + Count(Hits(x)', cell)
    BY <1>4, <1>5, OwedMoves DEF IInv
  <2> QED
    BY <1>1, <2>1, <2>2
<1>10. Balanced'
  <2> SUFFICES ASSUME NEW e \in list, NEW k \in Keys, NEW b \in Nat
               PROVE  Count(usage', <<e.id, k, b>>) = Owed(<<e.id, k, b>>)'
    BY DEF Balanced, Count
  <2>1. Count(usage, <<e.id, k, b>>) = Owed(<<e.id, k, b>>)
    BY DEF IInv, Balanced
  <2>2. \A n, m \in Nat : n >= m => Less(n, m) = n - m
    BY DEF Less
  <2> QED
    BY <1>2, <1>9, <2>1, <2>2
<1>11. Within'
  <2> SUFFICES ASSUME ~plan.needAll, NEW e \in list, NEW k \in Keys, NEW b \in Nat
               PROVE  Owed(<<e.id, k, b>>)' <= e.q.max
    BY DEF Within
  <2>1. Owed(<<e.id, k, b>>) <= e.q.max /\ e.q.max \in Nat
    BY DEF IInv, Within, TypeOK, Quota
  <2> QED
    BY <1>9, <2>1
<1> QED
  BY <1>5, <1>6, <1>7, <1>8, <1>10, <1>11 DEF IInv

LEMMA ReportKeeps == ASSUME IInv, NEW x \in Things, Report(x) PROVE IInv'
<1>1. thing[x] # None /\ thing[x].at = "dropped" /\ Forget(x) /\ UNCHANGED <<plan, now, list, edits>>
  BY DEF Report
<1>2. thing[x].hits = HitsAt(x, thing[x].stamp)
  BY <1>1 DEF IInv, Exact
<1>3. usage' = Minus(thing[x].hits)
  BY <1>2 DEF Report, AtStamp
<1> QED
  BY <1>1, <1>3, GivesBack

\* What is charged is counted, and stays within every quota that it is counted for.
LEMMA ChargeKeeps ==
    ASSUME IInv, NEW x \in Things, NEW kind \in plan.kinds, NEW channel \in plan.channels, NEW keys \in plan.keys,
           Charge(x, kind, channel, keys)
    PROVE  IInv'
<1> DEFINE H == HitsOf(kind, channel, keys, now)
           new == [kind |-> kind, hits |-> H, at |-> "charged", stamp |-> 0]
<1>1. /\ thing[x] = None /\ ~Refused(kind, channel, keys) /\ usage' = Plus(H) /\ thing' = [thing EXCEPT ![x] = new]
      /\ UNCHANGED <<plan, now, list, edits>>
  BY DEF Charge
<1>2. /\ plan \in Plan /\ kind \in Kinds /\ keys \in SUBSET Keys /\ now \in Nat
      /\ usage \subseteq Row /\ OnePerCell(usage)
  BY PlansAssumption DEF IInv, TypeOK, Plan
<1>3. /\ H \subseteq Row /\ OnePerCell(H) /\ \A h \in H : h.id[1] = edits
      /\ \A e \in list : \A k, b :
            Count(H, <<e.id, k, b>>) # 0 =>
               /\ e \in Applicable(kind, channel) /\ k \in keys /\ b = Bucket(e.q, now)
               /\ Count(H, <<e.id, k, b>>) = AmountOf(e.q, kind)
  <2>1. TypeOK /\ ListNow
    BY DEF IInv
  <2> QED
    BY <1>2, <2>1, HitsOfRows
<1> HIDE DEF H
<1>4. /\ usage' \subseteq Row /\ OnePerCell(usage')
      /\ \A cell : Count(usage', cell) = Count(usage, cell) + Count(H, cell)
      /\ \A p \in usage' : \E r \in usage \cup H : p.id = r.id
  BY <1>1, <1>2, <1>3, PlusCounts
<1>5. new \in Thing /\ new # None
  <2>1. new \in Thing
    BY <1>2, <1>3 DEF Thing, Stages
  <2> QED
    BY <2>1, QuotasAssumption
<1>6. thing'[x] = new /\ \A y \in Things \ {x} : thing'[y] = thing[y]
  BY <1>1 DEF IInv, TypeOK
<1>7. Hits(x) = {} /\ Hits(x)' = H /\ \A y \in Things \ {x} : Hits(y)' = Hits(y)
  BY <1>1, <1>5, <1>6 DEF Hits
<1>8. TypeOK'
  <2>1. thing' \in [Things -> Thing \cup {None}]
    BY <1>1, <1>5 DEF IInv, TypeOK
  <2>2. \A y \in Things : thing'[y] # None => OnePerCell(thing'[y].hits)
    BY <1>3, <1>6, ThingOf DEF IInv
  <2> QED
    BY <1>1, <1>4, <2>1, <2>2 DEF IInv, TypeOK, OnePerCell
<1>9. ListNow'
  BY <1>1 DEF IInv, ListNow
<1>10. Known'
  <2>1. edits \in Nat
    BY DEF IInv, TypeOK
  <2> QED
    BY <1>1, <1>3, <1>4, <1>7, <2>1 DEF IInv, Known
<1>11. Exact'
  <2>1. \A y \in Things \ {x} : HitsAt(y, thing[y].stamp)' = HitsAt(y, thing[y].stamp) /\ HitsAt(y, now)' = HitsAt(y, now)
    BY <1>1, <1>6 DEF HitsAt, HitsOf, Applicable
  <2>2. HitsAt(x, now)' = HitsOf(kind, "all", {"account"}, now)
    BY <1>1, <1>6 DEF HitsAt, HitsOf, Applicable
  <2>3. kind \in Stamped => channel = "all" /\ keys = {"account"}
    BY PlansAssumption DEF IInv, TypeOK
  <2>4. kind \in Stamped => H = HitsAt(x, now)'
    BY <2>2, <2>3 DEF H
  <2>5. ASSUME NEW y \in Things, thing'[y] # None
        PROVE  /\ thing'[y].at \in {"pending", "dropped"} => thing'[y].kind \in Stamped /\ thing'[y].hits = HitsAt(y, thing[y].stamp)'
               /\ thing'[y].kind \in Stamped => thing'[y].kind \in plan.kinds
               /\ thing'[y].kind \in Stamped /\ thing'[y].at = "charged" => thing'[y].hits = HitsAt(y, now)'
    <3>1. CASE y = x
      BY <1>6, <2>4, <3>1
    <3>2. CASE y # x
      BY <1>6, <2>1, <2>5, <3>2 DEF IInv, Exact
    <3> QED
      BY <3>1, <3>2
  <2> QED
    BY <1>1, <2>5 DEF Exact
<1>12. \A cell : Count(H, cell) \in Nat /\ Owed(cell) \in Nat /\ Owed(cell)' = Owed(cell) + Count(H, cell)
  <2> SUFFICES ASSUME NEW cell
               PROVE  Count(H, cell) \in Nat /\ Owed(cell) \in Nat /\ Owed(cell)' = Owed(cell) + Count(H, cell)
    OBVIOUS
  <2>1. Count(Hits(x), cell) = 0
    BY <1>7, CountNone
  <2>2. /\ Owed(cell) \in Nat /\ Count(Hits(x)', cell) \in Nat
        /\ Owed(cell)' = Owed(cell) - Count(Hits(x), cell) + Count(Hits(x)', cell)
    BY <1>7, <1>8, OwedMoves DEF IInv
  <2> QED
    BY <1>7, <2>1, <2>2
<1>13. Balanced'
  <2> SUFFICES ASSUME NEW e \in list, NEW k \in Keys, NEW b \in Nat
               PROVE  Count(usage', <<e.id, k, b>>) = Owed(<<e.id, k, b>>)'
    BY <1>1 DEF Balanced, Count
  <2> QED
    BY <1>4, <1>12 DEF IInv, Balanced
<1>14. Within'
  <2> SUFFICES ASSUME ~plan.needAll, NEW e \in list, NEW k \in Keys, NEW b \in Nat
               PROVE  Owed(<<e.id, k, b>>)' <= e.q.max
    BY <1>1 DEF Within
  <2>1. Owed(<<e.id, k, b>>) <= e.q.max /\ e.q.max \in Nat /\ Owed(<<e.id, k, b>>) \in Nat
    BY <1>12 DEF IInv, Within, TypeOK, Quota
  <2>2. CASE Count(H, <<e.id, k, b>>) = 0
    BY <1>12, <2>1, <2>2
  <2>3. CASE Count(H, <<e.id, k, b>>) # 0
    <3>1. /\ e \in Applicable(kind, channel) /\ k \in keys /\ b = Bucket(e.q, now)
          /\ Count(H, <<e.id, k, b>>) = AmountOf(e.q, kind)
      BY <1>3, <2>3
    <3>2. ~Over(e, k, kind)
      BY <1>1, <3>1 DEF Refused
    <3>3. Count(usage, <<e.id, k, b>>) = Owed(<<e.id, k, b>>)
      BY DEF IInv, Balanced
    <3>4. AmountOf(e.q, kind) \in Nat
      BY AmountType
    <3>5. ~(Owed(<<e.id, k, b>>) + AmountOf(e.q, kind) > e.q.max)
      BY <3>1, <3>2, <3>3 DEF Over
    <3> QED
      BY <1>12, <2>1, <3>1, <3>4, <3>5
  <2> QED
    BY <2>2, <2>3
<1> QED
  BY <1>8, <1>9, <1>10, <1>11, <1>13, <1>14 DEF IInv

\* A list saved anew counts from nothing: no row and no thing has its ids yet.
LEMMA SetQuotasKeeps == ASSUME IInv, NEW qs \in Lists, SetQuotas(qs) PROVE IInv'
<1>1. /\ edits < plan.edits /\ edits' = edits + 1 /\ list' = Numbered(qs, edits + 1)
      /\ usage' = {r \in usage : \A e \in list : r.id # e.id} /\ UNCHANGED <<plan, now, thing>>
  BY DEF SetQuotas
<1>2. edits \in Nat /\ plan \in Plans /\ plan.edits \in Nat /\ usage \subseteq Row /\ OnePerCell(usage)
  BY PlansAssumption DEF IInv, TypeOK, Plan
<1>3. \A i \in DOMAIN qs : i \in Nat /\ qs[i] \in Quota
  <2>1. qs \in Seq(Quota)
    BY QuotasAssumption
  <2> QED
    BY <2>1
<1>4. \A e \in list' : \E i \in DOMAIN qs : e = [id |-> <<edits + 1, i>>, q |-> qs[i]]
  BY <1>1 DEF Numbered
<1>5. \A e \in list' : e.id \in Nat \X Nat /\ e.q \in Quota /\ e.id[1] = edits + 1
  BY <1>2, <1>3, <1>4
<1>6. \A e, f \in list' : e.id = f.id => e = f
  <2> SUFFICES ASSUME NEW e \in list', NEW f \in list', e.id = f.id PROVE e = f
    OBVIOUS
  <2>1. PICK i \in DOMAIN qs : e = [id |-> <<edits + 1, i>>, q |-> qs[i]]
    BY <1>4
  <2>2. PICK j \in DOMAIN qs : f = [id |-> <<edits + 1, j>>, q |-> qs[j]]
    BY <1>4
  <2>3. i = j
    BY <2>1, <2>2
  <2> QED
    BY <2>1, <2>2, <2>3
<1>7. \A y \in Things : Hits(y)' = Hits(y)
  BY <1>1 DEF Hits
<1>8. usage' \subseteq usage
  BY <1>1
<1>9. TypeOK'
  BY <1>1, <1>2, <1>5, <1>8 DEF IInv, TypeOK, OnePerCell
<1>10. ListNow'
  BY <1>1, <1>5, <1>6 DEF ListNow
<1>11. \A r \in Row : r.id[1] \in Nat
  BY DEF Row
<1>12. \A y \in Things : \A h \in Hits(y) : h.id[1] \in Nat /\ h.id[1] <= edits
  BY <1>11, HitsAreRows DEF IInv, Known
<1>13. \A r \in usage : r.id[1] \in Nat /\ r.id[1] <= edits
  BY <1>2, <1>11 DEF IInv, Known
<1>14. Known'
  BY <1>1, <1>2, <1>7, <1>8, <1>12, <1>13 DEF Known
<1>15. Exact'
  <2> SUFFICES ASSUME NEW x \in Things, thing[x] # None
               PROVE  /\ thing[x].kind \notin Stamped /\ thing[x].at \notin {"pending", "dropped"}
    BY <1>1 DEF Exact
  <2>1. thing[x].kind \notin Stamped
    BY <1>1, <1>2, PlansAssumption DEF IInv, Exact
  <2> QED
    BY <2>1 DEF IInv, Exact
<1>16. ASSUME NEW e \in list', NEW k, NEW b
       PROVE  Count(usage', <<e.id, k, b>>) = 0 /\ Owed(<<e.id, k, b>>) = 0
  <2>1. e.id[1] = edits + 1
    BY <1>5
  <2>2. \A r \in usage' : Cell(r) # <<e.id, k, b>>
    BY <1>2, <1>8, <1>13, <2>1 DEF Cell
  <2>3. \A y \in Things : \A h \in Hits(y) : Cell(h) # <<e.id, k, b>>
    BY <1>2, <1>12, <2>1 DEF Cell
  <2>4. \A y \in Things : Count(Hits(y), <<e.id, k, b>>) = 0
    BY <2>3, CountNone
  <2> QED
    BY <2>2, <2>4, CountNone, OwedNothing
<1>17. \A cell : Owed(cell)' = Owed(cell)
  BY <1>7, OwedSame
<1>18. Balanced'
  <2> SUFFICES ASSUME NEW e \in list', NEW k \in Keys, NEW b \in Nat
               PROVE  Count(usage', <<e.id, k, b>>) = Owed(<<e.id, k, b>>)'
    BY DEF Balanced, Count
  <2> QED
    BY <1>16, <1>17
<1>19. Within'
  <2> SUFFICES ASSUME NEW e \in list', NEW k \in Keys, NEW b \in Nat
               PROVE  Owed(<<e.id, k, b>>)' <= e.q.max
    BY DEF Within
  <2>1. e.q.max \in Nat
    BY <1>5 DEF Quota
  <2> QED
    BY <1>16, <1>17, <2>1
<1> QED
  BY <1>9, <1>10, <1>14, <1>15, <1>18, <1>19 DEF IInv

\* Time: a thing that a later report is for is not left uncounted by the Drive.
LEMMA TickKeeps == ASSUME IInv, Tick PROVE IInv'
<1>1. /\ now < plan.until /\ now' = now + 1 /\ UNCHANGED <<plan, list, usage, thing, edits>>
      /\ plan.prompt => \A x \in Things : thing[x] # None /\ thing[x].kind \in Stamped => thing[x].at # "charged"
  BY DEF Tick
<1>2. plan \in Plans /\ plan.until \in 0..MaxTime /\ MaxTime \in Nat /\ now \in Nat
  BY PlansAssumption, QuotasAssumption DEF IInv, TypeOK, Plan
<1>3. now' \in 0..MaxTime
  BY <1>1, <1>2
<1>4. TypeOK'
  BY <1>1, <1>3 DEF IInv, TypeOK, OnePerCell
<1>5. \A y \in Things : Hits(y)' = Hits(y)
  BY <1>1 DEF Hits
<1>6. Exact'
  <2>1. ASSUME NEW x \in Things, thing[x] # None, thing[x].kind \in Stamped
        PROVE  thing[x].at # "charged"
    <3>1. plan.prompt
      BY <1>2, <2>1, PlansAssumption DEF IInv, Exact
    <3> QED
      BY <1>1, <2>1, <3>1
  <2>2. \A x \in Things : HitsAt(x, thing[x].stamp)' = HitsAt(x, thing[x].stamp)
    BY <1>1 DEF HitsAt, HitsOf, Applicable
  <2> QED
    BY <1>1, <2>1, <2>2 DEF IInv, Exact
<1> QED
  BY <1>1, <1>4, <1>5, <1>6, Quiet DEF IInv

LEMMA PurgeKeeps == ASSUME IInv, Purge PROVE IInv'
<1>1. Stale \in SUBSET Things /\ \A x \in Stale : thing[x] # None /\ thing[x].at = "pending"
  BY DEF Stale
<1>2. "dropped" \in Stages \ {"charged"}
  BY DEF Stages
<1>3. /\ thing' = [x \in Things |-> IF x \in Stale THEN [thing[x] EXCEPT !.at = "dropped"] ELSE thing[x]]
      /\ UNCHANGED <<plan, now, list, usage, edits>>
  BY DEF Purge
<1> QED
  BY <1>1, <1>2, <1>3, Relabelled

LEMMA InitInv == Init => IInv
<1> SUFFICES ASSUME Init PROVE IInv
  OBVIOUS
<1>1. plan \in Plans /\ plan.list \in Seq(Quota) /\ MaxTime \in Nat
  BY PlansAssumption, QuotasAssumption DEF Init, Plan
<1>2. now = 0 /\ edits = 0 /\ list = Numbered(plan.list, 0) /\ usage = {} /\ thing = [x \in Things |-> None]
  BY DEF Init
<1>3. \A i \in DOMAIN plan.list : i \in Nat /\ plan.list[i] \in Quota
  BY <1>1
<1>4. \A e \in list : \E i \in DOMAIN plan.list : e = [id |-> <<0, i>>, q |-> plan.list[i]]
  BY <1>2 DEF Numbered
<1>5. \A e \in list : e.id \in Nat \X Nat /\ e.q \in Quota /\ e.id[1] = 0
  BY <1>3, <1>4
<1>6. \A e, f \in list : e.id = f.id => e = f
  <2> SUFFICES ASSUME NEW e \in list, NEW f \in list, e.id = f.id PROVE e = f
    OBVIOUS
  <2>1. PICK i \in DOMAIN plan.list : e = [id |-> <<0, i>>, q |-> plan.list[i]]
    BY <1>4
  <2>2. PICK j \in DOMAIN plan.list : f = [id |-> <<0, j>>, q |-> plan.list[j]]
    BY <1>4
  <2>3. i = j
    BY <2>1, <2>2
  <2> QED
    BY <2>1, <2>2, <2>3
<1>7. \A x \in Things : Hits(x) = {}
  BY <1>2 DEF Hits
<1>8. TypeOK
  BY <1>1, <1>2, <1>5 DEF TypeOK, OnePerCell
<1>9. ListNow /\ Known /\ Exact
  BY <1>2, <1>5, <1>6, <1>7 DEF ListNow, Known, Exact
<1>10. \A cell : Count(usage, cell) = 0 /\ Owed(cell) = 0
  BY <1>2, <1>7, CountNone, OwedNothing
<1>11. Balanced
  BY <1>10 DEF Balanced
<1>12. Within
  <2>1. \A e \in list : e.q.max \in Nat
    BY <1>5 DEF Quota
  <2> QED
    BY <1>10, <2>1 DEF Within
<1> QED
  BY <1>8, <1>9, <1>11, <1>12 DEF IInv

LEMMA StepKeeps == IInv /\ [Next]_vars => IInv'
<1> SUFFICES ASSUME IInv, [Next]_vars PROVE IInv'
  OBVIOUS
<1>1. ASSUME NEW x \in Things, NEW kind \in plan.kinds, NEW channel \in plan.channels, NEW keys \in plan.keys,
             Charge(x, kind, channel, keys)
      PROVE  IInv'
  BY <1>1, ChargeKeeps
<1>2. ASSUME NEW x \in Things, Store(x) PROVE IInv'
  BY <1>2, StoreKeeps
<1>3. ASSUME NEW x \in Things, StoreFails(x) PROVE IInv'
  BY <1>3, BecomesKeeps DEF StoreFails, Stages
<1>4. ASSUME NEW x \in Things, Refund(x) PROVE IInv'
  BY <1>4, GivesBack DEF Refund, HitsBack
<1>5. ASSUME NEW x \in Things, Activity(x) PROVE IInv'
  BY <1>5, BecomesKeeps DEF Activity, Stages
<1>6. ASSUME NEW x \in Things, Finish(x) PROVE IInv'
  BY <1>6, BecomesKeeps DEF Finish, Stages
<1>7. ASSUME NEW x \in Things, Drop(x) PROVE IInv'
  BY <1>7, BecomesKeeps DEF Drop, Stages
<1>8. ASSUME NEW x \in Things, Report(x) PROVE IInv'
  BY <1>8, ReportKeeps
<1>9. ASSUME NEW x \in Things, Die(x) PROVE IInv'
  BY <1>9, BecomesKeeps DEF Die, Stages
<1>10. CASE Purge
  BY <1>10, PurgeKeeps
<1>11. ASSUME NEW qs \in Lists, SetQuotas(qs) PROVE IInv'
  BY <1>11, SetQuotasKeeps
<1>12. CASE Tick
  BY <1>12, TickKeeps
<1>13. CASE UNCHANGED vars
  <2>1. thing' = [x \in Things |-> IF x \in {} THEN [thing[x] EXCEPT !.at = "lost"] ELSE thing[x]]
    BY <1>13 DEF vars, IInv, TypeOK
  <2>2. "lost" \in Stages \ {"charged"} /\ {} \in SUBSET Things
    BY DEF Stages
  <2> QED
    BY <1>13, <2>1, <2>2, Relabelled DEF vars
<1> QED
  BY <1>1, <1>2, <1>3, <1>4, <1>5, <1>6, <1>7, <1>8, <1>9, <1>10, <1>11, <1>12, <1>13 DEF Next

LEMMA IInvImplies == IInv => QuotaBooks
<1> SUFFICES ASSUME IInv PROVE QuotaBooks
  OBVIOUS
<1>1. ASSUME NEW e \in list PROVE Windows(e.q) \subseteq Nat
  BY DEF Windows
<1>2. Books
  BY <1>1 DEF Books, IInv, Balanced
<1>3. WithinQuota
  BY <1>1 DEF WithinQuota, IInv, Within
<1> QED
  BY <1>2, <1>3 DEF QuotaBooks, IInv

(***************************************************************************)
(* Theorems                                                                *)
(***************************************************************************)
\* The books balance for every list of quotas, number of things and length of windows: each count is
\* what was charged in its window and not given back, and nobody gets past a quota, whatever fails, is
\* reported late or given back meanwhile (directory-do.js #chargeQuotas, refund, refundAt).
THEOREM QuotasBalance == Spec => []QuotaBooks
<1>1. Spec => []IInv
  BY InitInv, StepKeeps, PTL DEF Spec
<1> QED
  BY <1>1, IInvImplies, PTL
=============================================================================

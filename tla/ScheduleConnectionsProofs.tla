----------------------- MODULE ScheduleConnectionsProofs -----------------------
(***************************************************************************)
(* Theorems about the connections of a well along the snapshots.           *)
(*                                                                         *)
(* Where a list keeps its connections is of no account to what is          *)
(* promised, so the proofs go over from lists to views: for every cell the *)
(* connection that leads to it.  A keyword does to the view of a list what *)
(* it does to each cell; a block, a replay and a scaling then are          *)
(* statements about the timeline of views, and the inductive invariant is  *)
(* one about the timeline.                                                 *)
(***************************************************************************)
EXTENDS ScheduleConnections, FiniteSetTheorems, FunctionTheorems, SequenceTheorems, WellFoundedInduction, TLAPS

-----------------------------------------------------------------------------
(***************************************************************************)
(* Lists of connections, at most one to a cell, and what they say: how     *)
(* many there are and, for every cell, which connection leads to it.       *)
(***************************************************************************)
Lists == {c \in Seq(Connection) : \A i, j \in DOMAIN c : c[i].cell = c[j].cell => i = j}

View(c) == [n |-> Len(c), v |-> [cell \in CellsOf(c) |-> At(c, cell)]]

IsView(a) ==
  /\ a = [n |-> a.n, v |-> a.v]
  /\ a.n \in Nat
  /\ DOMAIN a.v \subseteq Cells
  /\ a.v = [cell \in DOMAIN a.v |-> a.v[cell]]
  /\ \A cell \in DOMAIN a.v : a.v[cell] \in Connection /\ a.v[cell].cell = cell

(* A list as a sequence. *)
LEMMA ListFacts ==
  ASSUME NEW c \in Lists
  PROVE  /\ Len(c) \in Nat
         /\ DOMAIN c = 1 .. Len(c)
         /\ \A i \in DOMAIN c : c[i] \in Connection /\ c[i].cell \in Cells
         /\ \A i, j \in DOMAIN c : c[i].cell = c[j].cell => i = j
         /\ c \in Seq(Connection)
         /\ c = [i \in 1 .. Len(c) |-> c[i]]
<1>1. c \in Seq(Connection) /\ \A i, j \in DOMAIN c : c[i].cell = c[j].cell => i = j
  BY DEF Lists
<1>2. /\ Len(c) \in Nat
      /\ DOMAIN c = 1 .. Len(c)
      /\ \A i \in DOMAIN c : c[i] \in Connection
      /\ c = [i \in 1 .. Len(c) |-> c[i]]
  BY <1>1
<1>3. \A i \in DOMAIN c : c[i].cell \in Cells
  BY <1>2 DEF Connection
<1> QED
  BY <1>1, <1>2, <1>3

(* What makes a list. *)
LEMMA IsList ==
  ASSUME NEW n \in Nat, NEW d, d = [i \in 1 .. n |-> d[i]],
         \A i \in 1 .. n : d[i] \in Connection,
         \A i, j \in 1 .. n : d[i].cell = d[j].cell => i = j
  PROVE  d \in Lists /\ Len(d) = n /\ DOMAIN d = 1 .. n
BY DEF Lists

(* Where the connection to a cell is. *)
LEMMA PositionFacts ==
  ASSUME NEW c \in Lists
  PROVE  /\ \A i \in DOMAIN c : Position(c, c[i].cell) = i /\ At(c, c[i].cell) = c[i]
         /\ \A cell : cell \notin CellsOf(c) => Position(c, cell) = 0
<1>1. /\ Len(c) \in Nat
      /\ DOMAIN c = 1 .. Len(c)
      /\ \A i, j \in DOMAIN c : c[i].cell = c[j].cell => i = j
  BY ListFacts
<1>2. ASSUME NEW i \in DOMAIN c PROVE Position(c, c[i].cell) = i
  <2> DEFINE I == {j \in 1 .. Len(c) : c[j].cell = c[i].cell}
  <2>1. I = {i}
    BY <1>1
  <2>2. Min({i}) = i
    BY <1>1 DEF Min
  <2>3. Position(c, c[i].cell) = IF I # {} THEN Min(I) ELSE 0
    BY DEF Position, SelectInSeq
  <2> HIDE DEF I
  <2> QED
    BY <2>1, <2>2, <2>3
<1>3. ASSUME NEW cell, cell \notin CellsOf(c) PROVE Position(c, cell) = 0
  <2>1. {j \in 1 .. Len(c) : c[j].cell = cell} = {}
    BY <1>1, <1>3 DEF CellsOf
  <2> QED
    BY <2>1 DEF Position, SelectInSeq
<1> QED
  BY <1>2, <1>3 DEF At

(* What a list says. *)
LEMMA ViewFacts ==
  ASSUME NEW c \in Lists
  PROVE  /\ IsView(View(c))
         /\ View(c).n = Len(c)
         /\ DOMAIN View(c).v = CellsOf(c)
         /\ \A i \in DOMAIN c : c[i].cell \in CellsOf(c) /\ View(c).v[c[i].cell] = c[i]
         /\ \A cell \in CellsOf(c) : \E i \in DOMAIN c : c[i].cell = cell /\ View(c).v[cell] = c[i]
<1>1. \A i \in DOMAIN c : c[i].cell \in CellsOf(c)
  BY DEF CellsOf
<1>2. /\ View(c) = [n |-> View(c).n, v |-> View(c).v]
      /\ View(c).n = Len(c)
      /\ DOMAIN View(c).v = CellsOf(c)
      /\ View(c).v = [cell \in DOMAIN View(c).v |-> View(c).v[cell]]
      /\ \A cell \in CellsOf(c) : View(c).v[cell] = At(c, cell)
  BY DEF View
<1>3. \A i \in DOMAIN c : View(c).v[c[i].cell] = c[i]
  BY <1>1, <1>2, PositionFacts
<1>4. \A cell \in CellsOf(c) : \E i \in DOMAIN c : c[i].cell = cell /\ View(c).v[cell] = c[i]
  BY <1>3 DEF CellsOf
<1>5. \A cell \in CellsOf(c) : cell \in Cells /\ View(c).v[cell] \in Connection /\ View(c).v[cell].cell = cell
  BY <1>4, ListFacts
<1>6. Len(c) \in Nat
  BY ListFacts
<1> QED
  BY <1>1, <1>2, <1>3, <1>4, <1>5, <1>6 DEF IsView

(* When a list says this. *)
LEMMA ViewIs ==
  ASSUME NEW c \in Lists, NEW f, f = [cell \in CellsOf(c) |-> f[cell]],
         \A i \in DOMAIN c : f[c[i].cell] = c[i]
  PROVE  View(c) = [n |-> Len(c), v |-> f]
<1>1. \A cell \in CellsOf(c) : f[cell] = At(c, cell)
  BY PositionFacts DEF CellsOf
<1>2. f = [cell \in CellsOf(c) |-> At(c, cell)]
  BY <1>1
<1> QED
  BY <1>2 DEF View

-----------------------------------------------------------------------------
(***************************************************************************)
(* Putting connections in order changes nothing that they say.             *)
(***************************************************************************)

(* Every rank is taken: there are as many ranks as connections, and no two *)
(* connections have the same.                                              *)
LEMMA RanksTaken ==
  ASSUME NEW c \in Lists
  PROVE  \A k \in DOMAIN c : \E i \in DOMAIN c : rank(c, i) = k
<1> DEFINE D == DOMAIN c
           below(i) == {j \in D : c[j].cell <= c[i].cell}
           r == [i \in D |-> rank(c, i)]
<1>1. /\ Len(c) \in Nat
      /\ D = 1 .. Len(c)
      /\ \A i \in D : c[i].cell \in Nat
      /\ \A i, j \in D : c[i].cell = c[j].cell => i = j
  BY ListFacts, CellsAssumption
<1>2. IsFiniteSet(D) /\ Cardinality(D) = Len(c)
  BY <1>1, FS_Interval
<1>3. ASSUME NEW i \in D
      PROVE  /\ IsFiniteSet(below(i))
             /\ rank(c, i) = Cardinality(below(i))
             /\ rank(c, i) \in D
  <2>1. below(i) \in SUBSET D /\ i \in below(i)
    BY <1>1
  <2> HIDE DEF D
  <2>2. IsFiniteSet(below(i)) /\ Cardinality(below(i)) <= Cardinality(D)
    BY <1>2, <2>1, FS_Subset
  <2>3. Cardinality(below(i)) \in Nat
    BY <2>2, FS_CardinalityType
  <2>4. Cardinality(below(i)) # 0
    BY <2>1, <2>2, FS_EmptySet
  <2>5. rank(c, i) = Cardinality(below(i))
    BY DEF rank, D
  <2> HIDE DEF below
  <2> QED
    BY <1>1, <1>2, <2>2, <2>3, <2>4, <2>5
<1>4. ASSUME NEW i \in D, NEW j \in D, c[i].cell < c[j].cell
      PROVE  rank(c, i) # rank(c, j)
  <2>1. below(i) \in SUBSET below(j) /\ below(i) # below(j)
    <3>1. j \in below(j) /\ j \notin below(i)
      BY <1>1, <1>4
    <3>2. \A k \in D : c[k].cell <= c[i].cell => c[k].cell <= c[j].cell
      BY <1>1, <1>4
    <3> QED
      BY <3>1, <3>2
  <2> HIDE DEF below
  <2> QED
    BY <1>3, <2>1, FS_Subset
<1>5. ASSUME NEW i \in D, NEW j \in D, r[i] = r[j] PROVE i = j
  <2>1. c[i].cell = c[j].cell
    BY <1>1, <1>4, <1>5
  <2> QED
    BY <1>1, <2>1
<1>6. r \in [D -> D]
  BY <1>3
<1> HIDE DEF r, D
<1>7. r \in Injection(D, D)
  BY <1>5, <1>6, Fun_IsInj
<1>8. r \in Surjection(D, D)
  BY <1>2, <1>7, FS_Injection
<1>9. \A k \in D : \E i \in D : r[i] = k
  BY <1>8, Fun_SurjectionProperties
<1> QED
  BY <1>9 DEF r, D

(* Connections in order are the same ones; in the order of input they      *)
(* stay where they are.                                                    *)
LEMMA OrderFacts ==
  ASSUME NEW c \in Lists, NEW how
  PROVE  /\ order(c, how) \in Lists
         /\ View(order(c, how)) = View(c)
         /\ Len(order(c, how)) = Len(c)
         /\ \A i \in DOMAIN order(c, how) : \E j \in DOMAIN c : order(c, how)[i] = c[j]
         /\ \A j \in DOMAIN c : \E i \in DOMAIN order(c, how) : order(c, how)[i] = c[j]
         /\ how # "DEPTH" => order(c, how) = c
<1>1. CASE how # "DEPTH"
  BY <1>1 DEF order
<1>2. CASE how = "DEPTH"
  <2> DEFINE at(k) == CHOOSE i \in DOMAIN c : rank(c, i) = k
             d == [k \in DOMAIN c |-> c[at(k)]]
  <2>1. /\ Len(c) \in Nat
        /\ DOMAIN c = 1 .. Len(c)
        /\ \A i \in DOMAIN c : c[i] \in Connection
        /\ \A i, j \in DOMAIN c : c[i].cell = c[j].cell => i = j
    BY ListFacts
  <2>2. \A k \in DOMAIN c : at(k) \in DOMAIN c /\ rank(c, at(k)) = k
    BY RanksTaken
  <2>3. order(c, how) = d
    BY <1>2 DEF order
  <2>4. \A i \in DOMAIN c : \E k \in DOMAIN c : at(k) = i
    <3> DEFINE D == DOMAIN c
               p == [k \in D |-> at(k)]
    <3>1. IsFiniteSet(D)
      BY <2>1, FS_Interval
    <3>2. p \in [D -> D] /\ \A k, l \in D : p[k] = p[l] => k = l
      BY <2>2
    <3> HIDE DEF D, p
    <3>3. p \in Injection(D, D)
      BY <3>2, Fun_IsInj
    <3>4. p \in Surjection(D, D)
      BY <3>1, <3>3, FS_Injection
    <3>5. \A i \in D : \E k \in D : p[k] = i
      BY <3>4, Fun_SurjectionProperties
    <3> QED
      BY <3>5 DEF p, D
  <2> HIDE DEF at
  <2>5. d = [k \in 1 .. Len(c) |-> d[k]] /\ \A k \in 1 .. Len(c) : d[k] = c[at(k)]
    BY <2>1
  <2>6. \A k, l \in 1 .. Len(c) : d[k].cell = d[l].cell => k = l
    <3>1. ASSUME NEW k \in 1 .. Len(c), NEW l \in 1 .. Len(c), d[k].cell = d[l].cell PROVE k = l
      <4>1. at(k) = at(l)
        BY <2>1, <2>2, <2>5, <3>1
      <4> QED
        BY <2>1, <2>2, <4>1
    <3> QED
      BY <3>1
  <2> HIDE DEF d
  <2>7. d \in Lists /\ Len(d) = Len(c) /\ DOMAIN d = 1 .. Len(c)
    BY <2>1, <2>2, <2>5, <2>6, IsList
  <2>8. /\ \A k \in DOMAIN d : \E i \in DOMAIN c : d[k] = c[i]
        /\ \A i \in DOMAIN c : \E k \in DOMAIN d : d[k] = c[i]
    BY <2>1, <2>2, <2>4, <2>5, <2>7
  <2>9. CellsOf(d) = CellsOf(c)
    BY <2>8 DEF CellsOf
  <2>10. View(d) = View(c)
    <3> DEFINE f == View(c).v
    <3>1. f = [cell \in CellsOf(d) |-> f[cell]]
      BY <2>9 DEF View
    <3>2. \A k \in DOMAIN d : f[d[k].cell] = d[k]
      BY <2>8, ViewFacts
    <3>3. View(c) = [n |-> Len(c), v |-> f]
      BY DEF View
    <3> HIDE DEF f
    <3>4. View(d) = [n |-> Len(d), v |-> f]
      BY <2>7, <3>1, <3>2, ViewIs
    <3> QED
      BY <2>7, <3>3, <3>4
  <2> QED
    BY <1>2, <2>3, <2>7, <2>8, <2>10
<1> QED
  BY <1>1, <1>2

-----------------------------------------------------------------------------
(***************************************************************************)
(* Connections added and replaced, one record at a time.                   *)
(***************************************************************************)

(* A connection in the place of another to the same cell. *)
LEMMA ReplacedFacts ==
  ASSUME NEW c \in Lists, NEW i \in DOMAIN c, NEW x \in Connection, x.cell = c[i].cell
  PROVE  /\ Replaced(c, i, x) \in Lists
         /\ Len(Replaced(c, i, x)) = Len(c)
         /\ DOMAIN Replaced(c, i, x) = DOMAIN c
         /\ \A j \in DOMAIN c : Replaced(c, i, x)[j] = IF j = i THEN x ELSE c[j]
         /\ View(Replaced(c, i, x)) = [n |-> Len(c), v |-> [View(c).v EXCEPT ![x.cell] = x]]
<1>1. /\ Len(c) \in Nat /\ i \in 1 .. Len(c)
      /\ DOMAIN c = 1 .. Len(c)
      /\ \A j \in DOMAIN c : c[j] \in Connection
      /\ \A j, k \in DOMAIN c : c[j].cell = c[k].cell => j = k
      /\ c \in Seq(Connection)
  BY ListFacts
<1> DEFINE d == Replaced(c, i, x)
           head == SubSeq(c, 1, i - 1)
           tail == SubSeq(c, i + 1, Len(c))
<1>2. /\ head \in Seq(Connection) /\ Len(head) = i - 1
      /\ \A j \in 1 .. i - 1 : head[j] = c[j]
  <2>1. i - 1 \in Int /\ \A j \in 1 .. i - 1 : c[j] \in Connection
    BY <1>1
  <2>2. /\ head \in Seq(Connection)
        /\ Len(head) = IF 1 <= i - 1 THEN (i - 1) - 1 + 1 ELSE 0
        /\ \A j \in 1 .. (i - 1) - 1 + 1 : head[j] = c[1 + j - 1]
    BY <2>1, SubSeqProperties
  <2> HIDE DEF head
  <2>3. Len(head) = i - 1
    BY <1>1, <2>2
  <2>4. ASSUME NEW j \in 1 .. i - 1 PROVE head[j] = c[j]
    <3>1. j \in 1 .. (i - 1) - 1 + 1 /\ 1 + j - 1 = j
      BY <1>1
    <3> QED
      BY <2>2, <3>1
  <2> QED
    BY <2>2, <2>3, <2>4
<1>3. /\ tail \in Seq(Connection) /\ Len(tail) = Len(c) - i
      /\ \A j \in 1 .. Len(c) - i : tail[j] = c[i + j]
  <2>1. i + 1 \in Int /\ Len(c) \in Int /\ \A j \in i + 1 .. Len(c) : c[j] \in Connection
    BY <1>1
  <2>2. /\ tail \in Seq(Connection)
        /\ Len(tail) = IF i + 1 <= Len(c) THEN Len(c) - (i + 1) + 1 ELSE 0
        /\ \A j \in 1 .. Len(c) - (i + 1) + 1 : tail[j] = c[(i + 1) + j - 1]
    BY <2>1, SubSeqProperties
  <2> HIDE DEF tail
  <2>3. Len(tail) = Len(c) - i
    BY <1>1, <2>2
  <2>4. ASSUME NEW j \in 1 .. Len(c) - i PROVE tail[j] = c[i + j]
    <3>1. j \in 1 .. Len(c) - (i + 1) + 1 /\ (i + 1) + j - 1 = i + j
      BY <1>1
    <3> QED
      BY <2>2, <3>1
  <2> QED
    BY <2>2, <2>3, <2>4
<1>4. d = (head \o <<x>>) \o tail
  BY DEF Replaced
<1> HIDE DEF head, tail, d
<1>5. /\ head \o <<x>> \in Seq(Connection) /\ Len(head \o <<x>>) = i
      /\ \A j \in 1 .. i : (head \o <<x>>)[j] = IF j = i THEN x ELSE c[j]
  <2>1. <<x>> \in Seq(Connection) /\ Len(<<x>>) = 1 /\ <<x>>[1] = x
    OBVIOUS
  <2>2. /\ head \o <<x>> \in Seq(Connection)
        /\ Len(head \o <<x>>) = Len(head) + Len(<<x>>)
        /\ \A j \in 1 .. Len(head) + Len(<<x>>) :
             (head \o <<x>>)[j] = IF j <= Len(head) THEN head[j] ELSE <<x>>[j - Len(head)]
    BY <1>2, <2>1, ConcatProperties
  <2>3. ASSUME NEW j \in 1 .. i PROVE (head \o <<x>>)[j] = IF j = i THEN x ELSE c[j]
    <3>1. CASE j = i
      <4>1. j - Len(head) = 1 /\ ~(j <= Len(head)) /\ j \in 1 .. Len(head) + Len(<<x>>)
        BY <1>1, <1>2, <2>1, <3>1
      <4>2. (head \o <<x>>)[j] = <<x>>[j - Len(head)]
        BY <2>2, <4>1
      <4> QED
        BY <2>1, <3>1, <4>1, <4>2
    <3>2. CASE j # i
      BY <1>1, <1>2, <2>1, <2>2, <3>2
    <3> QED
      BY <3>1, <3>2
  <2> QED
    BY <1>1, <1>2, <2>1, <2>2, <2>3
<1>6. /\ d \in Seq(Connection) /\ Len(d) = Len(c)
      /\ \A j \in 1 .. Len(c) : d[j] = IF j = i THEN x ELSE c[j]
  <2> DEFINE front == head \o <<x>>
  <2>1. /\ front \in Seq(Connection) /\ Len(front) = i
        /\ \A j \in 1 .. i : front[j] = IF j = i THEN x ELSE c[j]
        /\ d = front \o tail
    BY <1>4, <1>5
  <2> HIDE DEF front
  <2>2. /\ front \o tail \in Seq(Connection)
        /\ Len(front \o tail) = Len(front) + Len(tail)
        /\ \A j \in 1 .. Len(front) + Len(tail) :
             (front \o tail)[j] = IF j <= Len(front) THEN front[j] ELSE tail[j - Len(front)]
    BY <1>3, <2>1, ConcatProperties
  <2>3. ASSUME NEW j \in 1 .. Len(c) PROVE d[j] = IF j = i THEN x ELSE c[j]
    <3>1. CASE j <= i
      BY <1>1, <1>3, <2>1, <2>2, <3>1
    <3>2. CASE j > i
      <4>1. j - i \in 1 .. Len(c) - i /\ i + (j - i) = j
        BY <1>1, <3>2
      <4> QED
        BY <1>1, <1>3, <2>1, <2>2, <3>2, <4>1
    <3> QED
      BY <1>1, <3>1, <3>2
  <2> QED
    BY <1>1, <1>3, <2>1, <2>2, <2>3
<1>7. d \in Lists /\ DOMAIN d = DOMAIN c
  BY <1>1, <1>6 DEF Lists
<1>8. CellsOf(d) = CellsOf(c)
  BY <1>1, <1>6, <1>7 DEF CellsOf
<1>9. View(d) = [n |-> Len(c), v |-> [View(c).v EXCEPT ![x.cell] = x]]
  <2> DEFINE f == [View(c).v EXCEPT ![x.cell] = x]
  <2>1. /\ DOMAIN View(c).v = CellsOf(c)
        /\ \A j \in DOMAIN c : c[j].cell \in CellsOf(c) /\ View(c).v[c[j].cell] = c[j]
    BY ViewFacts
  <2>2. f = [cell \in CellsOf(d) |-> f[cell]]
    BY <1>8, <2>1
  <2>3. ASSUME NEW j \in DOMAIN d PROVE f[d[j].cell] = d[j]
    BY <1>1, <1>6, <1>7, <2>1
  <2> HIDE DEF f
  <2>4. View(d) = [n |-> Len(d), v |-> f]
    BY <1>7, <2>2, <2>3, ViewIs
  <2> QED
    BY <1>6, <2>4 DEF f
<1> QED
  BY <1>1, <1>6, <1>7, <1>9 DEF d

(* A connection to a new cell. *)
LEMMA AddedConnection ==
  ASSUME NEW c \in Lists, NEW cell \in Cells, cell \notin CellsOf(c), NEW state \in States, NEW CF \in Int
  PROVE  LET d == addConnection(c, cell, state, CF)
             x == NewConnection(cell, Len(c) + 1, state, CF)
         IN /\ d \in Lists
            /\ Len(d) = Len(c) + 1
            /\ \A j \in DOMAIN c : j \in DOMAIN d /\ d[j] = c[j]
            /\ d[Len(c) + 1] = x
            /\ x \in Connection
            /\ View(d) = [n |-> Len(c) + 1,
                          v |-> [k \in CellsOf(c) \cup {cell} |-> IF k = cell THEN x ELSE View(c).v[k]]]
<1> DEFINE d == addConnection(c, cell, state, CF)
           x == NewConnection(cell, Len(c) + 1, state, CF)
<1>1. /\ Len(c) \in Nat
      /\ DOMAIN c = 1 .. Len(c)
      /\ \A j \in DOMAIN c : c[j] \in Connection
      /\ \A j, k \in DOMAIN c : c[j].cell = c[k].cell => j = k
      /\ c \in Seq(Connection)
  BY ListFacts
<1>2. x \in Connection /\ x.cell = cell
  BY <1>1 DEF Connection, NewConnection
<1>3. d = Append(c, x)
  BY DEF addConnection
<1> HIDE DEF d, x
<1>4. /\ d \in Seq(Connection)
      /\ Len(d) = Len(c) + 1
      /\ \A j \in 1 .. Len(c) : d[j] = c[j]
      /\ d[Len(c) + 1] = x
  BY <1>1, <1>2, <1>3
<1>5. DOMAIN d = 1 .. Len(c) + 1
  BY <1>1, <1>4
<1>6. \A j \in DOMAIN d : \/ j \in DOMAIN c /\ d[j] = c[j]
                          \/ j = Len(c) + 1 /\ d[j] = x
  BY <1>1, <1>4, <1>5
<1>7. \A j \in DOMAIN c : c[j].cell # cell
  BY DEF CellsOf
<1>8. d \in Lists
  BY <1>1, <1>2, <1>4, <1>6, <1>7 DEF Lists
<1>9. CellsOf(d) = CellsOf(c) \cup {cell}
  <2>1. Len(c) + 1 \in DOMAIN d /\ \A j \in DOMAIN c : j \in DOMAIN d
    BY <1>1, <1>5
  <2> QED
    BY <1>2, <1>1, <1>4, <1>6, <2>1 DEF CellsOf
<1>10. View(d) = [n |-> Len(c) + 1,
                  v |-> [k \in CellsOf(c) \cup {cell} |-> IF k = cell THEN x ELSE View(c).v[k]]]
  <2> DEFINE f == [k \in CellsOf(c) \cup {cell} |-> IF k = cell THEN x ELSE View(c).v[k]]
  <2>1. \A j \in DOMAIN c : c[j].cell \in CellsOf(c) /\ View(c).v[c[j].cell] = c[j]
    BY ViewFacts
  <2>2. f = [k \in CellsOf(d) |-> f[k]]
    BY <1>9
  <2>3. ASSUME NEW j \in DOMAIN d PROVE f[d[j].cell] = d[j]
    <3>1. CASE j \in DOMAIN c /\ d[j] = c[j]
      BY <1>7, <2>1, <3>1
    <3>2. CASE j = Len(c) + 1 /\ d[j] = x
      BY <1>2, <3>2
    <3> QED
      BY <1>6, <3>1, <3>2
  <2> HIDE DEF f
  <2>4. View(d) = [n |-> Len(d), v |-> f]
    BY <1>8, <2>2, <2>3, ViewIs
  <2> QED
    BY <1>4, <2>4 DEF f
<1> QED
  BY <1>1, <1>2, <1>4, <1>5, <1>8, <1>10 DEF d, x

-----------------------------------------------------------------------------
(***************************************************************************)
(* What a COMPDAT record and a fracture do, said of cells.                 *)
(***************************************************************************)
LoadOp(p, a, rec) ==
  [n |-> IF rec.cell \in DOMAIN a.v THEN a.n ELSE a.n + 1,
   v |-> [cell \in DOMAIN a.v \cup {rec.cell} |->
            IF cell # rec.cell THEN a.v[cell]
            ELSE NewConnection(cell, IF cell \in DOMAIN a.v THEN a.v[cell].complnum ELSE a.n + 1,
                               rec.state, rec.CF)]]

FractureOp(p, a, new) ==
  [n |-> IF new.cell \in DOMAIN a.v THEN a.n ELSE a.n + 1,
   v |-> [cell \in DOMAIN a.v \cup {new.cell} |->
            IF cell # new.cell THEN a.v[cell]
            ELSE IF cell \in DOMAIN a.v THEN [a.v[cell] EXCEPT !.CF = Max({@, new.CF})]
            ELSE NewConnection(cell, a.n + 1, "OPEN", new.CF)]]

(* Connections keep their places, new ones come after them. *)
KeepPlaces(c, d) == Len(c) <= Len(d) /\ \A i \in DOMAIN c : i \in DOMAIN d /\ d[i].cell = c[i].cell

(* And they keep their completion numbers and states. *)
SameTasks(c, d) ==
  KeepPlaces(c, d) /\ \A i \in DOMAIN c : d[i].complnum = c[i].complnum /\ d[i].state = c[i].state

(* The larger of two factors. *)
LEMMA LargerOf ==
  ASSUME NEW x \in Int, NEW y \in Int
  PROVE  Max({x, y}) \in Int /\ Max({x, y}) = IF x >= y THEN x ELSE y
<1>1. CASE x >= y
  <2>1. Max({x, y}) = x
    <3>1. \A z \in {x, y} : x >= z
      BY <1>1
    <3>2. \A w \in {x, y} : (\A z \in {x, y} : w >= z) => w = x
      BY <1>1
    <3> QED
      BY <3>1, <3>2 DEF Max
  <2> QED
    BY <1>1, <2>1
<1>2. CASE ~(x >= y)
  <2>1. Max({x, y}) = y
    <3>1. \A z \in {x, y} : y >= z
      BY <1>2
    <3>2. \A w \in {x, y} : (\A z \in {x, y} : w >= z) => w = y
      BY <1>2
    <3> QED
      BY <3>1, <3>2 DEF Max
  <2> QED
    BY <1>2, <2>1
<1> QED
  BY <1>1, <1>2

(* A COMPDAT record. *)
LEMMA LoadFacts ==
  ASSUME NEW c \in Lists, NEW rec \in Record
  PROVE  /\ loadCOMPDAT(c, rec) \in Lists
         /\ View(loadCOMPDAT(c, rec)) = LoadOp(<< >>, View(c), rec)
         /\ KeepPlaces(c, loadCOMPDAT(c, rec))
         /\ \A i \in DOMAIN c : loadCOMPDAT(c, rec)[i] =
              IF c[i].cell = rec.cell THEN NewConnection(rec.cell, c[i].complnum, rec.state, rec.CF) ELSE c[i]
         /\ loadCOMPDAT(c, rec) # << >>
<1>1. rec.cell \in Cells /\ rec.state \in States /\ rec.CF \in Int
  BY DEF Record
<1>2. /\ Len(c) \in Nat
      /\ DOMAIN c = 1 .. Len(c)
      /\ \A j \in DOMAIN c : c[j] \in Connection
      /\ \A j, k \in DOMAIN c : c[j].cell = c[k].cell => j = k
  BY ListFacts
<1>3. /\ View(c).n = Len(c)
      /\ DOMAIN View(c).v = CellsOf(c)
      /\ View(c).v = [k \in CellsOf(c) |-> View(c).v[k]]
  BY ViewFacts DEF IsView
<1>4. CASE rec.cell \notin CellsOf(c)
  <2> DEFINE d == addConnection(c, rec.cell, rec.state, rec.CF)
             x == NewConnection(rec.cell, Len(c) + 1, rec.state, rec.CF)
  <2>1. loadCOMPDAT(c, rec) = d
    BY <1>4, PositionFacts DEF loadCOMPDAT
  <2>2. /\ d \in Lists
        /\ Len(d) = Len(c) + 1
        /\ \A j \in DOMAIN c : j \in DOMAIN d /\ d[j] = c[j]
        /\ View(d) = [n |-> Len(c) + 1,
                      v |-> [k \in CellsOf(c) \cup {rec.cell} |-> IF k = rec.cell THEN x ELSE View(c).v[k]]]
    BY <1>1, <1>4, AddedConnection
  <2>3. LoadOp(<< >>, View(c), rec)
          = [n |-> Len(c) + 1,
             v |-> [k \in CellsOf(c) \cup {rec.cell} |-> IF k = rec.cell THEN x ELSE View(c).v[k]]]
    BY <1>3, <1>4 DEF LoadOp
  <2> HIDE DEF d, x
  <2>4. \A i \in DOMAIN c : c[i].cell # rec.cell
    BY <1>4 DEF CellsOf
  <2>5. KeepPlaces(c, d)
    BY <1>2, <2>2 DEF KeepPlaces
  <2>6. d # << >>
    BY <1>2, <2>2
  <2> QED
    BY <2>1, <2>2, <2>3, <2>4, <2>5, <2>6
<1>5. CASE rec.cell \in CellsOf(c)
  <2>1. PICK i \in DOMAIN c : c[i].cell = rec.cell
    BY <1>5 DEF CellsOf
  <2> DEFINE x == NewConnection(rec.cell, c[i].complnum, rec.state, rec.CF)
             d == Replaced(c, i, x)
  <2>2. Position(c, rec.cell) = i /\ i # 0
    BY <1>2, <2>1, PositionFacts
  <2>3. loadCOMPDAT(c, rec) = d
    BY <2>2 DEF loadCOMPDAT
  <2>4. x \in Connection /\ x.cell = c[i].cell
    BY <1>1, <1>2, <2>1 DEF NewConnection, Connection
  <2>5. LoadOp(<< >>, View(c), rec) = [n |-> Len(c), v |-> [View(c).v EXCEPT ![rec.cell] = x]]
    <3>1. View(c).v[rec.cell] = c[i]
      BY <2>1, ViewFacts
    <3>2. CellsOf(c) \cup {rec.cell} = CellsOf(c)
      BY <1>5
    <3>3. [k \in CellsOf(c) |-> IF k # rec.cell THEN View(c).v[k] ELSE x] = [View(c).v EXCEPT ![rec.cell] = x]
      BY <1>3
    <3>4. [k \in CellsOf(c) |-> IF k # rec.cell THEN View(c).v[k]
                                ELSE NewConnection(k, IF k \in CellsOf(c) THEN View(c).v[k].complnum
                                                      ELSE View(c).n + 1, rec.state, rec.CF)]
            = [k \in CellsOf(c) |-> IF k # rec.cell THEN View(c).v[k] ELSE x]
      BY <3>1
    <3> HIDE DEF x
    <3> QED
      BY <1>3, <1>5, <3>2, <3>3, <3>4 DEF LoadOp
  <2> HIDE DEF x
  <2>6. /\ d \in Lists
        /\ Len(d) = Len(c)
        /\ DOMAIN d = DOMAIN c
        /\ \A j \in DOMAIN c : d[j] = IF j = i THEN x ELSE c[j]
        /\ View(d) = [n |-> Len(c), v |-> [View(c).v EXCEPT ![x.cell] = x]]
    BY <2>4, ReplacedFacts
  <2> HIDE DEF d
  <2>7. \A j \in DOMAIN c : d[j] = IF c[j].cell = rec.cell THEN x ELSE c[j]
    BY <1>2, <2>1, <2>6
  <2>8. KeepPlaces(c, d)
    BY <1>2, <2>4, <2>6 DEF KeepPlaces
  <2>9. d # << >>
    BY <1>2, <2>1, <2>6
  <2>10. \A j \in DOMAIN c : d[j] = IF c[j].cell = rec.cell
                                     THEN NewConnection(rec.cell, c[j].complnum, rec.state, rec.CF) ELSE c[j]
    BY <1>2, <2>1, <2>7 DEF x
  <2>11. View(d) = LoadOp(<< >>, View(c), rec)
    BY <2>1, <2>4, <2>5, <2>6
  <2> QED
    BY <2>3, <2>6, <2>8, <2>9, <2>10, <2>11
<1> QED
  BY <1>4, <1>5

(* A connection of a fracture. *)
LEMMA FractureFacts ==
  ASSUME NEW c \in Lists, NEW new \in [cell : Cells, CF : Int]
  PROVE  /\ withFracture(c, new) \in Lists
         /\ View(withFracture(c, new)) = FractureOp(<< >>, View(c), new)
         /\ SameTasks(c, withFracture(c, new))
<1>1. new.cell \in Cells /\ "OPEN" \in States /\ new.CF \in Int
  BY DEF States
<1>2. /\ Len(c) \in Nat
      /\ DOMAIN c = 1 .. Len(c)
      /\ \A j \in DOMAIN c : c[j] \in Connection
      /\ \A j, k \in DOMAIN c : c[j].cell = c[k].cell => j = k
  BY ListFacts
<1>3. /\ View(c).n = Len(c)
      /\ DOMAIN View(c).v = CellsOf(c)
      /\ View(c).v = [k \in CellsOf(c) |-> View(c).v[k]]
  BY ViewFacts DEF IsView
<1>4. CASE new.cell \notin CellsOf(c)
  <2>1. PICK rec : rec = [cell |-> new.cell, state |-> "OPEN", CF |-> new.CF]
    OBVIOUS
  <2>2. rec \in Record /\ rec.cell = new.cell /\ rec.state = "OPEN" /\ rec.CF = new.CF
    BY <1>1, <2>1 DEF Record
  <2>3. withFracture(c, new) = loadCOMPDAT(c, rec)
    BY <1>4, <2>2, PositionFacts DEF withFracture, loadCOMPDAT
  <2>4. FractureOp(<< >>, View(c), new) = LoadOp(<< >>, View(c), rec)
    BY <1>3, <1>4, <2>2 DEF FractureOp, LoadOp
  <2>5. \A i \in DOMAIN c : c[i].cell # rec.cell
    BY <1>4, <2>2 DEF CellsOf
  <2>6. /\ loadCOMPDAT(c, rec) \in Lists
        /\ View(loadCOMPDAT(c, rec)) = LoadOp(<< >>, View(c), rec)
        /\ KeepPlaces(c, loadCOMPDAT(c, rec))
        /\ \A i \in DOMAIN c : loadCOMPDAT(c, rec)[i] = c[i]
    BY <2>2, <2>5, LoadFacts
  <2>7. SameTasks(c, loadCOMPDAT(c, rec))
    BY <2>6 DEF SameTasks
  <2> QED
    BY <2>3, <2>4, <2>6, <2>7
<1>5. CASE new.cell \in CellsOf(c)
  <2>1. PICK i \in DOMAIN c : c[i].cell = new.cell
    BY <1>5 DEF CellsOf
  <2> DEFINE x == [c[i] EXCEPT !.CF = Max({@, new.CF})]
             d == Replaced(c, i, x)
  <2>2. Position(c, new.cell) = i /\ i # 0
    BY <1>2, <2>1, PositionFacts
  <2>3. withFracture(c, new) = d
    BY <2>2 DEF withFracture
  <2>4. /\ x \in Connection /\ x.cell = c[i].cell
        /\ x.complnum = c[i].complnum /\ x.state = c[i].state
    <3>1. Max({c[i].CF, new.CF}) \in Int
      BY <1>1, <1>2, LargerOf DEF Connection
    <3> QED
      BY <1>2, <3>1 DEF Connection
  <2>5. FractureOp(<< >>, View(c), new) = [n |-> Len(c), v |-> [View(c).v EXCEPT ![new.cell] = x]]
    <3>1. View(c).v[new.cell] = c[i]
      BY <2>1, ViewFacts
    <3>2. CellsOf(c) \cup {new.cell} = CellsOf(c)
      BY <1>5
    <3>3. [k \in CellsOf(c) |-> IF k # new.cell THEN View(c).v[k] ELSE x] = [View(c).v EXCEPT ![new.cell] = x]
      BY <1>3
    <3>4. [k \in CellsOf(c) |-> IF k # new.cell THEN View(c).v[k]
                                ELSE IF k \in CellsOf(c) THEN [View(c).v[k] EXCEPT !.CF = Max({@, new.CF})]
                                ELSE NewConnection(k, View(c).n + 1, "OPEN", new.CF)]
            = [k \in CellsOf(c) |-> IF k # new.cell THEN View(c).v[k] ELSE x]
      BY <3>1
    <3> HIDE DEF x
    <3> QED
      BY <1>3, <1>5, <3>2, <3>3, <3>4 DEF FractureOp
  <2> HIDE DEF x
  <2>6. /\ d \in Lists
        /\ Len(d) = Len(c)
        /\ DOMAIN d = DOMAIN c
        /\ \A j \in DOMAIN c : d[j] = IF j = i THEN x ELSE c[j]
        /\ View(d) = [n |-> Len(c), v |-> [View(c).v EXCEPT ![x.cell] = x]]
    BY <2>4, ReplacedFacts
  <2> HIDE DEF d
  <2>7. SameTasks(c, d)
    BY <1>2, <2>4, <2>6 DEF KeepPlaces, SameTasks
  <2>8. View(d) = FractureOp(<< >>, View(c), new)
    BY <2>1, <2>4, <2>5, <2>6
  <2> QED
    BY <2>3, <2>6, <2>7, <2>8
<1> QED
  BY <1>4, <1>5

-----------------------------------------------------------------------------
(***************************************************************************)
(* What keywords do, said of cells.                                        *)
(***************************************************************************)
NewFracture == [cell : Cells, CF : Int]

EffectKeyword ==
  DeckKeyword \cup ActionKeyword
    \cup [name : {"Scale", "Found"}, factor : Int]
    \cup [name : {"Fracture"}, connections : Seq(NewFracture)]

ListLoadOp(p, c, rec) == loadCOMPDAT(c, rec)
ListFractureOp(p, c, new) == withFracture(c, new)
NoInv(p, k, a) == TRUE

Loading     == INSTANCE Recursion WITH Op <- ListLoadOp, Inv <- NoInv
LoadingView == INSTANCE Recursion WITH Op <- LoadOp, Inv <- NoInv
Growing     == INSTANCE Recursion WITH Op <- ListFractureOp, Inv <- NoInv
GrowingView == INSTANCE Recursion WITH Op <- FractureOp, Inv <- NoInv

(* What a keyword multiplies the factor of a connection by, in the code,   *)
(* where the factors found do not come with a keyword, and in what is said *)
(* with the scaling and without it.                                        *)
Multiplier(mode, kw, x) ==
  IF kw.name = "WPIMULT" /\ x.cell \in kw.cells /\ x.complnum \in kw.complnums THEN kw.WELLPI
  ELSE IF kw.name \in {"Scale", "WELPIRuntime"} \/ (kw.name = "Found" /\ mode = "scaled") THEN kw.factor
  ELSE 0

Touched(mode, kw, x) ==
  [cell     |-> x.cell,
   complnum |-> IF kw.name = "COMPLUMP" /\ x.cell \in kw.cells THEN kw.N ELSE x.complnum,
   state    |-> IF kw.name = "WELOPEN" /\ x.cell \in kw.cells /\ x.complnum \in kw.complnums
                THEN kw.state ELSE x.state,
   CF       |-> x.CF + Multiplier(mode, kw, x),
   subject_to_welpi |-> IF mode = "code" /\ kw.name \in {"WELPI", "WELPIRuntime"} THEN TRUE
                        ELSE x.subject_to_welpi]

Applied(mode, a, kw) ==
  IF kw.name = "COMPDAT" THEN LoadingView!Fold(<< >>, a, kw.records)
  ELSE IF kw.name = "Fracture" THEN GrowingView!Fold(<< >>, a, kw.connections)
  ELSE [n |-> a.n, v |-> [cell \in DOMAIN a.v |-> Touched(mode, kw, a.v[cell])]]

(* What holds of 0, and of each number up to n when it holds of the one    *)
(* before, holds of all of them.                                           *)
LEMMA UpTo ==
  ASSUME NEW n \in Nat, NEW T, 0 \in T, \A k \in 1 .. n : k - 1 \in T => k \in T
  PROVE  (\A k \in 0 .. n : k \in T) /\ n \in T
<1> DEFINE S == {k \in Nat : k <= n => k \in T}
<1>1. 0 \in S
  OBVIOUS
<1>2. ASSUME NEW k \in Nat, k \in S PROVE k + 1 \in S
  <2>1. k + 1 <= n => k + 1 \in 1 .. n /\ (k + 1) - 1 = k
    OBVIOUS
  <2> QED
    BY <1>2, <2>1
<1> HIDE DEF S
<1>3. Nat \subseteq S
  BY <1>1, <1>2, Loading!NatSetInduction
<1> QED
  BY <1>3 DEF S

(* The parts of a keyword. *)
LEMMA KeywordFacts ==
  ASSUME NEW kw \in EffectKeyword
  PROVE  /\ kw.name = "COMPDAT" => kw.records \in Seq(Record)
         /\ kw.name = "Fracture" => kw.connections \in Seq(NewFracture)
         /\ kw.name = "WELOPEN" => kw.state \in States
         /\ kw.name = "WELOPENWell" => kw.status \in States
         /\ kw.name = "COMPLUMP" => kw.N \in Nat \ {0}
         /\ kw.name \in {"WPIMULT", "WPIMULTWell"} => kw.WELLPI \in Int
         /\ kw.name \in {"Scale", "Found", "WELPIRuntime"} => kw.factor \in Int
         /\ kw.name \in {"COMPDAT", "WELOPEN", "WELOPENWell", "COMPLUMP", "WPIMULT", "WPIMULTWell",
                         "WELPI", "WELPIRuntime", "Scale", "Found", "Fracture"}
<1>1. CASE kw \in Keyword
  BY <1>1 DEF Keyword
<1>2. CASE kw \in [name : {"WELPI"}]
  BY <1>2
<1>3. CASE kw \in [name : {"WELPIRuntime"}, factor : Int]
  BY <1>3
<1>4. CASE kw \in [name : {"Scale", "Found"}, factor : Int]
  BY <1>4
<1>5. CASE kw \in [name : {"Fracture"}, connections : Seq(NewFracture)]
  BY <1>5
<1> QED
  BY <1>1, <1>2, <1>3, <1>4, <1>5 DEF EffectKeyword, DeckKeyword, ActionKeyword

(* What a keyword makes of a connection is one to the same cell. *)
LEMMA TouchedFacts ==
  ASSUME NEW mode, NEW kw \in EffectKeyword, NEW x \in Connection
  PROVE  /\ Touched(mode, kw, x) \in Connection
         /\ Touched(mode, kw, x).cell = x.cell
         /\ Multiplier(mode, kw, x) \in Int
<1>1. Multiplier(mode, kw, x) \in Int
  BY KeywordFacts DEF Multiplier
<1> DEFINE m == Multiplier(mode, kw, x)
           N == IF kw.name = "COMPLUMP" /\ x.cell \in kw.cells THEN kw.N ELSE x.complnum
           st == IF kw.name = "WELOPEN" /\ x.cell \in kw.cells /\ x.complnum \in kw.complnums
                 THEN kw.state ELSE x.state
           sub == IF mode = "code" /\ kw.name \in {"WELPI", "WELPIRuntime"} THEN TRUE ELSE x.subject_to_welpi
<1>2. /\ x.cell \in Cells /\ x.complnum \in Nat \ {0} /\ x.state \in States /\ x.CF \in Int
      /\ x.subject_to_welpi \in BOOLEAN
  BY DEF Connection
<1>3. N \in Nat \ {0} /\ st \in States /\ x.CF + m \in Int
  BY <1>1, <1>2, KeywordFacts
<1>5. sub \in BOOLEAN
  BY <1>2
<1>4. Touched(mode, kw, x) = [cell |-> x.cell, complnum |-> N, state |-> st, CF |-> x.CF + m,
                              subject_to_welpi |-> sub]
  BY DEF Touched
<1> HIDE DEF m, N, st, sub
<1> QED
  BY <1>1, <1>2, <1>3, <1>4, <1>5 DEF Connection, m

(* A list whose connections are changed one by one. *)
LEMMA PointwiseView ==
  ASSUME NEW c \in Lists, NEW g,
         \A x \in Connection : g[x] \in Connection /\ g[x].cell = x.cell,
         NEW d, d = [i \in DOMAIN c |-> g[c[i]]]
  PROVE  /\ d \in Lists
         /\ DOMAIN d = DOMAIN c
         /\ Len(d) = Len(c)
         /\ CellsOf(d) = CellsOf(c)
         /\ \A cell \in CellsOf(c) : View(d).v[cell] = g[View(c).v[cell]]
<1>1. /\ Len(c) \in Nat
      /\ DOMAIN c = 1 .. Len(c)
      /\ \A i \in DOMAIN c : c[i] \in Connection
      /\ \A i, j \in DOMAIN c : c[i].cell = c[j].cell => i = j
  BY ListFacts
<1>2. /\ d = [i \in 1 .. Len(c) |-> d[i]]
      /\ \A i \in 1 .. Len(c) : d[i] = g[c[i]] /\ d[i] \in Connection /\ d[i].cell = c[i].cell
  BY <1>1
<1>3. \A i, j \in 1 .. Len(c) : d[i].cell = d[j].cell => i = j
  BY <1>1, <1>2
<1>4. d \in Lists /\ Len(d) = Len(c) /\ DOMAIN d = DOMAIN c
  BY <1>1, <1>2, <1>3, IsList
<1>5. CellsOf(d) = CellsOf(c)
  BY <1>1, <1>2, <1>4 DEF CellsOf
<1> DEFINE f == [cell \in CellsOf(c) |-> g[View(c).v[cell]]]
<1>6. \A i \in DOMAIN c : c[i].cell \in CellsOf(c) /\ View(c).v[c[i].cell] = c[i]
  BY ViewFacts
<1>7. f = [cell \in CellsOf(d) |-> f[cell]]
  BY <1>5
<1>8. ASSUME NEW i \in DOMAIN d PROVE f[d[i].cell] = d[i]
  BY <1>1, <1>2, <1>4, <1>6
<1> HIDE DEF f
<1>9. View(d) = [n |-> Len(d), v |-> f]
  BY <1>4, <1>7, <1>8, ViewIs
<1>10. \A cell \in CellsOf(c) : View(d).v[cell] = g[View(c).v[cell]]
  BY <1>9 DEF f
<1> QED
  BY <1>4, <1>5, <1>10

(* What is said of cells stays that. *)
LEMMA LoadOpIsView ==
  ASSUME NEW a, IsView(a), NEW rec \in Record
  PROVE  IsView(LoadOp(<< >>, a, rec))
<1>1. rec.cell \in Cells /\ rec.state \in States /\ rec.CF \in Int
  BY DEF Record
<1>2. /\ a.n \in Nat
      /\ DOMAIN a.v \subseteq Cells
      /\ \A cell \in DOMAIN a.v : a.v[cell] \in Connection /\ a.v[cell].cell = cell
  BY DEF IsView
<1> DEFINE N == IF rec.cell \in DOMAIN a.v THEN a.v[rec.cell].complnum ELSE a.n + 1
           x == NewConnection(rec.cell, N, rec.state, rec.CF)
           w == [cell \in DOMAIN a.v \cup {rec.cell} |-> IF cell # rec.cell THEN a.v[cell] ELSE x]
           m == IF rec.cell \in DOMAIN a.v THEN a.n ELSE a.n + 1
<1>3. N \in Nat \ {0}
  BY <1>2 DEF Connection
<1>4. LoadOp(<< >>, a, rec) = [n |-> m, v |-> w]
  BY DEF LoadOp
<1> HIDE DEF N
<1>5. x \in Connection /\ x.cell = rec.cell
  BY <1>1, <1>3 DEF NewConnection, Connection
<1>6. m \in Nat
  BY <1>2
<1> HIDE DEF x, m
<1>7. /\ DOMAIN w \subseteq Cells
      /\ w = [cell \in DOMAIN w |-> w[cell]]
      /\ \A cell \in DOMAIN w : w[cell] \in Connection /\ w[cell].cell = cell
  BY <1>1, <1>2, <1>5
<1> HIDE DEF w
<1> QED
  BY <1>4, <1>6, <1>7 DEF IsView

(* The same of a connection of a fracture. *)
LEMMA FractureOpIsView ==
  ASSUME NEW a, IsView(a), NEW new \in NewFracture
  PROVE  IsView(FractureOp(<< >>, a, new))
<1>1. new.cell \in Cells /\ new.CF \in Int
  BY DEF NewFracture
<1>2. /\ a.n \in Nat
      /\ DOMAIN a.v \subseteq Cells
      /\ \A cell \in DOMAIN a.v : a.v[cell] \in Connection /\ a.v[cell].cell = cell
  BY DEF IsView
<1> DEFINE x == IF new.cell \in DOMAIN a.v THEN [a.v[new.cell] EXCEPT !.CF = Max({@, new.CF})]
                ELSE NewConnection(new.cell, a.n + 1, "OPEN", new.CF)
           w == [cell \in DOMAIN a.v \cup {new.cell} |-> IF cell # new.cell THEN a.v[cell] ELSE x]
           m == IF new.cell \in DOMAIN a.v THEN a.n ELSE a.n + 1
<1>3. x \in Connection /\ x.cell = new.cell
  <2>1. CASE new.cell \in DOMAIN a.v
    <3>1. Max({a.v[new.cell].CF, new.CF}) \in Int
      BY <1>1, <1>2, <2>1, LargerOf DEF Connection
    <3> QED
      BY <1>2, <2>1, <3>1 DEF Connection
  <2>2. CASE new.cell \notin DOMAIN a.v
    BY <1>1, <1>2, <2>2 DEF NewConnection, Connection, States
  <2> QED
    BY <2>1, <2>2
<1>4. FractureOp(<< >>, a, new) = [n |-> m, v |-> w]
  BY DEF FractureOp
<1>5. m \in Nat
  BY <1>2
<1> HIDE DEF x, m
<1>6. /\ DOMAIN w \subseteq Cells
      /\ w = [cell \in DOMAIN w |-> w[cell]]
      /\ \A cell \in DOMAIN w : w[cell] \in Connection /\ w[cell].cell = cell
  BY <1>1, <1>2, <1>3
<1> HIDE DEF w
<1> QED
  BY <1>4, <1>5, <1>6 DEF IsView

(* The same of any keyword. *)
LEMMA AppliedIsView ==
  ASSUME NEW mode, NEW a, IsView(a), NEW kw \in EffectKeyword
  PROVE  IsView(Applied(mode, a, kw))
<1>1. CASE kw.name = "COMPDAT"
  <2> DEFINE rs == kw.records
  <2>1. rs \in Seq(Record)
    BY <1>1, KeywordFacts
  <2> HIDE DEF rs
  <2>2. PICK F : /\ F[0] = a
                 /\ \A k \in 1 .. Len(rs) : F[k] = LoadOp(<< >>, F[k - 1], rs[k])
                 /\ LoadingView!Fold(<< >>, a, rs) = F[Len(rs)]
    BY <2>1, LoadingView!FoldRuns
  <2> DEFINE T == {k \in 0 .. Len(rs) : IsView(F[k])}
  <2>3. Len(rs) \in Nat /\ 0 \in T
    BY <2>1, <2>2
  <2>4. \A k \in 1 .. Len(rs) : k - 1 \in T => k \in T
    BY <2>1, <2>2, LoadOpIsView
  <2>5. Len(rs) \in T
    <3> HIDE DEF T
    <3> QED
      BY <2>3, <2>4, UpTo
  <2>6. IsView(LoadingView!Fold(<< >>, a, rs))
    BY <2>2, <2>5
  <2> QED
    BY <1>1, <2>6 DEF Applied, rs
<1>2. CASE kw.name = "Fracture"
  <2> DEFINE rs == kw.connections
  <2>1. rs \in Seq(NewFracture)
    BY <1>2, KeywordFacts
  <2> HIDE DEF rs
  <2>2. PICK F : /\ F[0] = a
                 /\ \A k \in 1 .. Len(rs) : F[k] = FractureOp(<< >>, F[k - 1], rs[k])
                 /\ GrowingView!Fold(<< >>, a, rs) = F[Len(rs)]
    BY <2>1, GrowingView!FoldRuns
  <2> DEFINE T == {k \in 0 .. Len(rs) : IsView(F[k])}
  <2>3. Len(rs) \in Nat /\ 0 \in T
    BY <2>1, <2>2
  <2>4. \A k \in 1 .. Len(rs) : k - 1 \in T => k \in T
    BY <2>1, <2>2, FractureOpIsView
  <2>5. Len(rs) \in T
    <3> HIDE DEF T
    <3> QED
      BY <2>3, <2>4, UpTo
  <2>6. IsView(GrowingView!Fold(<< >>, a, rs))
    BY <2>2, <2>5
  <2> QED
    BY <1>2, <2>6 DEF Applied, rs
<1>3. CASE kw.name \notin {"COMPDAT", "Fracture"}
  <2> DEFINE w == [cell \in DOMAIN a.v |-> Touched(mode, kw, a.v[cell])]
  <2>1. /\ a.n \in Nat
        /\ DOMAIN a.v \subseteq Cells
        /\ \A cell \in DOMAIN a.v : a.v[cell] \in Connection /\ a.v[cell].cell = cell
    BY DEF IsView
  <2>2. Applied(mode, a, kw) = [n |-> a.n, v |-> w]
    BY <1>3 DEF Applied
  <2>3. /\ DOMAIN w \subseteq Cells
        /\ w = [cell \in DOMAIN w |-> w[cell]]
        /\ \A cell \in DOMAIN w : w[cell] \in Connection /\ w[cell].cell = cell
    BY <2>1, TouchedFacts
  <2> HIDE DEF w
  <2> QED
    BY <2>1, <2>2, <2>3 DEF IsView
<1> QED
  BY <1>1, <1>2, <1>3

(* Lists keep their places along a chain of changes. *)
LEMMA KeepPlacesOn ==
  ASSUME NEW c \in Lists, NEW d \in Lists, NEW e \in Lists
  PROVE  /\ KeepPlaces(c, c) /\ SameTasks(c, c)
         /\ KeepPlaces(c, d) /\ KeepPlaces(d, e) => KeepPlaces(c, e)
         /\ SameTasks(c, d) /\ SameTasks(d, e) => SameTasks(c, e)
         /\ SameTasks(c, d) => KeepPlaces(c, d)
<1>1. Len(c) \in Nat /\ Len(d) \in Nat /\ Len(e) \in Nat
  BY ListFacts
<1> QED
  BY <1>1 DEF KeepPlaces, SameTasks

(* The records of a COMPDAT, one after the other. *)
LEMMA Loaded ==
  ASSUME NEW c \in Lists, NEW rs \in Seq(Record)
  PROVE  /\ FoldLeft(loadCOMPDAT, c, rs) \in Lists
         /\ View(FoldLeft(loadCOMPDAT, c, rs)) = LoadingView!Fold(<< >>, View(c), rs)
<1>1. PICK G : /\ G[0] = View(c)
               /\ \A k \in 1 .. Len(rs) : G[k] = LoadOp(<< >>, G[k - 1], rs[k])
               /\ LoadingView!Fold(<< >>, View(c), rs) = G[Len(rs)]
  BY LoadingView!FoldRuns
<1>2. PICK F : /\ F[0] = c
               /\ \A k \in 1 .. Len(rs) : F[k] = ListLoadOp(<< >>, F[k - 1], rs[k])
               /\ Loading!Fold(<< >>, c, rs) = F[Len(rs)]
  BY Loading!FoldRuns
<1> DEFINE T == {k \in 0 .. Len(rs) : F[k] \in Lists /\ View(F[k]) = G[k]}
<1>3. Len(rs) \in Nat /\ 0 \in T
  BY <1>1, <1>2
<1>4. ASSUME NEW k \in 1 .. Len(rs), k - 1 \in T PROVE k \in T
  <2>1. rs[k] \in Record
    OBVIOUS
  <2> QED
    BY <1>1, <1>2, <1>4, <2>1, LoadFacts DEF ListLoadOp
<1>5. Len(rs) \in T
  <2> HIDE DEF T
  <2> QED
    BY <1>3, <1>4, UpTo
<1>6. FoldLeft(loadCOMPDAT, c, rs) = Loading!Fold(<< >>, c, rs)
  BY DEF Loading!Fold, ListLoadOp, FoldLeft, MapThenFoldSet, Loading!MapThenFoldSet, Max, Loading!Max
<1> QED
  BY <1>1, <1>2, <1>5, <1>6

(* The connections of a fracture, one after the other. *)
LEMMA Grown ==
  ASSUME NEW c \in Lists, NEW rs \in Seq(NewFracture)
  PROVE  /\ FoldLeft(withFracture, c, rs) \in Lists
         /\ View(FoldLeft(withFracture, c, rs)) = GrowingView!Fold(<< >>, View(c), rs)
         /\ SameTasks(c, FoldLeft(withFracture, c, rs))
<1>1. PICK G : /\ G[0] = View(c)
               /\ \A k \in 1 .. Len(rs) : G[k] = FractureOp(<< >>, G[k - 1], rs[k])
               /\ GrowingView!Fold(<< >>, View(c), rs) = G[Len(rs)]
  BY GrowingView!FoldRuns
<1>2. PICK F : /\ F[0] = c
               /\ \A k \in 1 .. Len(rs) : F[k] = ListFractureOp(<< >>, F[k - 1], rs[k])
               /\ Growing!Fold(<< >>, c, rs) = F[Len(rs)]
  BY Growing!FoldRuns
<1> DEFINE T == {k \in 0 .. Len(rs) : F[k] \in Lists /\ View(F[k]) = G[k] /\ SameTasks(c, F[k])}
<1>3. Len(rs) \in Nat /\ 0 \in T
  BY <1>1, <1>2, KeepPlacesOn
<1>4. ASSUME NEW k \in 1 .. Len(rs), k - 1 \in T PROVE k \in T
  <2>1. rs[k] \in NewFracture
    OBVIOUS
  <2>2. F[k] = withFracture(F[k - 1], rs[k]) /\ F[k - 1] \in Lists
    BY <1>2, <1>4 DEF ListFractureOp
  <2>3. /\ F[k] \in Lists
        /\ View(F[k]) = FractureOp(<< >>, View(F[k - 1]), rs[k])
        /\ SameTasks(F[k - 1], F[k])
    BY <2>1, <2>2, FractureFacts DEF NewFracture
  <2>4. SameTasks(c, F[k])
    BY <1>4, <2>2, <2>3, KeepPlacesOn
  <2> QED
    BY <1>1, <1>4, <2>3, <2>4
<1>5. Len(rs) \in T
  <2> HIDE DEF T
  <2> QED
    BY <1>3, <1>4, UpTo
<1>6. FoldLeft(withFracture, c, rs) = Growing!Fold(<< >>, c, rs)
  BY DEF Growing!Fold, ListFractureOp, FoldLeft, MapThenFoldSet, Growing!MapThenFoldSet, Max, Growing!Max
<1> QED
  BY <1>1, <1>2, <1>5, <1>6

-----------------------------------------------------------------------------
(***************************************************************************)
(* What the handlers and the history make of a list is what the keyword    *)
(* does to its cells.                                                      *)
(***************************************************************************)
TouchedAll(mode, kw, c) == [i \in DOMAIN c |-> Touched(mode, kw, c[i])]

(* All but COMPDAT and a fracture change the connections that are there.   *)
LEMMA TouchedAllFacts ==
  ASSUME NEW mode, NEW kw \in EffectKeyword, kw.name \notin {"COMPDAT", "Fracture"}, NEW c \in Lists
  PROVE  /\ TouchedAll(mode, kw, c) \in Lists
         /\ View(TouchedAll(mode, kw, c)) = Applied(mode, View(c), kw)
         /\ KeepPlaces(c, TouchedAll(mode, kw, c))
         /\ kw.name \notin {"WELOPEN", "COMPLUMP"} => SameTasks(c, TouchedAll(mode, kw, c))
<1> DEFINE g == [x \in Connection |-> Touched(mode, kw, x)]
           d == TouchedAll(mode, kw, c)
<1>1. /\ Len(c) \in Nat
      /\ DOMAIN c = 1 .. Len(c)
      /\ \A i \in DOMAIN c : c[i] \in Connection
  BY ListFacts
<1>2. d = [i \in DOMAIN c |-> g[c[i]]]
  BY <1>1 DEF TouchedAll
<1>3. \A x \in Connection : g[x] = Touched(mode, kw, x) /\ g[x] \in Connection /\ g[x].cell = x.cell
  BY TouchedFacts
<1> HIDE DEF g, d
<1>4. /\ d \in Lists
      /\ DOMAIN d = DOMAIN c
      /\ Len(d) = Len(c)
      /\ CellsOf(d) = CellsOf(c)
      /\ \A cell \in CellsOf(c) : View(d).v[cell] = g[View(c).v[cell]]
  <2>1. \A x \in Connection : g[x] \in Connection /\ g[x].cell = x.cell
    BY <1>3
  <2> QED
    BY <1>2, <2>1, PointwiseView
<1>5. /\ View(d) = [n |-> View(d).n, v |-> View(d).v]
      /\ View(d).n = Len(c) /\ View(c).n = Len(c)
      /\ View(d).v = [cell \in CellsOf(c) |-> View(d).v[cell]]
      /\ DOMAIN View(c).v = CellsOf(c)
      /\ \A cell \in CellsOf(c) : View(c).v[cell] \in Connection
  <2>1. IsView(View(d)) /\ View(d).n = Len(d) /\ DOMAIN View(d).v = CellsOf(d)
    BY <1>4, ViewFacts
  <2>2. IsView(View(c)) /\ View(c).n = Len(c) /\ DOMAIN View(c).v = CellsOf(c)
    BY ViewFacts
  <2>3. View(d) = [n |-> View(d).n, v |-> View(d).v] /\ View(d).v = [cell \in DOMAIN View(d).v |-> View(d).v[cell]]
    BY ONLY <2>1 DEF IsView
  <2>4. \A cell \in CellsOf(c) : View(c).v[cell] \in Connection
    BY ONLY <2>2 DEF IsView
  <2> QED
    BY <1>4, <2>1, <2>2, <2>3, <2>4
<1>6. View(d) = Applied(mode, View(c), kw)
  <2>1. \A cell \in CellsOf(c) : View(d).v[cell] = Touched(mode, kw, View(c).v[cell])
    BY <1>3, <1>4, <1>5
  <2>2. View(d).v = [cell \in CellsOf(c) |-> Touched(mode, kw, View(c).v[cell])]
    BY <1>5, <2>1
  <2>3. Applied(mode, View(c), kw)
          = [n |-> View(c).n, v |-> [cell \in DOMAIN View(c).v |-> Touched(mode, kw, View(c).v[cell])]]
    BY DEF Applied
  <2> QED
    BY ONLY <1>5, <2>2, <2>3
<1>7. KeepPlaces(c, d)
  BY <1>1, <1>2, <1>3, <1>4 DEF KeepPlaces
<1>8. ASSUME kw.name \notin {"WELOPEN", "COMPLUMP"} PROVE SameTasks(c, d)
  <2>1. \A i \in DOMAIN c : d[i] = Touched(mode, kw, c[i])
    BY <1>1, <1>2, <1>3
  <2>2. ASSUME NEW x PROVE Touched(mode, kw, x).complnum = x.complnum /\ Touched(mode, kw, x).state = x.state
    BY ONLY <1>8 DEF Touched
  <2>3. \A i \in DOMAIN c : d[i].complnum = c[i].complnum /\ d[i].state = c[i].state
    BY ONLY <2>1, <2>2
  <2> QED
    BY <1>7, <2>3 DEF SameTasks
<1> QED
  BY <1>4, <1>6, <1>7, <1>8 DEF d

(* The fields of a connection are all that there is. *)
LEMMA ConnectionIs ==
  ASSUME NEW x \in Connection
  PROVE  /\ x = [cell |-> x.cell, complnum |-> x.complnum, state |-> x.state, CF |-> x.CF,
                 subject_to_welpi |-> x.subject_to_welpi]
         /\ x.CF \in Int /\ x.CF + 0 = x.CF
         /\ x.subject_to_welpi \in BOOLEAN
         /\ x.cell \in Cells /\ x.complnum \in Nat \ {0} /\ x.state \in States
BY DEF Connection

(* A field of a connection changed. *)
LEMMA ConnectionWith ==
  ASSUME NEW x \in Connection, NEW new
  PROVE  /\ [x EXCEPT !.state = new]
              = [cell |-> x.cell, complnum |-> x.complnum, state |-> new, CF |-> x.CF,
                 subject_to_welpi |-> x.subject_to_welpi]
         /\ [x EXCEPT !.complnum = new]
              = [cell |-> x.cell, complnum |-> new, state |-> x.state, CF |-> x.CF,
                 subject_to_welpi |-> x.subject_to_welpi]
         /\ [x EXCEPT !.CF = new]
              = [cell |-> x.cell, complnum |-> x.complnum, state |-> x.state, CF |-> new,
                 subject_to_welpi |-> x.subject_to_welpi]
         /\ [x EXCEPT !.subject_to_welpi = new]
              = [cell |-> x.cell, complnum |-> x.complnum, state |-> x.state, CF |-> x.CF,
                 subject_to_welpi |-> new]
BY ConnectionIs

(* What the handlers do to a list. *)
LEMMA HandlerTouches ==
  ASSUME NEW mode, NEW kw \in EffectKeyword, NEW c \in Lists
  PROVE  /\ kw.name = "WELOPEN" => handleWELOPENConnections(c, kw) = TouchedAll(mode, kw, c)
         /\ kw.name = "COMPLUMP" => handleCOMPLUMP(c, kw) = TouchedAll(mode, kw, c)
         /\ kw.name = "WPIMULT" => handleWPIMULT(c, kw) = TouchedAll(mode, kw, c)
         /\ kw.name = "Scale" \/ (kw.name = "WELPIRuntime" /\ mode # "code")
              \/ (kw.name = "Found" /\ mode = "scaled") =>
              applyGlobalWPIMULT(c, kw.factor) = TouchedAll(mode, kw, c)
         /\ kw.name = "WELPI" /\ mode = "code" => prepareWellPIScaling(c) = TouchedAll(mode, kw, c)
         /\ kw.name = "WELPIRuntime" /\ mode = "code" =>
              applyWellPIScaling(prepareWellPIScaling(c), kw.factor, << >>) = TouchedAll(mode, kw, c)
         /\ kw.name \in {"WELOPENWell", "WPIMULTWell"} \/ (kw.name = "WELPI" /\ mode # "code")
              \/ (kw.name = "Found" /\ mode # "scaled") =>
              TouchedAll(mode, kw, c) = c
<1>1. /\ Len(c) \in Nat
      /\ DOMAIN c = 1 .. Len(c)
      /\ \A i \in DOMAIN c : c[i] \in Connection
      /\ c = [i \in DOMAIN c |-> c[i]]
  BY ListFacts
<1>2. CASE kw.name = "WELOPEN"
  <2>0. ASSUME NEW x \in Connection
        PROVE  Touched(mode, kw, x) = IF x.cell \in kw.cells /\ x.complnum \in kw.complnums THEN [x EXCEPT !.state = kw.state] ELSE x
    <3>1. Multiplier(mode, kw, x) = 0
      BY ONLY <1>2 DEF Multiplier
    <3>2. x \in Connection
      OBVIOUS
    <3> QED
      BY ONLY <1>2, <3>1, <3>2, ConnectionIs DEF Touched
  <2>1. \A i \in DOMAIN c : (IF i \in Matching(c, kw) THEN [c[i] EXCEPT !.state = kw.state] ELSE c[i])
                              = Touched(mode, kw, c[i])
    BY <1>1, <2>0 DEF Matching
  <2> QED
    BY <1>2, <2>1 DEF handleWELOPENConnections, TouchedAll
<1>3. CASE kw.name = "COMPLUMP"
  <2>0. ASSUME NEW x \in Connection
        PROVE  Touched(mode, kw, x) = IF x.cell \in kw.cells THEN [x EXCEPT !.complnum = kw.N] ELSE x
    <3>1. Multiplier(mode, kw, x) = 0
      BY ONLY <1>3 DEF Multiplier
    <3>2. x \in Connection
      OBVIOUS
    <3> QED
      BY ONLY <1>3, <3>1, <3>2, ConnectionIs DEF Touched
  <2>1. \A i \in DOMAIN c : (IF c[i].cell \in kw.cells THEN [c[i] EXCEPT !.complnum = kw.N] ELSE c[i])
                              = Touched(mode, kw, c[i])
    BY <1>1, <2>0
  <2> QED
    BY <1>3, <2>1 DEF handleCOMPLUMP, TouchedAll
<1>4. CASE kw.name = "WPIMULT"
  <2>0. ASSUME NEW x \in Connection
        PROVE  Touched(mode, kw, x) = IF x.cell \in kw.cells /\ x.complnum \in kw.complnums THEN [x EXCEPT !.CF = x.CF + kw.WELLPI] ELSE x
    <3>1. Multiplier(mode, kw, x) = IF x.cell \in kw.cells /\ x.complnum \in kw.complnums THEN kw.WELLPI ELSE 0
      BY ONLY <1>4 DEF Multiplier
    <3>2. x \in Connection
      OBVIOUS
    <3> QED
      BY ONLY <1>4, <3>1, <3>2, ConnectionIs DEF Touched
  <2>1. \A i \in DOMAIN c : (IF i \in Matching(c, kw) THEN [c[i] EXCEPT !.CF = @ + kw.WELLPI] ELSE c[i])
                              = Touched(mode, kw, c[i])
    BY <1>1, <2>0 DEF Matching
  <2> QED
    BY <1>4, <2>1 DEF handleWPIMULT, TouchedAll
<1>5. CASE kw.name = "Scale" \/ (kw.name = "WELPIRuntime" /\ mode # "code")
              \/ (kw.name = "Found" /\ mode = "scaled")
  <2>0. ASSUME NEW x \in Connection
        PROVE  Touched(mode, kw, x) = [x EXCEPT !.CF = x.CF + kw.factor]
    <3>1. Multiplier(mode, kw, x) = kw.factor /\ x.CF + 0 = x.CF
      BY <1>5, ConnectionIs DEF Multiplier
    <3>2. Touched(mode, kw, x) = [cell |-> x.cell, complnum |-> x.complnum, state |-> x.state, CF |-> x.CF + kw.factor,
                              subject_to_welpi |-> x.subject_to_welpi]
      BY ONLY <1>5, <3>1 DEF Touched
    <3>3. [x EXCEPT !.CF = x.CF + kw.factor] = [cell |-> x.cell, complnum |-> x.complnum, state |-> x.state, CF |-> x.CF + kw.factor,
                              subject_to_welpi |-> x.subject_to_welpi]
      BY ONLY x \in Connection, ConnectionWith, Zenon
    <3> QED
      BY ONLY <3>2, <3>3
  <2>1. \A i \in DOMAIN c : [c[i] EXCEPT !.CF = @ + kw.factor] = Touched(mode, kw, c[i])
    BY <1>1, <2>0
  <2> QED
    BY <1>5, <2>1 DEF applyGlobalWPIMULT, TouchedAll
<1>6. CASE kw.name = "WELPI" /\ mode = "code"
  <2>0. ASSUME NEW x \in Connection
        PROVE  Touched(mode, kw, x) = [x EXCEPT !.subject_to_welpi = TRUE]
    <3>1. Multiplier(mode, kw, x) = 0 /\ x.CF + 0 = x.CF
      BY <1>6, ConnectionIs DEF Multiplier
    <3>2. Touched(mode, kw, x) = [cell |-> x.cell, complnum |-> x.complnum, state |-> x.state, CF |-> x.CF,
                              subject_to_welpi |-> TRUE]
      BY ONLY <1>6, <3>1 DEF Touched
    <3>3. [x EXCEPT !.subject_to_welpi = TRUE] = [cell |-> x.cell, complnum |-> x.complnum, state |-> x.state, CF |-> x.CF,
                              subject_to_welpi |-> TRUE]
      BY ONLY x \in Connection, ConnectionWith, Zenon
    <3> QED
      BY ONLY <3>2, <3>3
  <2>1. \A i \in DOMAIN c : [c[i] EXCEPT !.subject_to_welpi = TRUE] = Touched(mode, kw, c[i])
    BY <1>1, <2>0
  <2> QED
    BY <1>6, <2>1 DEF prepareWellPIScaling, TouchedAll
<1>7. CASE kw.name = "WELPIRuntime" /\ mode = "code"
  <2> DEFINE d == [i \in DOMAIN c |-> [c[i] EXCEPT !.subject_to_welpi = TRUE]]
             e == [i \in DOMAIN d |-> IF i \in scaledPositions(d, << >>)
                                      THEN [d[i] EXCEPT !.CF = @ + kw.factor] ELSE d[i]]
  <2>1. applyWellPIScaling(prepareWellPIScaling(c), kw.factor, << >>) = e
    BY DEF applyWellPIScaling, prepareWellPIScaling
  <2>2. DOMAIN d = DOMAIN c /\ \A i \in DOMAIN c : d[i] = [c[i] EXCEPT !.subject_to_welpi = TRUE]
    OBVIOUS
  <2>3. \A i \in DOMAIN c : d[i].subject_to_welpi /\ d[i].CF = c[i].CF
    BY <1>1, <2>2, ConnectionIs
  <2>4. DOMAIN << >> = {}
    OBVIOUS
  <2> HIDE DEF d
  <2>5. \A i \in DOMAIN c : i \in scaledPositions(d, << >>)
    BY <2>2, <2>3, <2>4 DEF scaledPositions
  <2>6. \A i \in DOMAIN c : e[i] = [[c[i] EXCEPT !.subject_to_welpi = TRUE] EXCEPT !.CF = c[i].CF + kw.factor]
    BY <2>2, <2>3, <2>5
  <2>7. DOMAIN e = DOMAIN c /\ e = [i \in DOMAIN e |-> e[i]]
    BY <2>2
  <2> HIDE DEF e
  <2>0. ASSUME NEW x \in Connection
        PROVE  Touched(mode, kw, x) = [[x EXCEPT !.subject_to_welpi = TRUE] EXCEPT !.CF = x.CF + kw.factor]
    <3>1. Multiplier(mode, kw, x) = kw.factor
      BY ONLY <1>7 DEF Multiplier
    <3>2. Touched(mode, kw, x) = [cell |-> x.cell, complnum |-> x.complnum, state |-> x.state, CF |-> x.CF + kw.factor,
                              subject_to_welpi |-> TRUE]
      BY ONLY <1>7, <3>1 DEF Touched
    <3>3. PICK y : y = [x EXCEPT !.subject_to_welpi = TRUE]
      OBVIOUS
    <3>4. y = [cell |-> x.cell, complnum |-> x.complnum, state |-> x.state, CF |-> x.CF,
               subject_to_welpi |-> TRUE]
      BY <3>3, ConnectionWith, Zenon
    <3>6. y \in Connection /\ y.subject_to_welpi = TRUE
      BY <3>4, ConnectionIs DEF Connection
    <3>7. y.cell = x.cell /\ y.complnum = x.complnum /\ y.state = x.state
      BY ONLY <3>4
    <3>8. [y EXCEPT !.CF = x.CF + kw.factor]
            = [cell |-> y.cell, complnum |-> y.complnum, state |-> y.state, CF |-> x.CF + kw.factor,
               subject_to_welpi |-> y.subject_to_welpi]
      BY ONLY <3>6, ConnectionWith
    <3> QED
      BY ONLY <3>2, <3>3, <3>6, <3>7, <3>8, Zenon
  <2>8. \A i \in DOMAIN c : e[i] = Touched(mode, kw, c[i])
    BY <1>1, <2>0, <2>6
  <2>9. e = TouchedAll(mode, kw, c)
    BY <2>7, <2>8 DEF TouchedAll
  <2> QED
    BY <1>7, <2>1, <2>9
<1>8. CASE kw.name \in {"WELOPENWell", "WPIMULTWell"} \/ (kw.name = "WELPI" /\ mode # "code")
              \/ (kw.name = "Found" /\ mode # "scaled")
  <2>0. ASSUME NEW x \in Connection
        PROVE  Touched(mode, kw, x) = x
    <3>1. Multiplier(mode, kw, x) = 0 /\ x.CF + 0 = x.CF
      BY <1>8, ConnectionIs DEF Multiplier
    <3>2. Touched(mode, kw, x) = [cell |-> x.cell, complnum |-> x.complnum, state |-> x.state, CF |-> x.CF,
                              subject_to_welpi |-> x.subject_to_welpi]
      BY ONLY <1>8, <3>1 DEF Touched
    <3>3. x = [cell |-> x.cell, complnum |-> x.complnum, state |-> x.state, CF |-> x.CF,
                              subject_to_welpi |-> x.subject_to_welpi]
      BY ONLY x \in Connection, ConnectionIs
    <3> QED
      BY ONLY <3>2, <3>3
  <2>1. \A i \in DOMAIN c : c[i] = Touched(mode, kw, c[i])
    BY <1>1, <2>0
  <2>2. [i \in DOMAIN c |-> c[i]] = [i \in DOMAIN c |-> Touched(mode, kw, c[i])]
    BY <2>1
  <2> QED
    BY <1>1, <1>8, <2>2 DEF TouchedAll
<1> QED
  BY <1>2, <1>3, <1>4, <1>5, <1>6, <1>7, <1>8

Mode(scaled) == IF scaled THEN "scaled" ELSE "unscaled"

(* The history of a keyword, with or without scaling. *)
LEMMA EffectFacts ==
  ASSUME NEW scaled \in BOOLEAN, NEW c \in Lists, NEW kw \in EffectKeyword
  PROVE  /\ Effect(scaled, c, kw) \in Lists
         /\ View(Effect(scaled, c, kw)) = Applied(Mode(scaled), View(c), kw)
<1> DEFINE m == Mode(scaled)
<1>0. m # "code" /\ (scaled <=> m = "scaled")
  BY DEF Mode
<1> HIDE DEF m
<1>1. CASE kw.name = "COMPDAT"
  <2>1. Effect(scaled, c, kw) = FoldLeft(loadCOMPDAT, c, kw.records)
    BY <1>1 DEF Effect
  <2> QED
    BY <1>1, <2>1, KeywordFacts, Loaded DEF Applied
<1>2. CASE kw.name = "Fracture"
  <2>1. Effect(scaled, c, kw) = FoldLeft(withFracture, c, kw.connections)
    BY <1>2 DEF Effect
  <2> QED
    BY <1>2, <2>1, KeywordFacts, Grown DEF Applied
<1>3. CASE kw.name \notin {"COMPDAT", "Fracture"}
  <2>1. kw.name \in {"WELOPEN", "WELOPENWell", "COMPLUMP", "WPIMULT", "WPIMULTWell",
                     "WELPI", "WELPIRuntime", "Scale", "Found"}
    BY <1>3, KeywordFacts
  <2>2. ASSUME kw.name = "WELOPEN" PROVE Effect(scaled, c, kw) = TouchedAll(m, kw, c)
    BY <2>2, HandlerTouches DEF Effect
  <2>3. ASSUME kw.name = "COMPLUMP" PROVE Effect(scaled, c, kw) = TouchedAll(m, kw, c)
    BY <2>3, HandlerTouches DEF Effect
  <2>4. ASSUME kw.name = "WPIMULT" PROVE Effect(scaled, c, kw) = TouchedAll(m, kw, c)
    BY <2>4, HandlerTouches DEF Effect
  <2>5. ASSUME kw.name \in {"Scale", "WELPIRuntime"} PROVE Effect(scaled, c, kw) = TouchedAll(m, kw, c)
    BY <1>0, <2>5, HandlerTouches DEF Effect
  <2>6. ASSUME kw.name = "Found" PROVE Effect(scaled, c, kw) = TouchedAll(m, kw, c)
    BY <1>0, <2>6, HandlerTouches DEF Effect
  <2>7. ASSUME kw.name \in {"WELOPENWell", "WPIMULTWell", "WELPI"} PROVE Effect(scaled, c, kw) = TouchedAll(m, kw, c)
    BY <1>0, <2>7, HandlerTouches DEF Effect
  <2>8. Effect(scaled, c, kw) = TouchedAll(m, kw, c)
    BY ONLY <2>1, <2>2, <2>3, <2>4, <2>5, <2>6, <2>7
  <2> QED
    BY <1>3, <2>8, TouchedAllFacts DEF m
<1> QED
  BY <1>1, <1>2, <1>3

-----------------------------------------------------------------------------
(***************************************************************************)
(* Handling one keyword.                                                   *)
(***************************************************************************)

(* What the handlers work on. *)
IsWork(h) ==
  /\ h = [well |-> h.well, open_requests |-> h.open_requests, welpi |-> h.welpi, objects |-> h.objects,
          step |-> h.step, pending |-> h.pending, wpimult_global_factor |-> h.wpimult_global_factor]
  /\ h.well = [connections |-> h.well.connections, status |-> h.well.status]
  /\ h.well.connections \in Steps /\ h.well.status \in States
  /\ h.step \in Steps /\ h.well.connections <= h.step
  /\ h.open_requests \subseteq Nat \ {0}
  /\ h.welpi \in BOOLEAN
  /\ h.objects = [s \in Steps |-> h.objects[s]]
  /\ \A s \in Steps : h.objects[s] \in Lists
  /\ h.wpimult_global_factor \in Int

(* Each request is for an open connection. *)
Stand(c, requests) == \A n \in requests : \E i \in DOMAIN c : c[i].complnum = n /\ c[i].state = "OPEN"

(* What a list in the place of another leaves alone. *)
Elsewhere(h, g) ==
  /\ g.step = h.step
  /\ g.well.connections \in {h.well.connections, h.step}
  /\ \A t \in Steps : t # h.step => g.objects[t] = h.objects[t]

(* The lists are lists. *)
LEMMA WorkFacts ==
  ASSUME NEW h, IsWork(h)
  PROVE  Connections(h) \in Lists /\ Connections(h) = h.objects[h.well.connections]
BY DEF IsWork, Connections

(* Connections in their order in the place of the ones before. *)
LEMMA Updated ==
  ASSUME NEW h, IsWork(h), NEW c \in Lists, NEW g, g = updateConnections(h, c)
  PROVE  /\ IsWork(g)
         /\ Elsewhere(h, g)
         /\ g.open_requests = h.open_requests
         /\ g.welpi = h.welpi
         /\ g.wpimult_global_factor = h.wpimult_global_factor
         /\ View(Connections(g)) = View(c)
         /\ ordering # "DEPTH" => Connections(g) = c
         /\ \A requests : Stand(c, requests) => Stand(Connections(g), requests)
<1> DEFINE new == order(c, ordering)
<1>1. /\ new \in Lists
      /\ View(new) = View(c)
      /\ \A j \in DOMAIN c : \E i \in DOMAIN new : new[i] = c[j]
      /\ ordering # "DEPTH" => new = c
  BY OrderFacts
<1>2. g = IF new = Connections(h) THEN h
          ELSE [h EXCEPT !.objects[h.step] = new, !.well.connections = h.step]
  BY DEF updateConnections
<1> HIDE DEF new
<1>3. \A requests : Stand(c, requests) => Stand(new, requests)
  <2> SUFFICES ASSUME NEW requests, Stand(c, requests), NEW n \in requests
               PROVE  \E i \in DOMAIN new : new[i].complnum = n /\ new[i].state = "OPEN"
    BY DEF Stand
  <2>1. PICK j \in DOMAIN c : c[j].complnum = n /\ c[j].state = "OPEN"
    BY DEF Stand
  <2> QED
    BY <1>1, <2>1
<1>4. CASE new = Connections(h)
  BY <1>1, <1>2, <1>3, <1>4 DEF Elsewhere
<1>5. CASE new # Connections(h)
  <2>1. g = [h EXCEPT !.objects[h.step] = new, !.well.connections = h.step]
    BY <1>2, <1>5
  <2>2. /\ g = [well |-> g.well, open_requests |-> g.open_requests, welpi |-> g.welpi, objects |-> g.objects,
                step |-> g.step, pending |-> g.pending, wpimult_global_factor |-> g.wpimult_global_factor]
        /\ g.well = [h.well EXCEPT !.connections = h.step]
        /\ g.objects = [h.objects EXCEPT ![h.step] = new]
        /\ g.open_requests = h.open_requests
        /\ g.welpi = h.welpi
        /\ g.step = h.step
        /\ g.wpimult_global_factor = h.wpimult_global_factor
    BY <2>1 DEF IsWork
  <2>3. /\ g.well = [connections |-> g.well.connections, status |-> g.well.status]
        /\ g.well.connections = h.step /\ g.well.status = h.well.status
    BY <2>2 DEF IsWork
  <2>4. /\ g.objects = [s \in Steps |-> g.objects[s]]
        /\ g.objects[h.step] = new
        /\ \A t \in Steps : t # h.step => g.objects[t] = h.objects[t]
    BY <2>2 DEF IsWork
  <2>5. \A s \in Steps : g.objects[s] \in Lists
    BY <1>1, <2>4 DEF IsWork
  <2>6. h.step <= h.step
    BY StepsAssumption DEF IsWork, Steps
  <2>7. IsWork(g)
    BY <2>2, <2>3, <2>4, <2>5, <2>6 DEF IsWork
  <2>8. Connections(g) = new
    BY <2>3, <2>4 DEF Connections
  <2>9. Elsewhere(h, g)
    BY <2>2, <2>3, <2>4 DEF Elsewhere
  <2> QED
    BY <1>1, <1>3, <2>2, <2>7, <2>8, <2>9
<1> QED
  BY <1>4, <1>5

(* Requests raised and withdrawn. *)
Requests(before, complnums, state) == {n \in before \cup complnums : state = "OPEN" \/ n \notin complnums}

Requesting(h, complnums, state, g) ==
  /\ IsWork(g)
  /\ g.well = h.well /\ g.objects = h.objects /\ g.step = h.step /\ g.welpi = h.welpi
  /\ g.wpimult_global_factor = h.wpimult_global_factor
  /\ g.open_requests = Requests(h.open_requests, complnums, state)
  /\ Connections(g) = Connections(h)

(* What raising or withdrawing requests does to the work.                  *)
LEMMA Requested ==
  ASSUME NEW h, IsWork(h), NEW complnums, complnums \subseteq Nat \ {0}, NEW state
  PROVE  Requesting(h, complnums, state, request(h, complnums, state))
<1> DEFINE g == request(h, complnums, state)
<1>0. g = request(h, complnums, state)
  OBVIOUS
<1> HIDE DEF g
<1>1. /\ g = [well |-> g.well, open_requests |-> g.open_requests, welpi |-> g.welpi, objects |-> g.objects,
              step |-> g.step, pending |-> g.pending, wpimult_global_factor |-> g.wpimult_global_factor]
      /\ g.well = h.well /\ g.objects = h.objects /\ g.step = h.step /\ g.welpi = h.welpi
      /\ g.wpimult_global_factor = h.wpimult_global_factor
      /\ g.open_requests = IF state = "OPEN" THEN h.open_requests \cup complnums
                                             ELSE h.open_requests \ complnums
  BY <1>0 DEF request, IsWork
<1>2. g.open_requests \subseteq Nat \ {0}
  BY <1>1 DEF IsWork
<1>3. IsWork(g)
  BY <1>1, <1>2 DEF IsWork
<1>4. g.open_requests = Requests(h.open_requests, complnums, state)
  BY <1>1 DEF Requests
<1> QED
  BY <1>1, <1>3, <1>4 DEF Connections, Requesting, g

(* The completion numbers of a record are numbers from 1. *)
LEMMA ExistingFacts ==
  ASSUME NEW c \in Lists, NEW rec
  PROVE  existingComplnums(c, rec) \subseteq Nat \ {0}
<1>1. \A i \in DOMAIN c : c[i].complnum \in Nat \ {0}
  BY ListFacts DEF Connection
<1> QED
  BY <1>1 DEF existingComplnums

(* Loading a record keeps the requests: those for a connection that it     *)
(* shuts are withdrawn.                                                    *)
LEMMA LoadStands ==
  ASSUME NEW c \in Lists, NEW rec \in Record, NEW requests, Stand(c, requests)
  PROVE  Stand(loadCOMPDAT(c, rec), Requests(requests, existingComplnums(c, rec), rec.state))
<1> DEFINE d == loadCOMPDAT(c, rec)
           E == existingComplnums(c, rec)
<1>1. /\ KeepPlaces(c, d)
      /\ \A i \in DOMAIN c : d[i] =
           IF c[i].cell = rec.cell THEN NewConnection(rec.cell, c[i].complnum, rec.state, rec.CF) ELSE c[i]
  BY LoadFacts
<1>2. \A i \in DOMAIN c : i \in DOMAIN d
  BY <1>1 DEF KeepPlaces
<1>3. \A i \in DOMAIN c : c[i].cell = rec.cell => d[i].complnum = c[i].complnum /\ d[i].state = rec.state
  <2>1. ASSUME NEW N PROVE /\ NewConnection(rec.cell, N, rec.state, rec.CF).complnum = N
                           /\ NewConnection(rec.cell, N, rec.state, rec.CF).state = rec.state
    BY DEF NewConnection
  <2> HIDE DEF d, E
  <2> QED
    BY <1>1, <2>1
<1>4. \A i \in DOMAIN c : c[i].cell # rec.cell => d[i] = c[i]
  BY <1>1
<1>5. \A i \in DOMAIN c : c[i].cell = rec.cell => c[i].complnum \in E
  BY DEF existingComplnums
<1>6. \A n \in E : \E i \in DOMAIN c : c[i].cell = rec.cell /\ c[i].complnum = n
  BY DEF existingComplnums
<1> HIDE DEF d, E
<1>8. ASSUME NEW n \in Requests(requests, E, rec.state)
      PROVE  \E i \in DOMAIN d : d[i].complnum = n /\ d[i].state = "OPEN"
  <2>0. \/ n \in E /\ rec.state = "OPEN"
        \/ n \in requests /\ n \notin E
    BY DEF Requests
  <2>1. CASE n \in E /\ rec.state = "OPEN"
    BY <1>2, <1>3, <1>6, <2>1
  <2>2. CASE n \in requests /\ n \notin E
    <3>1. PICK i \in DOMAIN c : c[i].complnum = n /\ c[i].state = "OPEN"
      BY <2>2 DEF Stand
    <3>2. c[i].cell # rec.cell
      BY <1>5, <2>2, <3>1
    <3> QED
      BY <1>2, <1>4, <3>1, <3>2
  <2> QED
    BY <2>0, <2>1, <2>2
<1> QED
  BY <1>8 DEF Stand, d, E

LoadRecordOp(p, h, rec) == loadRecord(h, rec)

Recording == INSTANCE Recursion WITH Op <- LoadRecordOp, Inv <- NoInv

BlockKeyword == DeckKeyword \cup ActionKeyword

(* What handling a keyword does. *)
Handled(h, kw, g) ==
  /\ IsWork(g)
  /\ g.step = h.step
  /\ g.well.connections \in {h.well.connections, h.step}
  /\ \A t \in Steps : t # h.step => \/ g.objects[t] = h.objects[t]
                                    \/ /\ t = h.well.connections /\ kw.name = "WELPIRuntime"
                                       /\ SameTasks(h.objects[t], g.objects[t])
  /\ View(Connections(g)) = Applied("code", View(Connections(h)), kw)
  /\ ordering # "DEPTH" => KeepPlaces(Connections(h), Connections(g))
  /\ kw.name # "COMPLUMP" /\ Stand(Connections(h), h.open_requests) => Stand(Connections(g), g.open_requests)
  /\ g.welpi <=> h.welpi \/ kw.name = "WELPI"
  /\ g.wpimult_global_factor = IF kw.name = "WPIMULTWell" THEN kw.WELLPI ELSE h.wpimult_global_factor

(* The connections being loaded are not those in use. *)
LEMMA Loadable ==
  ASSUME NEW h, IsWork(h), NEW c, NEW g, g = [h EXCEPT !.pending = c]
  PROVE  /\ IsWork(g)
         /\ g.well = h.well /\ g.objects = h.objects /\ g.step = h.step /\ g.welpi = h.welpi
         /\ g.wpimult_global_factor = h.wpimult_global_factor
         /\ g.open_requests = h.open_requests
         /\ g.pending = c
         /\ Connections(g) = Connections(h)
<1>1. /\ g = [well |-> g.well, open_requests |-> g.open_requests, welpi |-> g.welpi, objects |-> g.objects,
              step |-> g.step, pending |-> g.pending, wpimult_global_factor |-> g.wpimult_global_factor]
      /\ g.well = h.well /\ g.objects = h.objects /\ g.step = h.step /\ g.welpi = h.welpi
      /\ g.wpimult_global_factor = h.wpimult_global_factor
      /\ g.open_requests = h.open_requests
      /\ g.pending = c
  BY DEF IsWork
<1>2. IsWork(g)
  BY <1>1 DEF IsWork
<1> QED
  BY <1>1, <1>2 DEF Connections

(* Loading one record of a COMPDAT. *)
LEMMA RecordLoaded ==
  ASSUME NEW h, IsWork(h), h.pending \in Lists, NEW rec \in Record, NEW g, g = loadRecord(h, rec)
  PROVE  /\ IsWork(g)
         /\ g.well = h.well /\ g.objects = h.objects /\ g.step = h.step /\ g.welpi = h.welpi
         /\ g.wpimult_global_factor = h.wpimult_global_factor
         /\ g.pending = loadCOMPDAT(h.pending, rec)
         /\ Stand(h.pending, h.open_requests) => Stand(g.pending, g.open_requests)
<1> DEFINE E == existingComplnums(h.pending, rec)
           r == request(h, E, rec.state)
<1>1. E \subseteq Nat \ {0}
  BY ExistingFacts
<1>2. g = [r EXCEPT !.pending = loadCOMPDAT(h.pending, rec)]
  BY DEF loadRecord
<1>3. Requesting(h, E, rec.state, r)
  BY <1>1, Requested
<1> HIDE DEF r
<1>4. /\ IsWork(g)
      /\ g.well = r.well /\ g.objects = r.objects /\ g.step = r.step /\ g.welpi = r.welpi
      /\ g.wpimult_global_factor = r.wpimult_global_factor
      /\ g.open_requests = r.open_requests
      /\ g.pending = loadCOMPDAT(h.pending, rec)
  BY <1>2, <1>3, Loadable DEF Requesting
<1>5. Stand(h.pending, h.open_requests) => Stand(g.pending, g.open_requests)
  <2>1. g.open_requests = Requests(h.open_requests, E, rec.state)
    BY <1>3, <1>4 DEF Requesting
  <2> QED
    BY <1>4, <2>1, LoadStands
<1> QED
  BY <1>3, <1>4, <1>5 DEF Requesting

(* COMPDAT. *)
LEMMA HandledCOMPDAT ==
  ASSUME NEW h, IsWork(h), NEW kw \in BlockKeyword, kw.name = "COMPDAT", NEW g, g = COMPDAT(h, kw)
  PROVE  Handled(h, kw, g)
<1> DEFINE rs == kw.records
           c == Connections(h)
           h0 == [h EXCEPT !.pending = c]
           loaded == FoldLeft(loadRecord, h0, rs)
           l0 == [loaded EXCEPT !.pending = << >>]
<1>1. rs \in Seq(Record)
  BY KeywordFacts DEF BlockKeyword, EffectKeyword
<1>2. c \in Lists
  BY WorkFacts
<1>3. g = updateConnections(l0, loaded.pending)
  BY DEF COMPDAT
<1>4. /\ IsWork(h0)
      /\ h0.well = h.well /\ h0.objects = h.objects /\ h0.step = h.step /\ h0.welpi = h.welpi
      /\ h0.wpimult_global_factor = h.wpimult_global_factor
      /\ h0.open_requests = h.open_requests
      /\ h0.pending = c
  <2> HIDE DEF c
  <2> QED
    BY Loadable
<1>5. Applied("code", View(c), kw) = LoadingView!Fold(<< >>, View(c), rs)
  BY DEF Applied
<1> HIDE DEF rs, c, h0
<1>6. loaded = Recording!Fold(<< >>, h0, rs)
  BY DEF Recording!Fold, LoadRecordOp, FoldLeft, MapThenFoldSet, Recording!MapThenFoldSet, Max, Recording!Max
<1>7. PICK F : /\ F[0] = h0
               /\ \A k \in 1 .. Len(rs) : F[k] = LoadRecordOp(<< >>, F[k - 1], rs[k])
               /\ Recording!Fold(<< >>, h0, rs) = F[Len(rs)]
  BY <1>1, Recording!FoldRuns
<1>8. PICK G : /\ G[0] = View(c)
               /\ \A k \in 1 .. Len(rs) : G[k] = LoadOp(<< >>, G[k - 1], rs[k])
               /\ LoadingView!Fold(<< >>, View(c), rs) = G[Len(rs)]
  BY <1>1, LoadingView!FoldRuns
<1> DEFINE Good(k, f) ==
             /\ IsWork(f)
             /\ f.well = h.well /\ f.objects = h.objects /\ f.step = h.step /\ f.welpi = h.welpi
             /\ f.wpimult_global_factor = h.wpimult_global_factor
             /\ f.pending \in Lists
             /\ View(f.pending) = G[k]
             /\ KeepPlaces(c, f.pending)
             /\ Stand(c, h.open_requests) => Stand(f.pending, f.open_requests)
           T == {k \in 0 .. Len(rs) : Good(k, F[k])}
<1>9. Len(rs) \in Nat /\ 0 \in T
  BY <1>1, <1>2, <1>4, <1>7, <1>8, KeepPlacesOn
<1>10. ASSUME NEW k \in 1 .. Len(rs), k - 1 \in T PROVE k \in T
  <2>1. rs[k] \in Record
    BY <1>1
  <2> DEFINE e == F[k - 1]
             f == F[k]
  <2>2. Good(k - 1, e)
    BY <1>10
  <2>3. f = loadRecord(e, rs[k]) /\ G[k] = LoadOp(<< >>, G[k - 1], rs[k])
    BY <1>7, <1>8 DEF LoadRecordOp
  <2> HIDE DEF e, f
  <2>4. /\ IsWork(f)
        /\ f.well = e.well /\ f.objects = e.objects /\ f.step = e.step /\ f.welpi = e.welpi
        /\ f.wpimult_global_factor = e.wpimult_global_factor
        /\ f.pending = loadCOMPDAT(e.pending, rs[k])
        /\ Stand(e.pending, e.open_requests) => Stand(f.pending, f.open_requests)
    BY <2>1, <2>2, <2>3, RecordLoaded
  <2>5. /\ f.pending \in Lists
        /\ View(f.pending) = LoadOp(<< >>, View(e.pending), rs[k])
        /\ KeepPlaces(e.pending, f.pending)
    BY <2>1, <2>2, <2>4, LoadFacts
  <2>6. KeepPlaces(c, f.pending)
    BY <1>2, <2>2, <2>5, KeepPlacesOn
  <2>7. Good(k, f)
    BY <2>2, <2>3, <2>4, <2>5, <2>6
  <2> QED
    BY <2>7 DEF f
<1>11. Good(Len(rs), loaded)
  <2> HIDE DEF Good
  <2>1. Len(rs) \in T
    <3> HIDE DEF T
    <3> QED
      BY <1>9, <1>10, UpTo
  <2> QED
    BY <1>6, <1>7, <2>1
<1> HIDE DEF loaded
<1>12. /\ IsWork(l0)
       /\ l0.well = h.well /\ l0.objects = h.objects /\ l0.step = h.step /\ l0.welpi = h.welpi
       /\ l0.wpimult_global_factor = h.wpimult_global_factor
       /\ l0.open_requests = loaded.open_requests
  BY <1>11, Loadable
<1> HIDE DEF l0
<1>13. /\ IsWork(g)
       /\ Elsewhere(l0, g)
       /\ g.open_requests = l0.open_requests
       /\ g.welpi = l0.welpi
       /\ g.wpimult_global_factor = l0.wpimult_global_factor
       /\ View(Connections(g)) = View(loaded.pending)
       /\ ordering # "DEPTH" => Connections(g) = loaded.pending
       /\ \A requests : Stand(loaded.pending, requests) => Stand(Connections(g), requests)
  BY <1>3, <1>11, <1>12, Updated
<1>14. View(Connections(g)) = Applied("code", View(c), kw)
  BY <1>5, <1>8, <1>11, <1>13
<1>15. Stand(c, h.open_requests) => Stand(Connections(g), g.open_requests)
  BY <1>11, <1>12, <1>13
<1>16. ordering # "DEPTH" => KeepPlaces(c, Connections(g))
  BY <1>11, <1>13
<1> QED
  BY <1>12, <1>13, <1>14, <1>15, <1>16 DEF Handled, Elsewhere, c

(* A state or a number changed keeps the requests that it should. *)
LEMMA TouchedStands ==
  ASSUME NEW c \in Lists, NEW kw \in BlockKeyword, NEW requests, Stand(c, requests)
  PROVE  /\ kw.name = "WELOPEN" =>
              Stand(TouchedAll("code", kw, c), Requests(requests, matchingComplnums(c, kw), kw.state))
         /\ kw.name \notin {"COMPDAT", "Fracture", "WELOPEN", "COMPLUMP"} => Stand(TouchedAll("code", kw, c), requests)
         /\ matchingComplnums(c, kw) \subseteq Nat \ {0}
<1> DEFINE d == TouchedAll("code", kw, c)
           E == matchingComplnums(c, kw)
<1>0. kw \in EffectKeyword
  BY DEF BlockKeyword, EffectKeyword
<1>1. DOMAIN d = DOMAIN c /\ \A i \in DOMAIN c : d[i] = Touched("code", kw, c[i])
  BY DEF TouchedAll
<1>2. /\ \A i \in Matching(c, kw) : i \in DOMAIN c /\ c[i].complnum \in E
      /\ \A n \in E : \E i \in Matching(c, kw) : c[i].complnum = n
  BY DEF matchingComplnums, Matching
<1>3. \A i \in DOMAIN c : c[i].complnum \in Nat \ {0}
  BY ListFacts DEF Connection
<1>4. E \subseteq Nat \ {0}
  BY <1>2, <1>3
<1> HIDE DEF d, E
<1>5. ASSUME kw.name = "WELOPEN" PROVE Stand(d, Requests(requests, E, kw.state))
  <2>1. ASSUME NEW i \in DOMAIN c
        PROVE  /\ d[i].complnum = c[i].complnum
               /\ i \in Matching(c, kw) => d[i].state = kw.state
               /\ i \notin Matching(c, kw) => d[i].state = c[i].state
    BY <1>1, <1>5 DEF Touched, Matching
  <2>2. ASSUME NEW n \in Requests(requests, E, kw.state)
        PROVE  \E i \in DOMAIN d : d[i].complnum = n /\ d[i].state = "OPEN"
    <3>0. \/ n \in E /\ kw.state = "OPEN"
          \/ n \in requests /\ n \notin E
      BY DEF Requests
    <3>1. CASE n \in E /\ kw.state = "OPEN"
      BY <1>1, <1>2, <2>1, <3>1
    <3>2. CASE n \in requests /\ n \notin E
      <4>1. PICK i \in DOMAIN c : c[i].complnum = n /\ c[i].state = "OPEN"
        BY <3>2 DEF Stand
      <4>2. i \notin Matching(c, kw)
        BY <1>2, <3>2, <4>1
      <4> QED
        BY <1>1, <2>1, <4>1, <4>2
    <3> QED
      BY <3>0, <3>1, <3>2
  <2> QED
    BY <2>2 DEF Stand
<1>6. ASSUME kw.name \notin {"COMPDAT", "Fracture", "WELOPEN", "COMPLUMP"} PROVE Stand(d, requests)
  <2>1. SameTasks(c, d)
    BY <1>0, <1>6, TouchedAllFacts DEF d
  <2> QED
    BY <2>1 DEF SameTasks, KeepPlaces, Stand
<1> QED
  BY <1>4, <1>5, <1>6 DEF d, E

(* A keyword that puts changed connections in place. *)
LEMMA HandledByCopy ==
  ASSUME NEW h, IsWork(h), NEW kw \in BlockKeyword, kw.name \in {"COMPLUMP", "WPIMULT"}, NEW g,
         g = updateConnections(h, TouchedAll("code", kw, Connections(h)))
  PROVE  Handled(h, kw, g)
<1> DEFINE c == Connections(h)
           d == TouchedAll("code", kw, c)
<1>1. c \in Lists /\ kw \in EffectKeyword
  BY WorkFacts DEF BlockKeyword, EffectKeyword
<1> HIDE DEF c
<1>2. /\ d \in Lists
      /\ View(d) = Applied("code", View(c), kw)
      /\ KeepPlaces(c, d)
  BY <1>1, TouchedAllFacts
<1>3. ASSUME kw.name # "COMPLUMP", Stand(c, h.open_requests) PROVE Stand(d, h.open_requests)
  BY <1>1, <1>3, TouchedStands
<1>4. g = updateConnections(h, d)
  BY DEF c
<1> HIDE DEF d
<1>5. /\ IsWork(g)
      /\ Elsewhere(h, g)
      /\ g.open_requests = h.open_requests
      /\ g.welpi = h.welpi
      /\ g.wpimult_global_factor = h.wpimult_global_factor
      /\ View(Connections(g)) = View(d)
      /\ ordering # "DEPTH" => Connections(g) = d
      /\ \A requests : Stand(d, requests) => Stand(Connections(g), requests)
  BY <1>2, <1>4, Updated
<1> QED
  BY <1>2, <1>3, <1>5 DEF Handled, Elsewhere, c

(* WELOPEN for connections. *)
LEMMA HandledWELOPEN ==
  ASSUME NEW h, IsWork(h), NEW kw \in BlockKeyword, kw.name = "WELOPEN", NEW g, g = WELOPEN(h, kw)
  PROVE  Handled(h, kw, g)
<1> DEFINE c == Connections(h)
           d == TouchedAll("code", kw, c)
           E == matchingComplnums(c, kw)
           r == request(h, E, kw.state)
<1>1. c \in Lists /\ kw \in EffectKeyword
  BY WorkFacts DEF BlockKeyword, EffectKeyword
<1>2. g = updateConnections(r, d)
  BY <1>1, HandlerTouches DEF WELOPEN
<1> HIDE DEF c
<1>3. /\ d \in Lists
      /\ View(d) = Applied("code", View(c), kw)
      /\ KeepPlaces(c, d)
  BY <1>1, TouchedAllFacts
<1>4. E \subseteq Nat \ {0}
  <2>1. Stand(c, {})
    BY DEF Stand
  <2> QED
    BY <1>1, <2>1, TouchedStands
<1>5. Stand(c, h.open_requests) => Stand(d, Requests(h.open_requests, E, kw.state))
  BY <1>1, TouchedStands
<1> HIDE DEF d, E
<1>6. Requesting(h, E, kw.state, r)
  BY <1>4, Requested
<1> HIDE DEF r
<1>7. /\ IsWork(g)
      /\ Elsewhere(r, g)
      /\ g.open_requests = r.open_requests
      /\ g.welpi = r.welpi
      /\ g.wpimult_global_factor = r.wpimult_global_factor
      /\ View(Connections(g)) = View(d)
      /\ ordering # "DEPTH" => Connections(g) = d
      /\ \A requests : Stand(d, requests) => Stand(Connections(g), requests)
  BY <1>2, <1>3, <1>6, Updated DEF Requesting
<1> QED
  BY <1>3, <1>5, <1>6, <1>7 DEF Handled, Elsewhere, Requesting, c

(* Keywords that change no connection. *)
LEMMA HandledElse ==
  ASSUME NEW h, IsWork(h), NEW kw \in BlockKeyword, kw.name \in {"WELOPENWell", "WPIMULTWell"},
         NEW g, g = handleKeyword(h, kw)
  PROVE  Handled(h, kw, g)
<1> DEFINE c == Connections(h)
<1>1. c \in Lists /\ kw \in EffectKeyword
  BY WorkFacts DEF BlockKeyword, EffectKeyword
<1>2. View(c) = Applied("code", View(c), kw)
  BY <1>1, HandlerTouches, TouchedAllFacts
<1>3. KeepPlaces(c, c)
  BY <1>1, KeepPlacesOn
<1>4. CASE kw.name = "WELOPENWell"
  <2>1. g = h \/ g = [h EXCEPT !.well.status = kw.status]
    BY <1>4 DEF handleKeyword, updateWellStatus
  <2>2. CASE g = h
    BY <1>2, <1>3, <1>4, <2>2 DEF Handled
  <2>3. CASE g = [h EXCEPT !.well.status = kw.status]
    <3>1. kw.status \in States
      BY <1>1, <1>4, KeywordFacts
    <3>2. /\ g = [well |-> g.well, open_requests |-> g.open_requests, welpi |-> g.welpi, objects |-> g.objects,
                  step |-> g.step, pending |-> g.pending, wpimult_global_factor |-> g.wpimult_global_factor]
          /\ g.well = [connections |-> g.well.connections, status |-> g.well.status]
          /\ g.well.connections = h.well.connections /\ g.well.status = kw.status
          /\ g.objects = h.objects /\ g.step = h.step /\ g.welpi = h.welpi
          /\ g.wpimult_global_factor = h.wpimult_global_factor
          /\ g.open_requests = h.open_requests
      BY <2>3 DEF IsWork
    <3>3. IsWork(g)
      BY <3>1, <3>2 DEF IsWork
    <3>4. Connections(g) = Connections(h)
      BY <3>2 DEF Connections
    <3> QED
      BY <1>2, <1>3, <1>4, <3>2, <3>3, <3>4 DEF Handled
  <2> QED
    BY <2>1, <2>2, <2>3
<1>5. CASE kw.name = "WPIMULTWell"
  <2>1. g = [h EXCEPT !.wpimult_global_factor = kw.WELLPI]
    BY <1>5 DEF handleKeyword
  <2>2. kw.WELLPI \in Int
    BY <1>1, <1>5, KeywordFacts
  <2>3. /\ g = [well |-> g.well, open_requests |-> g.open_requests, welpi |-> g.welpi, objects |-> g.objects,
                step |-> g.step, pending |-> g.pending, wpimult_global_factor |-> g.wpimult_global_factor]
        /\ g.well = h.well
        /\ g.objects = h.objects /\ g.step = h.step /\ g.welpi = h.welpi
        /\ g.wpimult_global_factor = kw.WELLPI
        /\ g.open_requests = h.open_requests
    BY <2>1 DEF IsWork
  <2>4. IsWork(g)
    BY <2>2, <2>3 DEF IsWork
  <2>5. Connections(g) = Connections(h)
    BY <2>3 DEF Connections
  <2> QED
    BY <1>2, <1>3, <1>5, <2>3, <2>4, <2>5 DEF Handled
<1> QED
  BY <1>4, <1>5

(* When all connections are subject already, making them so changes nothing. *)
LEMMA SubjectAlready ==
  ASSUME NEW c \in Lists, allSubject(c)
  PROVE  prepareWellPIScaling(c) = c
<1>1. c = [i \in 1 .. Len(c) |-> c[i]] /\ DOMAIN c = 1 .. Len(c) /\ \A i \in DOMAIN c : c[i] \in Connection
  BY ListFacts
<1>2. ASSUME NEW i \in DOMAIN c PROVE [c[i] EXCEPT !.subject_to_welpi = TRUE] = c[i]
  <2>1. c[i].subject_to_welpi = TRUE
    BY DEF allSubject
  <2>2. [c[i] EXCEPT !.subject_to_welpi = TRUE]
          = [cell |-> c[i].cell, complnum |-> c[i].complnum, state |-> c[i].state, CF |-> c[i].CF,
             subject_to_welpi |-> TRUE]
    BY <1>1, ConnectionWith, Zenon
  <2>3. c[i] = [cell |-> c[i].cell, complnum |-> c[i].complnum, state |-> c[i].state, CF |-> c[i].CF,
                subject_to_welpi |-> c[i].subject_to_welpi]
    BY <1>1, ConnectionIs
  <2> QED
    BY ONLY <2>1, <2>2, <2>3, Zenon
<1> QED
  BY <1>1, <1>2 DEF prepareWellPIScaling

(* WELPI of the deck. *)
LEMMA HandledWELPI ==
  ASSUME NEW h, IsWork(h), NEW kw \in BlockKeyword, kw.name = "WELPI", NEW g, g = WELPI(h)
  PROVE  Handled(h, kw, g)
<1> DEFINE c == Connections(h)
           copy == order(c, ordering)
           d == prepareWellPIScaling(copy)
<1>1. c \in Lists /\ kw \in EffectKeyword
  BY WorkFacts DEF BlockKeyword, EffectKeyword
<1> HIDE DEF c
<1>2. /\ copy \in Lists
      /\ View(copy) = View(c)
      /\ \A j \in DOMAIN c : \E i \in DOMAIN copy : copy[i] = c[j]
      /\ ordering # "DEPTH" => copy = c
  BY <1>1, OrderFacts
<1>3. g = IF allSubject(copy) THEN [h EXCEPT !.welpi = TRUE]
          ELSE [h EXCEPT !.welpi = TRUE, !.objects[h.step] = d, !.well.connections = h.step]
  BY DEF WELPI, c
<1> HIDE DEF copy
<1>4. PICK yes \in BOOLEAN : yes = TRUE
  OBVIOUS
<1>5. d = TouchedAll("code", kw, copy)
  BY <1>1, <1>2, HandlerTouches
<1>6. /\ d \in Lists
      /\ View(d) = Applied("code", View(c), kw)
      /\ KeepPlaces(copy, d) /\ SameTasks(copy, d)
  BY <1>1, <1>2, <1>5, TouchedAllFacts
<1> HIDE DEF d
<1>7. Stand(c, h.open_requests) => Stand(copy, h.open_requests)
  <2> SUFFICES ASSUME Stand(c, h.open_requests), NEW n \in h.open_requests
               PROVE  \E i \in DOMAIN copy : copy[i].complnum = n /\ copy[i].state = "OPEN"
    BY DEF Stand
  <2>1. PICK j \in DOMAIN c : c[j].complnum = n /\ c[j].state = "OPEN"
    BY DEF Stand
  <2> QED
    BY <1>2, <2>1
<1>8. CASE allSubject(copy)
  <2>1. g = [h EXCEPT !.welpi = yes]
    BY ONLY <1>3, <1>4, <1>8, Zenon
  <2>2. d = copy
    BY <1>2, <1>8, SubjectAlready DEF d
  <2>3. /\ g = [well |-> g.well, open_requests |-> g.open_requests, welpi |-> g.welpi, objects |-> g.objects,
                step |-> g.step, pending |-> g.pending, wpimult_global_factor |-> g.wpimult_global_factor]
        /\ g.well = h.well
        /\ g.objects = h.objects /\ g.step = h.step /\ g.welpi = yes
        /\ g.wpimult_global_factor = h.wpimult_global_factor
        /\ g.open_requests = h.open_requests
    BY <2>1 DEF IsWork
  <2>4. IsWork(g)
    BY <1>4, <2>3 DEF IsWork
  <2>5. Connections(g) = c
    BY <2>3 DEF Connections, c
  <2>6. View(c) = Applied("code", View(c), kw)
    BY <1>2, <1>6, <2>2
  <2>7. KeepPlaces(c, c)
    BY <1>1, KeepPlacesOn
  <2>8. g.welpi
    BY <1>4, <2>3
  <2> QED
    BY <2>3, <2>4, <2>5, <2>6, <2>7, <2>8 DEF Handled, c
<1>9. CASE ~allSubject(copy)
  <2>1. g = [h EXCEPT !.welpi = yes, !.objects[h.step] = d, !.well.connections = h.step]
    BY ONLY <1>3, <1>4, <1>9, Zenon
  <2>2. /\ g = [well |-> g.well, open_requests |-> g.open_requests, welpi |-> g.welpi, objects |-> g.objects,
                step |-> g.step, pending |-> g.pending, wpimult_global_factor |-> g.wpimult_global_factor]
        /\ g.well = [h.well EXCEPT !.connections = h.step]
        /\ g.objects = [h.objects EXCEPT ![h.step] = d]
        /\ g.step = h.step /\ g.welpi = yes
        /\ g.wpimult_global_factor = h.wpimult_global_factor
        /\ g.open_requests = h.open_requests
    BY <2>1 DEF IsWork
  <2>3. /\ g.well = [connections |-> g.well.connections, status |-> g.well.status]
        /\ g.well.connections = h.step /\ g.well.status = h.well.status
    BY <2>2 DEF IsWork
  <2>4. /\ g.objects = [s \in Steps |-> g.objects[s]]
        /\ g.objects[h.step] = d
        /\ \A t \in Steps : t # h.step => g.objects[t] = h.objects[t]
    BY <2>2 DEF IsWork
  <2>5. \A s \in Steps : g.objects[s] \in Lists
    BY <1>6, <2>4 DEF IsWork
  <2>6. h.step <= h.step
    BY StepsAssumption DEF IsWork, Steps
  <2>7. IsWork(g)
    BY <1>4, <2>2, <2>3, <2>4, <2>5, <2>6 DEF IsWork
  <2>8. Connections(g) = d
    BY <2>3, <2>4 DEF Connections
  <2>9. ordering # "DEPTH" => KeepPlaces(c, d)
    BY <1>2, <1>6
  <2>10. Stand(copy, h.open_requests) => Stand(d, h.open_requests)
    BY <1>6 DEF SameTasks, KeepPlaces, Stand
  <2>11. g.welpi
    BY <1>4, <2>2
  <2> QED
    BY <1>6, <1>7, <2>2, <2>3, <2>4, <2>7, <2>8, <2>9, <2>10, <2>11 DEF Handled, c
<1> QED
  BY <1>8, <1>9

(* WELPI of an action. *)
LEMMA HandledWELPIRuntime ==
  ASSUME NEW h, IsWork(h), NEW kw \in BlockKeyword, kw.name = "WELPIRuntime", NEW g, g = WELPIRuntime(h, kw)
  PROVE  Handled(h, kw, g)
<1> DEFINE c == Connections(h)
           d == TouchedAll("code", kw, c)
           t0 == h.well.connections
<1>1. c \in Lists /\ kw \in EffectKeyword /\ c = h.objects[t0]
  BY WorkFacts DEF BlockKeyword, EffectKeyword
<1>2. applyWellPIScaling(prepareWellPIScaling(c), kw.factor, << >>) = d
  BY <1>1, HandlerTouches
<1> HIDE DEF c
<1>3. /\ d \in Lists
      /\ View(d) = Applied("code", View(c), kw)
      /\ KeepPlaces(c, d) /\ SameTasks(c, d)
  BY <1>1, TouchedAllFacts
<1> HIDE DEF d
<1>4. g = [h EXCEPT !.objects[t0] = d]
  BY <1>1, <1>2 DEF WELPIRuntime
<1>5. /\ g = [well |-> g.well, open_requests |-> g.open_requests, welpi |-> g.welpi, objects |-> g.objects,
              step |-> g.step, pending |-> g.pending, wpimult_global_factor |-> g.wpimult_global_factor]
      /\ g.well = h.well
      /\ g.objects = [h.objects EXCEPT ![t0] = d]
      /\ g.step = h.step /\ g.welpi = h.welpi
      /\ g.wpimult_global_factor = h.wpimult_global_factor
      /\ g.open_requests = h.open_requests
  BY <1>4 DEF IsWork
<1>6. /\ g.objects = [s \in Steps |-> g.objects[s]]
      /\ g.objects[t0] = d
      /\ \A t \in Steps : t # t0 => g.objects[t] = h.objects[t]
  BY <1>5 DEF IsWork
<1>7. \A s \in Steps : g.objects[s] \in Lists
  BY <1>3, <1>6 DEF IsWork
<1>8. IsWork(g)
  BY <1>5, <1>6, <1>7 DEF IsWork
<1>9. Connections(g) = d
  BY <1>5, <1>6 DEF Connections
<1>10. Stand(c, h.open_requests) => Stand(d, h.open_requests)
  BY <1>3 DEF SameTasks, KeepPlaces, Stand
<1>11. \A t \in Steps : t # h.step =>
          \/ g.objects[t] = h.objects[t]
          \/ t = t0 /\ SameTasks(h.objects[t], g.objects[t])
  BY <1>1, <1>3, <1>6
<1> QED
  BY <1>3, <1>5, <1>8, <1>9, <1>10, <1>11 DEF Handled, c

(* Every keyword. *)
LEMMA HandledKeyword ==
  ASSUME NEW h, IsWork(h), NEW kw \in BlockKeyword, NEW g, g = handleKeyword(h, kw)
  PROVE  Handled(h, kw, g)
<1>1. kw \in EffectKeyword
  BY DEF BlockKeyword, EffectKeyword
<1>2. kw.name \in {"COMPDAT", "WELOPEN", "WELOPENWell", "COMPLUMP", "WPIMULT", "WPIMULTWell", "WELPI",
                   "WELPIRuntime"}
  BY DEF BlockKeyword, DeckKeyword, ActionKeyword, Keyword
<1>3. Connections(h) \in Lists
  BY WorkFacts
<1>4. CASE kw.name = "COMPDAT"
  BY <1>4, HandledCOMPDAT DEF handleKeyword
<1>5. CASE kw.name = "WELOPEN"
  BY <1>5, HandledWELOPEN DEF handleKeyword
<1>6. CASE kw.name \in {"WELOPENWell", "WPIMULTWell"}
  BY <1>6, HandledElse
<1>7. CASE kw.name = "COMPLUMP"
  <2>1. g = updateConnections(h, TouchedAll("code", kw, Connections(h)))
    BY <1>1, <1>3, <1>7, HandlerTouches DEF handleKeyword
  <2> QED
    BY <1>7, <2>1, HandledByCopy
<1>8. CASE kw.name = "WPIMULT"
  <2>1. g = updateConnections(h, TouchedAll("code", kw, Connections(h)))
    BY <1>1, <1>3, <1>8, HandlerTouches DEF handleKeyword
  <2> QED
    BY <1>8, <2>1, HandledByCopy
<1>9. CASE kw.name = "WELPI"
  BY <1>9, HandledWELPI DEF handleKeyword
<1>10. CASE kw.name = "WELPIRuntime"
  BY <1>10, HandledWELPIRuntime DEF handleKeyword
<1> QED
  BY <1>2, <1>4, <1>5, <1>6, <1>7, <1>8, <1>9, <1>10

-----------------------------------------------------------------------------
(***************************************************************************)
(* Handling a block of keywords.                                           *)
(***************************************************************************)
HandleOp(p, h, kw) == handleKeyword(h, kw)
AppliedOp(mode, a, kw) == Applied(mode, a, kw)

Handling == INSTANCE Recursion WITH Op <- HandleOp, Inv <- NoInv
Applying == INSTANCE Recursion WITH Op <- AppliedOp, Inv <- NoInv

(* A set of numbers up to n has a greatest one. *)
LEMMA Greatest ==
  ASSUME NEW n \in Nat, NEW S \in SUBSET (1 .. n), S # {}
  PROVE  Max(S) \in S /\ \A y \in S : y <= Max(S)
<1> DEFINE T == {k \in 0 .. n : (\E y \in S : y <= k) => \E x \in S : \A y \in S : y <= k => y <= x}
<1>1. 0 \in T
  OBVIOUS
<1>2. ASSUME NEW k \in 1 .. n, k - 1 \in T PROVE k \in T
  <2>1. CASE k \in S
    BY <2>1
  <2>2. CASE k \notin S
    <3>1. \A y \in S : y <= k => y <= k - 1
      BY <2>2
    <3> QED
      BY <1>2, <3>1
  <2> QED
    BY <2>1, <2>2
<1>3. n \in T
  <2> HIDE DEF T
  <2> QED
    BY <1>1, <1>2, UpTo
<1>4. \E x \in S : \A y \in S : y <= x
  <2>0. PICK y : y \in S
    BY ONLY S # {}
  <2>1. y \in S /\ y <= n
    BY <2>0
  <2>2. PICK x \in S : \A z \in S : z <= n => z <= x
    BY <1>3, <2>1
  <2> QED
    BY <2>2
<1>5. \E x \in S : \A y \in S : x >= y
  BY <1>4
<1>6. Max(S) \in S /\ \A y \in S : Max(S) >= y
  BY <1>5 DEF Max
<1> QED
  BY <1>6

(* The factor for the whole well is that of its last keyword. *)
LEMMA GlobalFactorFacts ==
  ASSUME NEW block \in Seq(BlockKeyword), NEW F, F[0] = 0,
         \A k \in 1 .. Len(block) :
            F[k] = IF block[k].name = "WPIMULTWell" THEN block[k].WELLPI ELSE F[k - 1]
  PROVE  F[Len(block)] = GlobalFactor(block)
<1> DEFINE n == Len(block)
           I == {i \in 1 .. n : block[i].name = "WPIMULTWell"}
           T == {k \in 0 .. n : /\ (\A j \in I : j > k) => F[k] = 0
                                /\ \A i \in I : (i <= k /\ \A j \in I : j <= k => j <= i) => F[k] = block[i].WELLPI}
<1>1. n \in Nat /\ 0 \in T
  OBVIOUS
<1>2. ASSUME NEW k \in 1 .. n, k - 1 \in T PROVE k \in T
  <2>1. CASE block[k].name = "WPIMULTWell"
    <3>1. k \in I /\ F[k] = block[k].WELLPI
      BY <2>1
    <3>2. \A i \in I : (i <= k /\ \A j \in I : j <= k => j <= i) => i = k
      BY <3>1
    <3> QED
      BY <3>1, <3>2
  <2>2. CASE block[k].name # "WPIMULTWell"
    <3>1. k \notin I /\ F[k] = F[k - 1]
      BY <2>2
    <3>2. \A j \in I : j <= k <=> j <= k - 1
      BY <3>1
    <3> QED
      BY <1>2, <3>1, <3>2
  <2> QED
    BY <2>1, <2>2
<1>3. n \in T
  <2> HIDE DEF T, n
  <2> QED
    BY <1>1, <1>2, UpTo
<1>4. SelectLastInSeq(block, LAMBDA kw : kw.name = "WPIMULTWell") = IF I # {} THEN Max(I) ELSE 0
  BY DEF SelectLastInSeq
<1>5. CASE I = {}
  BY <1>3, <1>4, <1>5 DEF GlobalFactor
<1>6. CASE I # {}
  <2>1. Max(I) \in I /\ \A y \in I : y <= Max(I)
    <3>1. I \in SUBSET (1 .. n)
      OBVIOUS
    <3> HIDE DEF I
    <3> QED
      BY <1>1, <1>6, <3>1, Greatest
  <2>2. F[n] = block[Max(I)].WELLPI /\ Max(I) # 0
    BY <1>3, <2>1
  <2> QED
    BY <1>4, <1>6, <2>2 DEF GlobalFactor
<1> QED
  BY <1>5, <1>6

(* The status of the well changes nothing about connections. *)
LEMMA StatusUpdated ==
  ASSUME NEW h, IsWork(h), NEW status \in States, NEW g, g = updateWellStatus(h, status)
  PROVE  /\ IsWork(g)
         /\ g.well.connections = h.well.connections
         /\ g.objects = h.objects /\ g.step = h.step /\ g.welpi = h.welpi
         /\ g.wpimult_global_factor = h.wpimult_global_factor
         /\ g.open_requests = h.open_requests
         /\ Connections(g) = Connections(h)
<1>1. g = h \/ g = [h EXCEPT !.well.status = status]
  BY DEF updateWellStatus
<1>2. CASE g = [h EXCEPT !.well.status = status]
  <2>1. /\ g = [well |-> g.well, open_requests |-> g.open_requests, welpi |-> g.welpi, objects |-> g.objects,
                step |-> g.step, pending |-> g.pending, wpimult_global_factor |-> g.wpimult_global_factor]
        /\ g.well = [connections |-> g.well.connections, status |-> g.well.status]
        /\ g.well.connections = h.well.connections /\ g.well.status = status
        /\ g.objects = h.objects /\ g.step = h.step /\ g.welpi = h.welpi
        /\ g.wpimult_global_factor = h.wpimult_global_factor
        /\ g.open_requests = h.open_requests
    BY <1>2 DEF IsWork
  <2>2. IsWork(g)
    BY <2>1 DEF IsWork
  <2> QED
    BY <2>1, <2>2 DEF Connections
<1> QED
  BY <1>1, <1>2

(* Scaling by the factor 0 changes nothing. *)
LEMMA ScaledByZero ==
  ASSUME NEW mode, NEW a, IsView(a), NEW kw, kw = [name |-> "Scale", factor |-> 0]
  PROVE  Applied(mode, a, kw) = a
<1>1. kw.name = "Scale" /\ kw.factor = 0
  OBVIOUS
<1>2. ASSUME NEW x \in Connection PROVE Touched(mode, kw, x) = x
  <2>1. Multiplier(mode, kw, x) = 0
    BY <1>1 DEF Multiplier
  <2>2. x \in Connection
    OBVIOUS
  <2> QED
    BY ONLY <1>1, <2>1, <2>2, ConnectionIs DEF Touched
<1>3. /\ a = [n |-> a.n, v |-> a.v]
      /\ a.v = [cell \in DOMAIN a.v |-> a.v[cell]]
      /\ \A cell \in DOMAIN a.v : a.v[cell] \in Connection
  BY DEF IsView
<1>4. [cell \in DOMAIN a.v |-> Touched(mode, kw, a.v[cell])] = [cell \in DOMAIN a.v |-> a.v[cell]]
  BY <1>2, <1>3
<1> QED
  BY <1>1, <1>3, <1>4 DEF Applied

(* The end of a block. *)
LEMMA HandledFinish ==
  ASSUME NEW h, IsWork(h), NEW kw, kw = [name |-> "Scale", factor |-> h.wpimult_global_factor],
         NEW g, g = finished(h)
  PROVE  Handled(h, kw, g)
<1> DEFINE c == Connections(h)
           d == TouchedAll("code", kw, c)
           m == IF h.wpimult_global_factor = 0 THEN h ELSE updateConnections(h, d)
<1>1. c \in Lists /\ kw \in EffectKeyword /\ kw.name = "Scale" /\ kw.factor = h.wpimult_global_factor
  BY WorkFacts DEF EffectKeyword, IsWork
<1>2. applyGlobalWPIMULT(c, h.wpimult_global_factor) = d
  BY <1>1, HandlerTouches
<1>3. /\ d \in Lists
      /\ View(d) = Applied("code", View(c), kw)
      /\ KeepPlaces(c, d) /\ SameTasks(c, d)
  BY <1>1, TouchedAllFacts
<1>4. g = IF allConnectionsShut(Connections(m)) THEN updateWellStatus(m, "SHUT") ELSE m
  BY <1>2 DEF finished
<1>5. Handled(h, kw, m)
  <2>1. CASE h.wpimult_global_factor = 0
    <3>1. m = h
      BY <2>1
    <3>2. View(c) = Applied("code", View(c), kw)
      BY <1>1, <2>1, ViewFacts, ScaledByZero
    <3>3. KeepPlaces(c, c)
      BY <1>1, KeepPlacesOn
    <3> QED
      BY <1>1, <3>1, <3>2, <3>3 DEF Handled
  <2>2. CASE h.wpimult_global_factor # 0
    <3>1. m = updateConnections(h, d)
      BY <2>2
    <3> HIDE DEF d, m, c
    <3>2. /\ IsWork(m)
          /\ Elsewhere(h, m)
          /\ m.open_requests = h.open_requests
          /\ m.welpi = h.welpi
          /\ m.wpimult_global_factor = h.wpimult_global_factor
          /\ View(Connections(m)) = View(d)
          /\ ordering # "DEPTH" => Connections(m) = d
          /\ \A requests : Stand(d, requests) => Stand(Connections(m), requests)
      BY <1>3, <3>1, Updated
    <3>3. Stand(c, h.open_requests) => Stand(d, h.open_requests)
      BY <1>3 DEF SameTasks, KeepPlaces, Stand
    <3> QED
      BY <1>1, <1>3, <3>2, <3>3 DEF Handled, Elsewhere, c
  <2> QED
    BY <2>1, <2>2
<1> HIDE DEF m, d, c
<1>6. CASE g = m
  BY <1>5, <1>6
<1>7. CASE g = updateWellStatus(m, "SHUT")
  <2>1. IsWork(m) /\ "SHUT" \in States
    BY <1>5 DEF Handled, States
  <2>2. /\ IsWork(g)
        /\ g.well.connections = m.well.connections
        /\ g.objects = m.objects /\ g.step = m.step /\ g.welpi = m.welpi
        /\ g.wpimult_global_factor = m.wpimult_global_factor
        /\ g.open_requests = m.open_requests
        /\ Connections(g) = Connections(m)
    BY <1>7, <2>1, StatusUpdated
  <2> QED
    BY <1>5, <2>2 DEF Handled
<1> QED
  BY <1>4, <1>6, <1>7

(* What handling the effects of a block does. *)
HandledAll(h, effects, g) ==
  /\ IsWork(g)
  /\ g.step = h.step
  /\ g.well.connections \in {h.well.connections, h.step}
  /\ \A t \in Steps : t # h.step => \/ g.objects[t] = h.objects[t]
                                    \/ /\ t = h.well.connections /\ "WELPIRuntime" \in NamesIn(effects)
                                       /\ SameTasks(h.objects[t], g.objects[t])
  /\ View(Connections(g)) = Applying!Fold("code", View(Connections(h)), effects)
  /\ ordering # "DEPTH" => KeepPlaces(Connections(h), Connections(g))
  /\ "COMPLUMP" \notin NamesIn(effects) /\ Stand(Connections(h), h.open_requests) =>
       Stand(Connections(g), g.open_requests)
  /\ g.welpi <=> h.welpi \/ "WELPI" \in NamesIn(effects)
  /\ /\ "WELPI" \in NamesIn(effects) /\ "WELPIRuntime" \notin NamesIn(effects)
     /\ g.well.connections # g.step
     => allSubject(Connections(g))

(* WELPI makes all the connections subject to scaling. *)
LEMMA SubjectMade ==
  ASSUME NEW c \in Lists, NEW d \in Lists, NEW kw \in EffectKeyword, kw.name = "WELPI",
         View(d) = Applied("code", View(c), kw)
  PROVE  allSubject(d)
<1>1. View(d).v = [cell \in DOMAIN View(c).v |-> Touched("code", kw, View(c).v[cell])]
  BY DEF Applied
<1>2. \A i \in DOMAIN d : d[i].cell \in DOMAIN View(d).v /\ View(d).v[d[i].cell] = d[i]
  BY ViewFacts
<1>3. ASSUME NEW x PROVE Touched("code", kw, x).subject_to_welpi
  <2>1. Touched("code", kw, x).subject_to_welpi = TRUE
    BY DEF Touched
  <2> QED
    BY <2>1
<1>4. \A i \in DOMAIN d : d[i] = Touched("code", kw, View(c).v[d[i].cell])
  BY <1>1, <1>2
<1> QED
  BY <1>3, <1>4 DEF allSubject

(* Connections of an earlier step are left alone. *)
LEMMA HandledKeeps ==
  ASSUME NEW h, IsWork(h), NEW kw, kw.name # "WELPIRuntime", NEW g, Handled(h, kw, g),
         g.well.connections # g.step
  PROVE  /\ Connections(g) = Connections(h)
         /\ h.well.connections = g.well.connections /\ h.well.connections # h.step
BY DEF Handled, IsWork, Connections

(* One keyword after the other. *)
LEMMA HandledSequence ==
  ASSUME NEW h, IsWork(h), NEW effects \in Seq(EffectKeyword), NEW F, F[0] = h,
         \A k \in 1 .. Len(effects) : IsWork(F[k - 1]) => Handled(F[k - 1], effects[k], F[k])
  PROVE  HandledAll(h, effects, F[Len(effects)])
<1> DEFINE n == Len(effects)
           names == NamesIn(effects)
<1>1. n \in Nat /\ (\A k \in 1 .. n : effects[k] \in EffectKeyword /\ effects[k].name \in names)
                /\ \A name \in names : \E k \in 1 .. n : effects[k].name = name
  BY DEF NamesIn
<1>2. PICK V : /\ V[0] = View(Connections(h))
               /\ \A k \in 1 .. n : V[k] = AppliedOp("code", V[k - 1], effects[k])
               /\ Applying!Fold("code", View(Connections(h)), effects) = V[n]
  BY Applying!FoldRuns
<1> DEFINE Good(k, f) ==
      /\ IsWork(f)
      /\ f.step = h.step
      /\ f.well.connections \in {h.well.connections, h.step}
      /\ \A t \in Steps : t # h.step => \/ f.objects[t] = h.objects[t]
                                        \/ /\ t = h.well.connections /\ "WELPIRuntime" \in names
                                           /\ SameTasks(h.objects[t], f.objects[t])
      /\ View(Connections(f)) = V[k]
      /\ ordering # "DEPTH" => KeepPlaces(Connections(h), Connections(f))
      /\ "COMPLUMP" \notin names /\ Stand(Connections(h), h.open_requests) =>
           Stand(Connections(f), f.open_requests)
      /\ f.welpi <=> h.welpi \/ \E j \in 1 .. k : effects[j].name = "WELPI"
      /\ /\ \E j \in 1 .. k : effects[j].name = "WELPI"
         /\ "WELPIRuntime" \notin names /\ f.well.connections # f.step
         => allSubject(Connections(f))
           T == {k \in 0 .. n : Good(k, F[k])}
<1>3. 0 \in T
  <2>1. KeepPlaces(Connections(h), Connections(h))
    BY WorkFacts, KeepPlacesOn
  <2>2. ~\E j \in 1 .. 0 : effects[j].name = "WELPI"
    OBVIOUS
  <2> HIDE DEF n, names
  <2>3. Good(0, h)
    BY <1>2, <2>1, <2>2
  <2> HIDE DEF Good
  <2> QED
    BY <1>1, <2>3
<1>4. ASSUME NEW k \in 1 .. n, k - 1 \in T PROVE k \in T
  <2> DEFINE e == F[k - 1]
             f == F[k]
             kw == effects[k]
  <2>1. Good(k - 1, e)
    BY <1>4
  <2>2. Handled(e, kw, f) /\ kw \in EffectKeyword /\ kw.name \in names
    BY <1>1, <2>1
  <2>3. V[k] = Applied("code", V[k - 1], kw)
    BY <1>2 DEF AppliedOp
  <2>4. (\E j \in 1 .. k : effects[j].name = "WELPI")
           <=> kw.name = "WELPI" \/ \E j \in 1 .. k - 1 : effects[j].name = "WELPI"
    <3>1. \A j \in 1 .. k : j = k \/ j \in 1 .. k - 1
      OBVIOUS
    <3>2. k \in 1 .. k /\ \A j \in 1 .. k - 1 : j \in 1 .. k
      OBVIOUS
    <3> QED
      BY <3>1, <3>2
  <2> DEFINE before == \E j \in 1 .. k - 1 : effects[j].name = "WELPI"
             after == \E j \in 1 .. k : effects[j].name = "WELPI"
  <2> HIDE DEF e, f, kw, n, names, before, after
  <2>5. IsWork(f) /\ f.step = h.step /\ f.well.connections \in {h.well.connections, h.step}
    BY <2>1, <2>2 DEF Handled
  <2>6. ASSUME NEW t \in Steps, t # h.step
        PROVE  \/ f.objects[t] = h.objects[t]
               \/ /\ t = h.well.connections /\ "WELPIRuntime" \in names
                  /\ SameTasks(h.objects[t], f.objects[t])
    <3>1. \/ f.objects[t] = e.objects[t]
          \/ /\ t = h.well.connections /\ "WELPIRuntime" \in names
             /\ SameTasks(e.objects[t], f.objects[t])
      BY <2>1, <2>2, <2>6 DEF Handled
    <3>2. \/ e.objects[t] = h.objects[t]
          \/ /\ t = h.well.connections /\ "WELPIRuntime" \in names
             /\ SameTasks(h.objects[t], e.objects[t])
      BY <2>1, <2>6
    <3>3. h.objects[t] \in Lists /\ e.objects[t] \in Lists /\ f.objects[t] \in Lists
      BY <2>1, <2>5 DEF IsWork
    <3> QED
      BY <3>1, <3>2, <3>3, KeepPlacesOn
  <2>7. View(Connections(f)) = V[k]
    BY <2>1, <2>2, <2>3 DEF Handled
  <2>8. ordering # "DEPTH" => KeepPlaces(Connections(h), Connections(f))
    <3>1. Connections(h) \in Lists /\ Connections(e) \in Lists /\ Connections(f) \in Lists
      BY <2>1, <2>5, WorkFacts
    <3> QED
      BY <2>1, <2>2, <3>1, KeepPlacesOn DEF Handled
  <2>9. "COMPLUMP" \notin names /\ Stand(Connections(h), h.open_requests) =>
           Stand(Connections(f), f.open_requests)
    BY <2>1, <2>2 DEF Handled
  <2>10. f.welpi <=> h.welpi \/ after
    BY <2>1, <2>2, <2>4 DEF Handled, before, after
  <2>11. ASSUME after, "WELPIRuntime" \notin names, f.well.connections # f.step
         PROVE  allSubject(Connections(f))
    <3>1. CASE kw.name = "WELPI"
      <4>1. Connections(e) \in Lists /\ Connections(f) \in Lists
        BY <2>1, <2>5, WorkFacts
      <4>2. View(Connections(f)) = Applied("code", View(Connections(e)), kw)
        BY <2>2 DEF Handled
      <4> QED
        BY <2>2, <3>1, <4>1, <4>2, SubjectMade
    <3>2. CASE kw.name # "WELPI"
      <4>1. before /\ kw.name # "WELPIRuntime"
        BY <2>2, <2>4, <2>11, <3>2 DEF before, after
      <4>2. Connections(f) = Connections(e) /\ e.well.connections # e.step
        BY <2>1, <2>2, <2>11, <4>1, HandledKeeps
      <4> QED
        BY <2>1, <2>11, <4>1, <4>2 DEF before
    <3> QED
      BY <3>1, <3>2
  <2>12. Good(k, f)
    BY <2>5, <2>6, <2>7, <2>8, <2>9, <2>10, <2>11 DEF after
  <2> HIDE DEF Good
  <2> QED
    BY <2>12 DEF f, n
<1>5. Good(n, F[n])
  <2> HIDE DEF Good
  <2>1. n \in T
    <3> HIDE DEF T, n
    <3> QED
      BY <1>1, <1>3, <1>4, UpTo
  <2> QED
    BY <2>1
<1>6. \A name \in {"WELPI"} : name \in names <=> \E j \in 1 .. n : effects[j].name = name
  BY <1>1
<1> HIDE DEF n
<1>7. HandledAll(h, effects, F[n])
  BY <1>2, <1>5, <1>6 DEF HandledAll
<1> QED
  BY <1>7 DEF n

(* A block, with the factor for the whole well at its end. *)
LEMMA HandledBlock ==
  ASSUME NEW h, IsWork(h), h.wpimult_global_factor = 0, NEW block \in Seq(BlockKeyword),
         NEW g, g = finished(FoldLeft(handleKeyword, h, block))
  PROVE  HandledAll(h, Effects(block), g) /\ Effects(block) \in Seq(EffectKeyword)
<1> DEFINE n == Len(block)
           scale == [name |-> "Scale", factor |-> GlobalFactor(block)]
           effects == Effects(block)
<1>1. n \in Nat /\ \A k \in 1 .. n : block[k] \in BlockKeyword /\ block[k] \in EffectKeyword
  BY DEF BlockKeyword, EffectKeyword
<1>2. PICK F : /\ F[0] = h
               /\ \A k \in 1 .. n : F[k] = HandleOp(<< >>, F[k - 1], block[k])
               /\ Handling!Fold(<< >>, h, block) = F[n]
  BY Handling!FoldRuns
<1>3. FoldLeft(handleKeyword, h, block) = Handling!Fold(<< >>, h, block)
  BY DEF Handling!Fold, HandleOp, FoldLeft, MapThenFoldSet, Handling!MapThenFoldSet, Max, Handling!Max
<1>4. g = finished(F[n])
  BY <1>2, <1>3
<1>5. \A k \in 1 .. n : IsWork(F[k - 1]) => Handled(F[k - 1], block[k], F[k])
  BY <1>1, <1>2, HandledKeyword DEF HandleOp
<1> HIDE DEF n
<1>6. \A k \in 0 .. n : IsWork(F[k])
  <2> DEFINE T == {k \in 0 .. n : IsWork(F[k])}
  <2>1. 0 \in T
    BY <1>1, <1>2
  <2>2. \A k \in 1 .. n : k - 1 \in T => k \in T
    BY <1>1, <1>5 DEF Handled
  <2> HIDE DEF T
  <2>3. \A k \in 0 .. n : k \in T
    BY <1>1, <2>1, <2>2, UpTo
  <2> QED
    BY <2>3 DEF T
<1>7. F[n].wpimult_global_factor = GlobalFactor(block)
  <2> DEFINE W == [k \in 0 .. n |-> F[k].wpimult_global_factor]
  <2>1. W[0] = 0
    BY <1>1, <1>2
  <2>2. \A k \in 1 .. n : W[k] = IF block[k].name = "WPIMULTWell" THEN block[k].WELLPI ELSE W[k - 1]
    BY <1>1, <1>5, <1>6 DEF Handled
  <2>3. W[n] = F[n].wpimult_global_factor
    BY <1>1
  <2> HIDE DEF W
  <2> QED
    BY <2>1, <2>2, <2>3, GlobalFactorFacts DEF n
<1>8. IsWork(F[n]) /\ GlobalFactor(block) \in Int
  BY <1>1, <1>6, <1>7 DEF IsWork
<1>9. Handled(F[n], scale, g)
  BY <1>4, <1>7, <1>8, HandledFinish
<1>10. scale \in EffectKeyword
  BY <1>8 DEF EffectKeyword
<1> DEFINE E == [k \in 0 .. n + 1 |-> IF k = n + 1 THEN g ELSE F[k]]
<1>11. effects \in Seq(EffectKeyword) /\ Len(effects) = n + 1 /\ effects[n + 1] = scale
       /\ \A k \in 1 .. n : effects[k] = block[k]
  <2>1. block \in Seq(EffectKeyword) /\ Len(block) = n
    BY <1>1 DEF n
  <2> HIDE DEF scale
  <2>2. effects = Append(block, scale)
    BY <2>1 DEF Effects, scale
  <2> QED
    BY <1>10, <2>1, <2>2
<1> HIDE DEF effects, scale
<1>12. E[0] = h /\ E[n + 1] = g
  BY <1>1, <1>2
<1>13. \A k \in 1 .. Len(effects) : IsWork(E[k - 1]) => Handled(E[k - 1], effects[k], E[k])
  <2> SUFFICES ASSUME NEW k \in 1 .. n + 1, IsWork(E[k - 1])
               PROVE  Handled(E[k - 1], effects[k], E[k])
    BY <1>11
  <2>1. CASE k = n + 1
    BY <1>1, <1>9, <1>11, <2>1
  <2>2. CASE k # n + 1
    <3>1. k \in 1 .. n /\ E[k - 1] = F[k - 1] /\ E[k] = F[k]
      BY <1>1, <2>2
    <3> QED
      BY <1>5, <1>11, <3>1
  <2> QED
    BY <2>1, <2>2
<1> HIDE DEF E
<1> QED
  BY <1>11, <1>12, <1>13, HandledSequence DEF effects

-----------------------------------------------------------------------------
(***************************************************************************)
(* A block at a step of the timeline, and the replay of the steps after.   *)
(***************************************************************************)
NameAt(p, s)  == p.snapshots[s].well.connections
ConnsAt(p, s) == p.objects[NameAt(p, s)]

IsTimeline(p) ==
  /\ p = [objects |-> p.objects, snapshots |-> p.snapshots]
  /\ p.objects = [s \in Steps |-> p.objects[s]]
  /\ \A s \in Steps : p.objects[s] \in Lists
  /\ p.snapshots = [s \in Steps |-> p.snapshots[s]]
  /\ \A s \in Steps : p.snapshots[s] \in Snapshot /\ NameAt(p, s) \in Steps /\ NameAt(p, s) <= s

(* What a block with these effects does to the step. *)
BlockDone(p, step, effects, q) ==
  /\ IsTimeline(q)
  /\ \A t \in Steps : t # step => q.snapshots[t] = p.snapshots[t]
  /\ NameAt(q, step) \in {NameAt(p, step), step}
  /\ \A t \in Steps : t # step => \/ q.objects[t] = p.objects[t]
                                  \/ /\ t = NameAt(p, step) /\ "WELPIRuntime" \in NamesIn(effects)
                                     /\ SameTasks(p.objects[t], q.objects[t])
  /\ View(ConnsAt(q, step)) = Applying!Fold("code", View(ConnsAt(p, step)), effects)
  /\ ordering # "DEPTH" => KeepPlaces(ConnsAt(p, step), ConnsAt(q, step))
  /\ "COMPLUMP" \notin NamesIn(effects) /\ Stand(ConnsAt(p, step), p.snapshots[step].open_requests) =>
       Stand(ConnsAt(q, step), q.snapshots[step].open_requests)
  /\ q.snapshots[step].welpi <=> p.snapshots[step].welpi \/ "WELPI" \in NamesIn(effects)
  /\ /\ "WELPI" \in NamesIn(effects) /\ "WELPIRuntime" \notin NamesIn(effects)
     /\ NameAt(q, step) # step
     => allSubject(ConnsAt(q, step))

(* handleBlock does what its effects say.                                 *)
LEMMA BlockFacts ==
  ASSUME NEW p, IsTimeline(p), NEW step \in Steps, NEW block \in Seq(BlockKeyword),
         NEW q, q = handleBlock(p, step, block)
  PROVE  BlockDone(p, step, Effects(block), q) /\ Effects(block) \in Seq(EffectKeyword)
<1> DEFINE s == p.snapshots[step]
           h == [well |-> s.well, open_requests |-> s.open_requests, welpi |-> s.welpi,
                 objects |-> p.objects, step |-> step, pending |-> << >>, wpimult_global_factor |-> 0]
           g == finished(FoldLeft(handleKeyword, h, block))
           new == [well |-> g.well, open_requests |-> g.open_requests, welpi |-> g.welpi]
<1>1. q = [objects |-> g.objects, snapshots |-> [p.snapshots EXCEPT ![step] = new]]
  BY DEF handleBlock
<1>2. /\ s.well = [connections |-> s.well.connections, status |-> s.well.status]
      /\ s.well.connections \in Steps /\ s.well.status \in States
      /\ s.well.connections <= step
      /\ s.open_requests \subseteq Nat \ {0}
      /\ s.welpi \in BOOLEAN
      /\ s.well.connections = NameAt(p, step)
  BY DEF IsTimeline, Snapshot, Well, NameAt
<1> HIDE DEF s
<1>3. /\ h.well = s.well /\ h.open_requests = s.open_requests /\ h.welpi = s.welpi
      /\ h.objects = p.objects /\ h.step = step /\ h.wpimult_global_factor = 0
      /\ h = [well |-> h.well, open_requests |-> h.open_requests, welpi |-> h.welpi, objects |-> h.objects,
          step |-> h.step, pending |-> h.pending, wpimult_global_factor |-> h.wpimult_global_factor]
  OBVIOUS
<1> HIDE DEF h
<1>4. IsWork(h)
  BY <1>2, <1>3 DEF IsWork, IsTimeline
<1>5. HandledAll(h, Effects(block), g) /\ Effects(block) \in Seq(EffectKeyword)
  BY <1>3, <1>4, HandledBlock
<1> HIDE DEF g
<1>6. new \in Snapshot /\ new.well = g.well /\ new.open_requests = g.open_requests /\ new.welpi = g.welpi
  BY <1>5 DEF HandledAll, IsWork, Snapshot, Well
<1> HIDE DEF new
<1>7. /\ q = [objects |-> q.objects, snapshots |-> q.snapshots]
      /\ q.objects = g.objects
      /\ q.snapshots = [p.snapshots EXCEPT ![step] = new]
  BY <1>1
<1>8. /\ q.snapshots = [t \in Steps |-> q.snapshots[t]]
      /\ q.snapshots[step] = new
      /\ \A t \in Steps : t # step => q.snapshots[t] = p.snapshots[t]
  BY <1>7 DEF IsTimeline
<1>9. NameAt(q, step) = g.well.connections /\ \A t \in Steps : t # step => NameAt(q, t) = NameAt(p, t)
  BY <1>6, <1>8 DEF NameAt
<1>10. \A t \in Steps : q.snapshots[t] \in Snapshot /\ NameAt(q, t) \in Steps /\ NameAt(q, t) <= t
  <2>1. NameAt(q, step) \in Steps /\ NameAt(q, step) <= step
    BY <1>3, <1>5, <1>9 DEF HandledAll, IsWork
  <2> QED
    BY <1>6, <1>8, <1>9, <2>1 DEF IsTimeline
<1>11. IsTimeline(q)
  <2>1. q.objects = [t \in Steps |-> q.objects[t]] /\ \A t \in Steps : q.objects[t] \in Lists
    BY <1>5, <1>7 DEF HandledAll, IsWork
  <2> QED
    BY <1>7, <1>8, <1>10, <2>1 DEF IsTimeline
<1>12. ConnsAt(q, step) = Connections(g) /\ ConnsAt(p, step) = Connections(h)
  BY <1>2, <1>3, <1>7, <1>9 DEF ConnsAt, Connections
<1>13. h.open_requests = p.snapshots[step].open_requests /\ h.welpi = p.snapshots[step].welpi
       /\ h.well.connections = NameAt(p, step)
  BY <1>2, <1>3 DEF s
<1>14. q.snapshots[step].open_requests = g.open_requests /\ q.snapshots[step].welpi = g.welpi
  BY <1>6, <1>8
<1> QED
  BY <1>3, <1>5, <1>7, <1>8, <1>9, <1>11, <1>12, <1>13, <1>14 DEF BlockDone, HandledAll

(* What handling the deck's keywords at a step, from the step before, has  *)
(* brought about there.                                                    *)
Built(q, s) ==
  /\ NameAt(q, s) \in {NameAt(q, s - 1), s}
  /\ View(ConnsAt(q, s)) = Applying!Fold("code", View(ConnsAt(q, s - 1)), Effects(deck[s]))
  /\ ordering # "DEPTH" => KeepPlaces(ConnsAt(q, s - 1), ConnsAt(q, s))
  /\ "COMPLUMP" \notin NamesIn(Effects(deck[s])) => Stand(ConnsAt(q, s), q.snapshots[s].open_requests)
  /\ q.snapshots[s].welpi <=> "WELPI" \in NamesIn(Effects(deck[s]))
  /\ q.snapshots[s].welpi /\ NameAt(q, s) # s => allSubject(ConnsAt(q, s))

(* The keywords of the deck. *)
LEMMA DeckFacts ==
  ASSUME deck \in Decks, NEW s \in Steps
  PROVE  /\ deck[s] \in Seq(DeckKeyword) /\ deck[s] \in Seq(BlockKeyword)
         /\ Effects(deck[s]) \in Seq(EffectKeyword)
         /\ "WELPIRuntime" \notin NamesIn(Effects(deck[s]))
         /\ "Found" \notin NamesIn(Effects(deck[s]))
         /\ "WELPI" \in NamesIn(Effects(deck[s])) <=> s \in ScalingSteps
<1> DEFINE block == deck[s]
           scale == [name |-> "Scale", factor |-> GlobalFactor(block)]
<1>1. block \in Seq(DeckKeyword)
  BY DecksAssumption
<1>2. \A kw \in DeckKeyword : kw \in BlockKeyword /\ kw \in EffectKeyword /\ kw.name \notin {"WELPIRuntime", "Found", "Scale"}
  BY DEF BlockKeyword, EffectKeyword, DeckKeyword, Keyword
<1>3. block \in Seq(BlockKeyword) /\ block \in Seq(EffectKeyword)
  BY <1>1, <1>2
<1>4. GlobalFactor(block) \in Int
  <2> DEFINE I == {i \in 1 .. Len(block) : block[i].name = "WPIMULTWell"}
  <2>1. SelectLastInSeq(block, LAMBDA kw : kw.name = "WPIMULTWell") = IF I # {} THEN Max(I) ELSE 0
    BY DEF SelectLastInSeq
  <2>2. CASE I = {}
    BY <2>1, <2>2 DEF GlobalFactor
  <2>3. CASE I # {}
    <3>1. Len(block) \in Nat /\ I \in SUBSET (1 .. Len(block))
      BY <1>1
    <3>2. Max(I) \in I
      <4> HIDE DEF I
      <4> QED
        BY <2>3, <3>1, Greatest
    <3>3. Max(I) # 0 /\ block[Max(I)] \in EffectKeyword /\ block[Max(I)].name = "WPIMULTWell"
      <4>1. PICK m : m = Max(I)
        OBVIOUS
      <4>2. m \in 1 .. Len(block) /\ block[m].name = "WPIMULTWell"
        BY <3>2, <4>1
      <4>3. m # 0 /\ block[m] \in EffectKeyword
        BY <1>3, <3>1, <4>2
      <4> QED
        BY <4>1, <4>2, <4>3
    <3>4. block[Max(I)].WELLPI \in Int
      BY <3>3, KeywordFacts
    <3> HIDE DEF I, block
    <3> QED
      BY <2>1, <2>3, <3>3, <3>4 DEF GlobalFactor
  <2> QED
    BY <2>2, <2>3
<1>5. scale \in EffectKeyword /\ scale.name = "Scale"
  BY <1>4 DEF EffectKeyword
<1>6. Effects(block) = Append(block, scale)
  <2> HIDE DEF block, scale
  <2> QED
    BY <1>3 DEF Effects, scale
<1> HIDE DEF block, scale
<1>7. /\ Effects(block) \in Seq(EffectKeyword)
      /\ DOMAIN Effects(block) = 1 .. Len(block) + 1
      /\ Effects(block)[Len(block) + 1] = scale
      /\ \A k \in 1 .. Len(block) : Effects(block)[k] = block[k]
      /\ Len(block) \in Nat
      /\ DOMAIN block = 1 .. Len(block)
      /\ \A k \in 1 .. Len(block) : block[k] \in DeckKeyword
  BY <1>1, <1>3, <1>5, <1>6
<1>8. ASSUME NEW name PROVE name \in NamesIn(Effects(block)) <=> name = "Scale" \/ name \in NamesIn(block)
  <2>1. \A k : k \in DOMAIN Effects(block) <=> k = Len(block) + 1 \/ k \in DOMAIN block
    BY <1>7
  <2>2. \A k \in DOMAIN Effects(block) : Effects(block)[k].name
          = IF k \in DOMAIN block THEN block[k].name ELSE "Scale"
    BY <1>5, <1>7, <2>1
  <2>3. Len(block) + 1 \notin DOMAIN block
    BY <1>7
  <2> QED
    BY <2>1, <2>2, <2>3 DEF NamesIn
<1>9. \A name \in NamesIn(block) : name \notin {"WELPIRuntime", "Found"}
  BY <1>2, <1>7 DEF NamesIn
<1>10. "WELPI" \in NamesIn(block) <=> s \in ScalingSteps
  BY DEF ScalingSteps, block
<1>11. /\ "WELPIRuntime" \notin NamesIn(Effects(block)) /\ "Found" \notin NamesIn(Effects(block))
       /\ "WELPI" \in NamesIn(Effects(block)) <=> "WELPI" \in NamesIn(block)
  BY <1>8, <1>9
<1> QED
  BY <1>1, <1>3, <1>7, <1>10, <1>11 DEF block

(* One step of a replay. *)
StepDone(p, step, q) ==
  /\ IsTimeline(q)
  /\ \A t \in Steps : t # step => q.snapshots[t] = p.snapshots[t] /\ q.objects[t] = p.objects[t]
  /\ Built(q, step)

(* nextStep does so from the step before.                                 *)
LEMMA StepFacts ==
  ASSUME deck \in Decks, NEW p, IsTimeline(p), NEW step \in Steps, step # 0, NEW q, q = nextStep(p, step)
  PROVE  StepDone(p, step, q)
<1> DEFINE before == p.snapshots[step - 1]
           next == createNext(before)
<1>1. step - 1 \in Steps /\ step \in Int /\ step - 1 < step
  BY StepsAssumption DEF Steps
<1>2. PICK no \in BOOLEAN : no = FALSE
  OBVIOUS
<1>3. next = [before EXCEPT !.open_requests = {}, !.welpi = no]
  BY ONLY <1>2, Zenon DEF createNext
<1>4. before \in Snapshot /\ NameAt(p, step - 1) \in Steps /\ NameAt(p, step - 1) <= step - 1
  BY <1>1 DEF IsTimeline
<1>5. next \in Snapshot /\ next.well = before.well /\ next.open_requests = {} /\ ~next.welpi
  <2> HIDE DEF next, before
  <2> QED
    BY <1>2, <1>3, <1>4 DEF Snapshot
<1>0. PICK r : r = [p EXCEPT !.objects[step] = << >>, !.snapshots[step] = next]
  OBVIOUS
<1>6. q = handleBlock(r, step, deck[step])
  BY <1>0 DEF nextStep
<1> HIDE DEF next
<1>7. /\ r = [objects |-> r.objects, snapshots |-> r.snapshots]
      /\ r.objects = [p.objects EXCEPT ![step] = << >>]
      /\ r.snapshots = [p.snapshots EXCEPT ![step] = next]
  BY <1>0 DEF IsTimeline
<1>8. /\ r.objects = [t \in Steps |-> r.objects[t]]
      /\ r.objects[step] = << >>
      /\ \A t \in Steps : t # step => r.objects[t] = p.objects[t]
  BY <1>7 DEF IsTimeline
<1>9. /\ r.snapshots = [t \in Steps |-> r.snapshots[t]]
      /\ r.snapshots[step] = next
      /\ \A t \in Steps : t # step => r.snapshots[t] = p.snapshots[t]
  BY <1>7 DEF IsTimeline
<1>10. << >> \in Lists
  BY DEF Lists
<1>11. NameAt(r, step) = NameAt(p, step - 1) /\ \A t \in Steps : t # step => NameAt(r, t) = NameAt(p, t)
  BY <1>5, <1>9 DEF NameAt
<1> HIDE DEF before
<1>12. \A t \in Steps : r.snapshots[t] \in Snapshot /\ NameAt(r, t) \in Steps /\ NameAt(r, t) <= t
  <2>1. NameAt(r, step) \in Steps /\ NameAt(r, step) <= step
    BY <1>1, <1>4, <1>11 DEF Steps
  <2> QED
    BY <1>5, <1>9, <1>11, <2>1 DEF IsTimeline
<1>13. \A t \in Steps : r.objects[t] \in Lists
  BY <1>8, <1>10 DEF IsTimeline
<1>14. IsTimeline(r)
  BY <1>7, <1>8, <1>9, <1>12, <1>13 DEF IsTimeline
<1> DEFINE effects == Effects(deck[step])
<1>15. BlockDone(r, step, effects, q)
  BY <1>6, <1>14, BlockFacts, DeckFacts
<1>16. "WELPIRuntime" \notin NamesIn(effects)
  BY DeckFacts
<1> HIDE DEF effects
<1>17. \A t \in Steps : t # step => q.snapshots[t] = p.snapshots[t] /\ q.objects[t] = p.objects[t]
  BY <1>8, <1>9, <1>15, <1>16 DEF BlockDone
<1>18. NameAt(q, step - 1) = NameAt(p, step - 1) /\ step - 1 # step
  BY <1>1, <1>17 DEF NameAt
<1>19. NameAt(p, step - 1) # step
  BY <1>1, <1>4 DEF Steps
<1>20. ConnsAt(r, step) = ConnsAt(p, step - 1) /\ ConnsAt(q, step - 1) = ConnsAt(p, step - 1)
  BY <1>4, <1>8, <1>11, <1>17, <1>18, <1>19 DEF ConnsAt
<1>21. Stand(ConnsAt(r, step), r.snapshots[step].open_requests) /\ ~r.snapshots[step].welpi
  BY <1>5, <1>9 DEF Stand
<1>22. Built(q, step)
  BY <1>11, <1>15, <1>16, <1>18, <1>20, <1>21 DEF BlockDone, Built, effects
<1> QED
  BY <1>15, <1>17, <1>22 DEF StepDone, BlockDone

(* Steps built stay so as long as nothing they are built from changes. *)
LEMMA BuiltKept ==
  ASSUME NEW p, NEW q, NEW s, Built(p, s), q.snapshots[s] = p.snapshots[s], q.snapshots[s - 1] = p.snapshots[s - 1],
         q.objects[NameAt(p, s)] = p.objects[NameAt(p, s)],
         q.objects[NameAt(p, s - 1)] = p.objects[NameAt(p, s - 1)]
  PROVE  Built(q, s)
<1>1. NameAt(q, s) = NameAt(p, s) /\ NameAt(q, s - 1) = NameAt(p, s - 1)
  BY DEF NameAt
<1>2. ConnsAt(q, s) = ConnsAt(p, s) /\ ConnsAt(q, s - 1) = ConnsAt(p, s - 1)
  BY <1>1 DEF ConnsAt
<1> QED
  BY <1>1, <1>2 DEF Built

NextStepOp(p, q, step) == nextStep(q, step)
Replaying == INSTANCE Recursion WITH Op <- NextStepOp, Inv <- NoInv

(* The replay from a step on. *)
Replayed(p, from, q) ==
  /\ IsTimeline(q)
  /\ \A t \in Steps : t < from => q.snapshots[t] = p.snapshots[t] /\ q.objects[t] = p.objects[t]
  /\ \A s \in from .. LastStep : Built(q, s)

(* iterateScheduleSection builds every step from the given one on.        *)
LEMMA ReplayFacts ==
  ASSUME deck \in Decks, NEW p, IsTimeline(p), NEW from \in 1 .. LastStep + 1,
         NEW q, q = iterateScheduleSection(p, from)
  PROVE  Replayed(p, from, q)
<1> DEFINE n == LastStep - from + 1
           steps == [i \in 1 .. n |-> from + i - 1]
<1>1. n \in Nat /\ from \in Nat /\ from >= 1 /\ n = LastStep - from + 1
  BY StepsAssumption
<1>2. steps \in Seq(Steps) /\ Len(steps) = n /\ \A i \in 1 .. n : steps[i] = from + i - 1
  BY <1>1, StepsAssumption DEF Steps
<1>3. q = Replaying!Fold(<< >>, p, steps)
  BY DEF iterateScheduleSection, Replaying!Fold, NextStepOp, FoldLeft, MapThenFoldSet, Replaying!MapThenFoldSet,
         Max, Replaying!Max
<1> HIDE DEF n, steps
<1>4. PICK F : /\ F[0] = p
               /\ \A k \in 1 .. Len(steps) : F[k] = NextStepOp(<< >>, F[k - 1], steps[k])
               /\ Replaying!Fold(<< >>, p, steps) = F[Len(steps)]
  <2>1. steps \in Seq(Steps)
    BY <1>2
  <2> QED
    BY <2>1, Replaying!FoldRuns
<1> DEFINE Good(k, f) ==
             /\ IsTimeline(f)
             /\ \A t \in Steps : t < from => f.snapshots[t] = p.snapshots[t] /\ f.objects[t] = p.objects[t]
             /\ \A s \in from .. from + k - 1 : Built(f, s)
           T == {k \in 0 .. n : Good(k, F[k])}
<1>5. 0 \in T
  BY <1>1, <1>4
<1>6. ASSUME NEW k \in 1 .. n, k - 1 \in T PROVE k \in T
  <2> DEFINE e == F[k - 1]
             f == F[k]
             step == from + k - 1
  <2>1. Good(k - 1, e)
    BY <1>6
  <2>2. step \in Steps /\ step # 0 /\ step >= from
    BY <1>1, StepsAssumption DEF Steps
  <2>3. f = nextStep(e, step)
    BY <1>2, <1>4 DEF NextStepOp
  <2>4. from + (k - 1) - 1 = step - 1 /\ step \in Int
    BY <1>1
  <2> HIDE DEF e, f, step
  <2>5. StepDone(e, step, f)
    BY <2>1, <2>2, <2>3, StepFacts
  <2>6. \A t \in Steps : t < from => f.snapshots[t] = p.snapshots[t] /\ f.objects[t] = p.objects[t]
    BY <1>1, <2>1, <2>2, <2>5 DEF StepDone, Steps
  <2>7. ASSUME NEW s \in from .. step PROVE Built(f, s)
    <3>1. CASE s = step
      BY <2>5, <3>1 DEF StepDone
    <3>2. CASE s # step
      <4>1. s \in from .. step - 1 /\ s \in Steps /\ s - 1 \in Steps /\ s < step /\ s - 1 < step
        BY <1>1, <2>2, <2>4, <3>2, StepsAssumption DEF Steps
      <4>2. Built(e, s)
        BY <2>1, <2>4, <4>1
      <4>3. NameAt(e, s) \in Steps /\ NameAt(e, s) <= s /\ NameAt(e, s - 1) \in Steps /\ NameAt(e, s - 1) <= s - 1
        BY <2>1, <4>1 DEF IsTimeline
      <4>4. NameAt(e, s) # step /\ NameAt(e, s - 1) # step
        BY <2>4, <4>1, <4>3 DEF Steps
      <4>5. /\ f.snapshots[s] = e.snapshots[s] /\ f.snapshots[s - 1] = e.snapshots[s - 1]
            /\ f.objects[NameAt(e, s)] = e.objects[NameAt(e, s)]
            /\ f.objects[NameAt(e, s - 1)] = e.objects[NameAt(e, s - 1)]
        <5>1. \A t \in Steps : t # step => f.snapshots[t] = e.snapshots[t] /\ f.objects[t] = e.objects[t]
          BY <2>5 DEF StepDone
        <5>2. s # step /\ s - 1 # step
          BY <2>4, <4>1 DEF Steps
        <5> QED
          BY ONLY <5>1, <5>2, <4>1, <4>3, <4>4
      <4> QED
        BY <4>2, <4>5, BuiltKept
    <3> QED
      BY <3>1, <3>2
  <2>8. Good(k, f)
    BY <2>5, <2>6, <2>7 DEF StepDone, step
  <2> HIDE DEF Good
  <2> QED
    BY <2>8 DEF f
<1>7. Good(n, F[n])
  <2> HIDE DEF Good
  <2>1. n \in T
    <3> HIDE DEF T
    <3> QED
      BY <1>1, <1>5, <1>6, UpTo
  <2> QED
    BY <2>1
<1>8. from + n - 1 = LastStep
  BY <1>1, StepsAssumption
<1> QED
  BY <1>2, <1>3, <1>4, <1>7, <1>8 DEF Replayed

-----------------------------------------------------------------------------
(***************************************************************************)
(* What is subject to scaling, and what scaling does.                      *)
(***************************************************************************)
SomeSubject(a)   == \E cell \in DOMAIN a.v : a.v[cell].subject_to_welpi
Subject(c)       == \E i \in DOMAIN c : c[i].subject_to_welpi

(* A list and what it says agree. *)
LEMMA SubjectView ==
  ASSUME NEW c \in Lists
  PROVE  Subject(c) <=> SomeSubject(View(c))
BY ViewFacts DEF Subject, SomeSubject

(* Loading and fracturing make nothing subject. *)
LEMMA LoadSubject ==
  ASSUME NEW a, NEW rec, SomeSubject(LoadOp(<< >>, a, rec))
  PROVE  SomeSubject(a)
<1> DEFINE b == LoadOp(<< >>, a, rec)
           N == IF rec.cell \in DOMAIN a.v THEN a.v[rec.cell].complnum ELSE a.n + 1
<1>1. PICK cell \in DOMAIN b.v : b.v[cell].subject_to_welpi
  BY DEF SomeSubject
<1>2. /\ DOMAIN b.v = DOMAIN a.v \cup {rec.cell}
      /\ cell # rec.cell => b.v[cell] = a.v[cell]
      /\ cell = rec.cell => b.v[cell] = NewConnection(rec.cell, N, rec.state, rec.CF)
  BY <1>1 DEF LoadOp
<1>3. cell # rec.cell
  BY <1>1, <1>2 DEF NewConnection
<1> QED
  BY <1>1, <1>2, <1>3 DEF SomeSubject

(* A fracture makes nothing subject to scaling.                           *)
LEMMA FractureSubject ==
  ASSUME NEW a, IsView(a), NEW new \in NewFracture, SomeSubject(FractureOp(<< >>, a, new))
  PROVE  SomeSubject(a)
<1> DEFINE b == FractureOp(<< >>, a, new)
<1>1. PICK cell \in DOMAIN b.v : b.v[cell].subject_to_welpi
  BY DEF SomeSubject
<1>2. /\ DOMAIN b.v = DOMAIN a.v \cup {new.cell}
      /\ cell # new.cell => b.v[cell] = a.v[cell]
      /\ cell = new.cell /\ cell \in DOMAIN a.v =>
           b.v[cell] = [a.v[cell] EXCEPT !.CF = Max({a.v[cell].CF, new.CF})]
      /\ cell = new.cell /\ cell \notin DOMAIN a.v => b.v[cell] = NewConnection(cell, a.n + 1, "OPEN", new.CF)
  BY <1>1 DEF FractureOp
<1> HIDE DEF b
<1>3. CASE cell \in DOMAIN a.v
  <2>1. a.v[cell] \in Connection
    BY <1>3 DEF IsView
  <2>2. b.v[cell].subject_to_welpi = a.v[cell].subject_to_welpi
    <3>1. ASSUME NEW x \in Connection, NEW y PROVE [x EXCEPT !.CF = y].subject_to_welpi = x.subject_to_welpi
      BY DEF Connection
    <3>2. b.v[cell] = a.v[cell] \/ b.v[cell] = [a.v[cell] EXCEPT !.CF = Max({a.v[cell].CF, new.CF})]
      BY <1>2, <1>3
    <3>3. [a.v[cell] EXCEPT !.CF = Max({a.v[cell].CF, new.CF})].subject_to_welpi = a.v[cell].subject_to_welpi
      BY <2>1, <3>1
    <3> QED
      BY ONLY <3>2, <3>3
  <2> QED
    BY <1>1, <1>3, <2>2 DEF SomeSubject
<1>4. CASE cell \notin DOMAIN a.v
  BY <1>1, <1>2, <1>4 DEF NewConnection
<1> QED
  BY <1>3, <1>4

(* One keyword. *)
LEMMA AppliedSubject ==
  ASSUME NEW a, IsView(a), NEW kw \in EffectKeyword, kw.name \notin {"WELPI", "WELPIRuntime"},
         SomeSubject(Applied("code", a, kw))
  PROVE  SomeSubject(a)
<1>1. CASE kw.name = "COMPDAT"
  <2> DEFINE rs == kw.records
  <2>1. rs \in Seq(Record)
    BY <1>1, KeywordFacts
  <2>2. Applied("code", a, kw) = LoadingView!Fold(<< >>, a, rs)
    BY <1>1 DEF Applied
  <2> HIDE DEF rs
  <2>3. PICK F : /\ F[0] = a
                 /\ \A k \in 1 .. Len(rs) : F[k] = LoadOp(<< >>, F[k - 1], rs[k])
                 /\ LoadingView!Fold(<< >>, a, rs) = F[Len(rs)]
    BY <2>1, LoadingView!FoldRuns
  <2> DEFINE T == {k \in 0 .. Len(rs) : SomeSubject(F[k]) => SomeSubject(a)}
  <2>4. Len(rs) \in Nat /\ 0 \in T
    BY <2>1, <2>3
  <2>5. ASSUME NEW k \in 1 .. Len(rs), k - 1 \in T PROVE k \in T
    BY <2>3, <2>5, LoadSubject
  <2>6. Len(rs) \in T
    <3> HIDE DEF T
    <3> QED
      BY <2>4, <2>5, UpTo
  <2> QED
    BY <2>2, <2>3, <2>6
<1>2. CASE kw.name = "Fracture"
  <2> DEFINE rs == kw.connections
  <2>1. rs \in Seq(NewFracture)
    BY <1>2, KeywordFacts
  <2>2. Applied("code", a, kw) = GrowingView!Fold(<< >>, a, rs)
    BY <1>2 DEF Applied
  <2> HIDE DEF rs
  <2>3. PICK F : /\ F[0] = a
                 /\ \A k \in 1 .. Len(rs) : F[k] = FractureOp(<< >>, F[k - 1], rs[k])
                 /\ GrowingView!Fold(<< >>, a, rs) = F[Len(rs)]
    BY ONLY <2>1, GrowingView!FoldRuns
  <2> DEFINE T == {k \in 0 .. Len(rs) : IsView(F[k]) /\ (SomeSubject(F[k]) => SomeSubject(a))}
  <2>4. Len(rs) \in Nat /\ 0 \in T
    BY <2>1, <2>3
  <2>5. ASSUME NEW k \in 1 .. Len(rs), k - 1 \in T PROVE k \in T
    <3>1. rs[k] \in NewFracture /\ IsView(F[k - 1]) /\ F[k] = FractureOp(<< >>, F[k - 1], rs[k])
      BY <2>1, <2>3, <2>5
    <3> QED
      BY <2>5, <3>1, FractureSubject, FractureOpIsView
  <2>6. Len(rs) \in T
    <3> HIDE DEF T
    <3> QED
      BY <2>4, <2>5, UpTo
  <2> QED
    BY <2>2, <2>3, <2>6
<1>3. CASE kw.name \notin {"COMPDAT", "Fracture"}
  <2>1. Applied("code", a, kw) = [n |-> a.n, v |-> [cell \in DOMAIN a.v |-> Touched("code", kw, a.v[cell])]]
    BY <1>3 DEF Applied
  <2>2. ASSUME NEW x PROVE Touched("code", kw, x).subject_to_welpi = x.subject_to_welpi
    BY DEF Touched
  <2>3. \E cell \in DOMAIN a.v : Touched("code", kw, a.v[cell]).subject_to_welpi
    BY <2>1 DEF SomeSubject
  <2> QED
    BY <2>2, <2>3 DEF SomeSubject
<1> QED
  BY <1>1, <1>2, <1>3

(* All the keywords of a step. *)
LEMMA SubjectSource ==
  ASSUME NEW c \in Lists, NEW d \in Lists, NEW effects \in Seq(EffectKeyword),
         View(d) = Applying!Fold("code", View(c), effects), Subject(d)
  PROVE  Subject(c) \/ "WELPI" \in NamesIn(effects) \/ "WELPIRuntime" \in NamesIn(effects)
<1> SUFFICES ASSUME "WELPI" \notin NamesIn(effects), "WELPIRuntime" \notin NamesIn(effects)
             PROVE  Subject(c)
  OBVIOUS
<1>1. PICK F : /\ F[0] = View(c)
               /\ \A k \in 1 .. Len(effects) : F[k] = AppliedOp("code", F[k - 1], effects[k])
               /\ Applying!Fold("code", View(c), effects) = F[Len(effects)]
  BY Applying!FoldRuns
<1> DEFINE T == {k \in 0 .. Len(effects) : IsView(F[k]) /\ (SomeSubject(F[k]) => SomeSubject(View(c)))}
<1>2. Len(effects) \in Nat /\ 0 \in T
  BY <1>1, ViewFacts
<1>3. ASSUME NEW k \in 1 .. Len(effects), k - 1 \in T PROVE k \in T
  <2>1. effects[k] \in EffectKeyword /\ effects[k].name \notin {"WELPI", "WELPIRuntime"}
    BY DEF NamesIn
  <2>2. F[k] = Applied("code", F[k - 1], effects[k])
    BY <1>1 DEF AppliedOp
  <2> QED
    BY <1>3, <2>1, <2>2, AppliedSubject, AppliedIsView
<1>4. Len(effects) \in T
  <2> HIDE DEF T
  <2> QED
    BY <1>2, <1>3, UpTo
<1>5. SomeSubject(View(d)) => SomeSubject(View(c))
  BY <1>1, <1>4
<1> QED
  BY <1>5, SubjectView

(* Scaling changes factors only. *)
Rescaled(c, d) == SameTasks(c, d) /\ DOMAIN d = DOMAIN c
                  /\ \A i \in DOMAIN c : d[i].subject_to_welpi = c[i].subject_to_welpi

(* applyWellPIScaling changes factors only, at the scaled positions.      *)
LEMMA ScalingFacts ==
  ASSUME NEW c \in Lists, NEW f \in Int, NEW applicable
  PROVE  /\ applyWellPIScaling(c, f, applicable) \in Lists
         /\ Rescaled(c, applyWellPIScaling(c, f, applicable))
         /\ \A i \in DOMAIN c : applyWellPIScaling(c, f, applicable)[i].CF =
              IF i \in scaledPositions(c, applicable) THEN c[i].CF + f ELSE c[i].CF
<1> DEFINE d == applyWellPIScaling(c, f, applicable)
           S == scaledPositions(c, applicable)
<1>1. /\ Len(c) \in Nat
      /\ DOMAIN c = 1 .. Len(c)
      /\ \A i \in DOMAIN c : c[i] \in Connection
      /\ \A i, j \in DOMAIN c : c[i].cell = c[j].cell => i = j
  BY ListFacts
<1>2. d = [i \in DOMAIN c |-> IF i \in S THEN [c[i] EXCEPT !.CF = c[i].CF + f] ELSE c[i]]
  BY DEF applyWellPIScaling
<1>3. ASSUME NEW x \in Connection, NEW y \in Int
      PROVE  /\ [x EXCEPT !.CF = y] \in Connection
             /\ [x EXCEPT !.CF = y].cell = x.cell
             /\ [x EXCEPT !.CF = y].complnum = x.complnum
             /\ [x EXCEPT !.CF = y].state = x.state
             /\ [x EXCEPT !.CF = y].CF = y
             /\ [x EXCEPT !.CF = y].subject_to_welpi = x.subject_to_welpi
  BY DEF Connection
<1>4. \A i \in DOMAIN c : c[i].CF \in Int /\ c[i].CF + f \in Int
  BY <1>1, ConnectionIs
<1> HIDE DEF d, S
<1>5. ASSUME NEW i \in DOMAIN c
      PROVE  /\ d[i] \in Connection
             /\ d[i].cell = c[i].cell
             /\ d[i].complnum = c[i].complnum
             /\ d[i].state = c[i].state
             /\ d[i].subject_to_welpi = c[i].subject_to_welpi
             /\ d[i].CF = IF i \in S THEN c[i].CF + f ELSE c[i].CF
  <2>1. d[i] = IF i \in S THEN [c[i] EXCEPT !.CF = c[i].CF + f] ELSE c[i]
    BY <1>2
  <2> QED
    BY <1>1, <1>3, <1>4, <2>1
<1>6. d = [i \in 1 .. Len(c) |-> d[i]]
  BY <1>1, <1>2
<1>7. d \in Lists /\ Len(d) = Len(c) /\ DOMAIN d = DOMAIN c
  BY <1>1, <1>5, <1>6, IsList
<1>8. Rescaled(c, d)
  BY <1>1, <1>5, <1>7 DEF Rescaled, SameTasks, KeepPlaces
<1> QED
  BY <1>5, <1>7, <1>8 DEF d, S

(* One scaling after another. *)
LEMMA RescaledOn ==
  ASSUME NEW c \in Lists, NEW d \in Lists, NEW e \in Lists
  PROVE  /\ Rescaled(c, c)
         /\ Rescaled(c, d) /\ Rescaled(d, e) => Rescaled(c, e)
         /\ Rescaled(c, d) => SameTasks(c, d) /\ (Subject(d) <=> Subject(c)) /\ (allSubject(d) <=> allSubject(c))
BY KeepPlacesOn DEF Rescaled, Subject, allSubject

-----------------------------------------------------------------------------
(***************************************************************************)
(* The scaling at the start of a step: the wells that it looks at.         *)
(***************************************************************************)
Name(s) == snapshots[s].well.connections

AddUniqueOp(p, list, step) == addUnique(list, step)
Collecting == INSTANCE Recursion WITH Op <- AddUniqueOp, Inv <- NoInv

(* The timeline as a scaling finds it: a step has connections of its own   *)
(* or those of the step before.                                            *)
Scalable ==
  /\ now \in Steps
  /\ objects = [s \in Steps |-> objects[s]]
  /\ \A s \in Steps : objects[s] \in Lists /\ Name(s) \in Steps /\ Name(s) <= s
  /\ \A s \in now + 1 .. LastStep : Name(s) \in {Name(s - 1), s}

(* Names of connections go up with the steps. *)
LEMMA NamesGoUp ==
  ASSUME Scalable
  PROVE  \A s, t \in now .. LastStep : s <= t => Name(s) <= Name(t)
<1>1. now \in Nat /\ LastStep \in Nat /\ now <= LastStep /\ \A s \in now .. LastStep : s \in Steps /\ s \in Nat
  BY StepsAssumption DEF Scalable, Steps
<1> DEFINE n == LastStep - now
           T == {k \in 0 .. n : \A s \in now .. now + k : Name(s) <= Name(now + k)}
<1>2. n \in Nat
  BY <1>1
<1>3. \A s \in now .. LastStep : Name(s) \in Nat /\ Name(s) <= s
  BY <1>1 DEF Scalable, Steps
<1>4. 0 \in T
  <2>1. \A s \in now .. now + 0 : s = now + 0 /\ s \in now .. LastStep
    BY <1>1
  <2> QED
    BY <1>2, <1>3, <2>1
<1>5. ASSUME NEW k \in 1 .. n, k - 1 \in T PROVE k \in T
  <2> DEFINE s1 == now + k
             s0 == now + (k - 1)
  <2>1. s1 \in now + 1 .. LastStep /\ s1 - 1 = s0 /\ s0 \in now .. LastStep /\ s1 \in now .. LastStep
    BY <1>1, <1>2
  <2>2. Name(s1) \in {Name(s0), s1}
    BY <2>1 DEF Scalable
  <2>3. Name(s0) <= s0 /\ Name(s0) \in Nat /\ Name(s1) \in Nat
    BY <1>3, <2>1
  <2>4. s0 <= s1 /\ s0 \in Nat /\ s1 \in Nat
    BY <1>1, <2>1
  <2>5. Name(s0) <= Name(s1)
    <3> HIDE DEF s0, s1
    <3> QED
      BY <2>2, <2>3, <2>4
  <2>6. ASSUME NEW s \in now .. s1 PROVE Name(s) <= Name(s1)
    <3>1. CASE s = s1
      BY <1>3, <2>1, <3>1
    <3>2. CASE s # s1
      <4>1. s \in now .. s0 /\ s \in now .. LastStep
        BY <1>1, <2>1, <3>2
      <4>2. Name(s) <= Name(s0) /\ Name(s) \in Nat
        BY <1>3, <1>5, <4>1
      <4> HIDE DEF s0, s1
      <4> QED
        BY <2>3, <2>5, <4>2
    <3> QED
      BY <3>1, <3>2
  <2> QED
    BY <2>6
<1>6. \A k \in 0 .. n : k \in T
  <2> HIDE DEF T, n
  <2> QED
    BY <1>2, <1>4, <1>5, UpTo
<1>7. ASSUME NEW s \in now .. LastStep, NEW t \in now .. LastStep, s <= t PROVE Name(s) <= Name(t)
  <2>1. t - now \in 0 .. n /\ now + (t - now) = t /\ s \in now .. t
    BY <1>1, <1>7
  <2>2. t - now \in T
    BY <1>6, <2>1
  <2> QED
    BY <2>1, <2>2
<1> QED
  BY <1>7

NoSkip == \A s \in now + 1 .. LastStep : ~PassedOver(s)

(* The wells looked at come in order; unless one is passed over that has   *)
(* other connections, they have all the connections there are.             *)
UniqueWells(w) ==
  /\ w \in Seq(now .. LastStep)
  /\ Len(w) >= 1
  /\ \A j, k \in 1 .. Len(w) : j <= k => w[j] <= w[k]
  /\ NoSkip => \A s \in now .. LastStep : \E k \in 1 .. Len(w) : Name(w[k]) = Name(s)

(* uniqueWells finds these.                                               *)
LEMMA UniqueFacts ==
  ASSUME Scalable
  PROVE  UniqueWells(uniqueWells(now))
<1> DEFINE n == LastStep - now
           steps == [i \in 1 .. n |-> now + i]
           range == now .. LastStep
<1>1. /\ now \in Nat /\ LastStep \in Nat /\ now <= LastStep /\ n \in Nat
      /\ \A s \in range : s \in Nat
      /\ now \in range
  BY StepsAssumption DEF Scalable, Steps
<1>2. steps \in Seq(range) /\ Len(steps) = n /\ \A i \in 1 .. n : steps[i] = now + i
  BY <1>1
<1>3. uniqueWells(now) = Collecting!Fold(<< >>, <<now>>, steps)
  BY DEF uniqueWells, Collecting!Fold, AddUniqueOp, FoldLeft, MapThenFoldSet, Collecting!MapThenFoldSet,
         Max, Collecting!Max
<1> HIDE DEF steps
<1>0. PICK first : first = <<now>>
  OBVIOUS
<1>4. PICK F : /\ F[0] = first
               /\ \A k \in 1 .. Len(steps) : F[k] = AddUniqueOp(<< >>, F[k - 1], steps[k])
               /\ Collecting!Fold(<< >>, first, steps) = F[Len(steps)]
  <2>1. steps \in Seq(range)
    BY <1>2
  <2> HIDE DEF range
  <2> QED
    BY ONLY <2>1, Collecting!FoldRuns
<1> DEFINE Good(k, w) ==
             /\ w \in Seq(range)
             /\ Len(w) >= 1
             /\ \A i \in 1 .. Len(w) : w[i] <= now + k
             /\ \A i, j \in 1 .. Len(w) : i <= j => w[i] <= w[j]
             /\ WellValue(w[Len(w)]) = WellValue(now + k)
             /\ NoSkip => \A s \in now .. now + k : \E i \in 1 .. Len(w) : Name(w[i]) = Name(s)
           T == {k \in 0 .. n : Good(k, F[k])}
<1>5. 0 \in T
  <2>1. /\ <<now>> \in Seq(range) /\ Len(<<now>>) = 1 /\ <<now>>[1] = now
        /\ now + 0 = now
    BY <1>1
  <2>2. \A s \in now .. now + 0 : s = now
    BY <1>1
  <2> HIDE DEF range
  <2>3. Good(0, <<now>>)
    BY <1>1, <2>1, <2>2
  <2> HIDE DEF Good
  <2>4. Good(0, F[0]) /\ 0 \in 0 .. n
    BY <1>0, <1>1, <1>4, <2>3
  <2> QED
    BY <2>4
<1>6. ASSUME NEW k \in 1 .. n, k - 1 \in T PROVE k \in T
  <2> DEFINE v == F[k - 1]
             w == F[k]
             s1 == now + k
             s0 == now + (k - 1)
  <2>1. Good(k - 1, v)
    BY <1>6
  <2>2. /\ s1 \in range /\ s0 \in range /\ s1 \in now + 1 .. LastStep /\ s1 - 1 = s0 /\ s0 < s1
        /\ s0 \in Nat /\ s1 \in Nat
    BY <1>1
  <2>3. w = addUnique(v, s1)
    BY <1>2, <1>4 DEF AddUniqueOp
  <2>4. /\ v \in Seq(range)
        /\ Len(v) >= 1
        /\ \A i \in 1 .. Len(v) : v[i] <= s0
        /\ \A i, j \in 1 .. Len(v) : i <= j => v[i] <= v[j]
        /\ WellValue(v[Len(v)]) = WellValue(s0)
        /\ NoSkip => \A s \in now .. s0 : \E i \in 1 .. Len(v) : Name(v[i]) = Name(s)
    BY <2>1
  <2>5. \A s \in now .. s1 : s = s1 \/ s \in now .. s0
    BY <1>1
  <2> HIDE DEF v, w, s0, s1, range
  <2>6. w = IF WellValue(s1) = WellValue(v[Len(v)]) THEN v ELSE Append(v, s1)
    BY <2>3, <2>4 DEF addUnique, Last
  <2>7. Len(v) \in Nat /\ \A i \in 1 .. Len(v) : v[i] \in range
    BY <2>4
  <2>10. \A i \in 1 .. Len(v) : v[i] <= s1
    <3> SUFFICES ASSUME NEW i \in 1 .. Len(v) PROVE v[i] <= s1
      OBVIOUS
    <3>1. v[i] \in Nat /\ v[i] <= s0
      BY <1>1, <2>4, <2>7
    <3> QED
      BY ONLY <2>2, <3>1
  <2>8. /\ w \in Seq(range)
        /\ Len(w) >= 1
        /\ \A i \in 1 .. Len(w) : w[i] <= s1
        /\ \A i, j \in 1 .. Len(w) : i <= j => w[i] <= w[j]
        /\ WellValue(w[Len(w)]) = WellValue(s1)
        /\ NoSkip => \A s \in now .. s1 : \E i \in 1 .. Len(w) : Name(w[i]) = Name(s)
    <3>1. CASE WellValue(s1) = WellValue(v[Len(v)])
      <4>1. w = v
        BY <2>6, <3>1
      <4>2. \A i \in 1 .. Len(w) : w[i] <= s1
        BY <2>10, <4>1
      <4>3. ASSUME NoSkip PROVE \A s \in now .. s1 : \E i \in 1 .. Len(w) : Name(w[i]) = Name(s)
        <5>1. ~PassedOver(s1) /\ WellValue(s1) = WellValue(s1 - 1)
          BY <2>2, <2>4, <3>1, <4>3 DEF NoSkip
        <5>2. Name(s1) = Name(s0)
          BY <2>2, <5>1 DEF PassedOver, hasSameConnectionsPointers, Name
        <5>3. s0 \in now .. s0
          BY <1>1, <2>2 DEF range
        <5> QED
          BY <2>4, <2>5, <4>1, <4>3, <5>2, <5>3
      <4> QED
        BY <2>4, <3>1, <4>1, <4>2, <4>3
    <3>2. CASE WellValue(s1) # WellValue(v[Len(v)])
      <4>1. w = Append(v, s1)
        BY <2>6, <3>2
      <4>2. /\ w \in Seq(range) /\ Len(w) = Len(v) + 1 /\ w[Len(v) + 1] = s1
            /\ \A i \in 1 .. Len(v) : w[i] = v[i]
        BY <2>2, <2>4, <4>1
      <4>3. \A i \in 1 .. Len(w) : i = Len(v) + 1 \/ i \in 1 .. Len(v)
        BY <2>7, <4>2
      <4>4. \A i \in 1 .. Len(v) : v[i] <= s1 /\ i <= Len(v) /\ i \in Nat /\ i \in 1 .. Len(w)
        BY ONLY <2>7, <2>10, <4>2
      <4>5. \A i, j \in 1 .. Len(w) : i <= j => w[i] <= w[j]
        <5> SUFFICES ASSUME NEW i \in 1 .. Len(w), NEW j \in 1 .. Len(w), i <= j PROVE w[i] <= w[j]
          OBVIOUS
        <5>1. CASE j = Len(v) + 1
          BY <2>2, <4>2, <4>3, <4>4, <5>1
        <5>2. CASE j \in 1 .. Len(v)
          <6>1. i \in 1 .. Len(v)
            BY <2>7, <4>2, <5>2
          <6> QED
            BY <2>4, <4>2, <5>2, <6>1
        <5> QED
          BY <4>3, <5>1, <5>2
      <4>6. \A i \in 1 .. Len(w) : w[i] <= s1
        BY <2>2, <4>2, <4>3, <4>4
      <4>7. Len(v) + 1 \in 1 .. Len(w)
        BY <2>7, <4>2
      <4>8. ASSUME NoSkip PROVE \A s \in now .. s1 : \E i \in 1 .. Len(w) : Name(w[i]) = Name(s)
        <5>1. Name(w[Len(v) + 1]) = Name(s1)
          BY <4>2
        <5>2. \A s \in now .. s0 : \E i \in 1 .. Len(v) : Name(w[i]) = Name(s)
          BY <2>4, <4>2, <4>8
        <5> QED
          BY <2>5, <4>4, <4>7, <5>1, <5>2
      <4> QED
        BY <2>7, <4>2, <4>5, <4>6, <4>8
    <3> QED
      BY <3>1, <3>2
  <2>9. Good(k, w)
    BY <2>8 DEF s1
  <2> HIDE DEF Good
  <2> QED
    BY <2>9 DEF w
<1>7. Good(n, F[n])
  <2> HIDE DEF Good
  <2>1. n \in T
    <3> HIDE DEF T, n
    <3> QED
      BY <1>1, <1>5, <1>6, UpTo
  <2> QED
    BY <2>1
<1>8. now + n = LastStep
  BY <1>1
<1> QED
  BY <1>0, <1>2, <1>3, <1>4, <1>7, <1>8 DEF UniqueWells

(* The array that exempts connections from scaling. *)
IsArray(A) == Len(A) \in Nat /\ DOMAIN A = 1 .. Len(A) /\ \A i \in DOMAIN A : A[i] \in BOOLEAN

Applies(A, i) == i \in DOMAIN A => A[i]

(* A list exempts what it has reset, and scales what is not exempt by then. *)
LEMMA ApplicableFacts ==
  ASSUME NEW c \in Lists, NEW A, IsArray(A)
  PROVE  /\ IsArray(applicableAfter(c, A))
         /\ \A i : Applies(applicableAfter(c, A), i)
                     <=> Applies(A, i) /\ (i \in DOMAIN c => c[i].subject_to_welpi)
         /\ scaledPositions(c, A) = {i \in DOMAIN c : Applies(applicableAfter(c, A), i)}
<1> DEFINE m == Max({Len(c), Len(A)})
           S == scaledPositions(c, A)
           B == applicableAfter(c, A)
<1>1. Len(c) \in Nat /\ DOMAIN c = 1 .. Len(c) /\ Len(A) \in Nat /\ DOMAIN A = 1 .. Len(A)
  BY ListFacts DEF IsArray
<1>2. m \in Int /\ m = IF Len(c) >= Len(A) THEN Len(c) ELSE Len(A)
  BY <1>1, LargerOf
<1>3. m \in Nat /\ \A i : i \in 1 .. m <=> i \in DOMAIN c \/ i \in DOMAIN A
  BY <1>1, <1>2
<1>4. B = [i \in 1 .. m |-> IF i \in DOMAIN c THEN i \in S ELSE A[i]]
  BY DEF applicableAfter
<1>5. \A i : i \in S <=> i \in DOMAIN c /\ Applies(A, i) /\ c[i].subject_to_welpi
  BY DEF scaledPositions, Applies
<1> HIDE DEF m, S, B
<1>6. DOMAIN B = 1 .. m /\ Len(B) = m
  BY <1>3, <1>4
<1>7. \A i \in DOMAIN c : i \in DOMAIN B /\ B[i] = (i \in S)
  BY <1>3, <1>4
<1>8. \A i : i \in DOMAIN A /\ i \notin DOMAIN c => i \in DOMAIN B /\ B[i] = A[i]
  BY <1>3, <1>4
<1>9. \A i \in DOMAIN B : i \in DOMAIN c \/ (i \in DOMAIN A /\ i \notin DOMAIN c)
  BY <1>3, <1>6
<1>10. \A i \in DOMAIN B : B[i] \in BOOLEAN
  <2> SUFFICES ASSUME NEW i \in DOMAIN B PROVE B[i] \in BOOLEAN
    OBVIOUS
  <2>1. CASE i \in DOMAIN c
    <3>1. B[i] = (i \in S)
      BY <1>7, <2>1
    <3>2. (i \in S) \in BOOLEAN
      OBVIOUS
    <3> QED
      BY <3>1, <3>2
  <2>2. CASE i \in DOMAIN A /\ i \notin DOMAIN c
    BY <1>8, <2>2 DEF IsArray
  <2> QED
    BY <1>9, <2>1, <2>2
<1>11. ASSUME NEW i
       PROVE  Applies(B, i) <=> Applies(A, i) /\ (i \in DOMAIN c => c[i].subject_to_welpi)
  <2>1. CASE i \in DOMAIN c
    <3>1. i \in DOMAIN B /\ (B[i] <=> i \in S)
      BY <1>7, <2>1, Zenon
    <3> QED
      BY <1>5, <2>1, <3>1 DEF Applies
  <2>2. CASE i \notin DOMAIN c /\ i \in DOMAIN A
    BY <1>8, <2>2 DEF Applies
  <2>3. CASE i \notin DOMAIN c /\ i \notin DOMAIN A
    <3>1. i \notin DOMAIN B
      BY <1>9, <2>3
    <3> QED
      BY <2>3, <3>1 DEF Applies
  <2> QED
    BY <2>1, <2>2, <2>3
<1>12. S = {i \in DOMAIN c : Applies(B, i)}
  BY <1>5, <1>11
<1> QED
  BY <1>3, <1>6, <1>10, <1>11, <1>12 DEF IsArray, B, S

ScaleOp(p, q, step) == scaleNext(q, step)
Rescaling == INSTANCE Recursion WITH Op <- ScaleOp, Inv <- NoInv

(* Nothing so far has a connection at this place that is exempt. *)
Through(w, k, i) ==
  \A j \in 1 .. k : i \in DOMAIN objects[Name(w[j])] => objects[Name(w[j])][i].subject_to_welpi

(* After the first k of the wells looked at. *)
ScaledUpTo(w, f, k, q) ==
  /\ q = [objects |-> q.objects, factor |-> q.factor, scalingApplicable |-> q.scalingApplicable, prev |-> q.prev]
  /\ q.factor = f
  /\ q.objects = [t \in Steps |-> q.objects[t]]
  /\ \A t \in Steps : q.objects[t] \in Lists /\ Rescaled(objects[t], q.objects[t])
  /\ \A t \in Steps : (\A j \in 1 .. k : Name(w[j]) # t) => q.objects[t] = objects[t]
  /\ \A j \in 1 .. k : \A i \in DOMAIN objects[Name(w[j])] :
       q.objects[Name(w[j])][i].CF =
         IF Through(w, j, i) THEN objects[Name(w[j])][i].CF + f ELSE objects[Name(w[j])][i].CF
  /\ k = 0 => q.prev = -1
  /\ k > 0 => q.prev = w[k] \/ (q.prev \in now .. LastStep /\ Name(q.prev) = Name(w[k]))
  /\ IsArray(q.scalingApplicable)
  /\ \A i : Applies(q.scalingApplicable, i) <=> Through(w, k, i)

(* The wells looked at are those of the present and of later steps. *)
LEMMA WellsLookedAt ==
  ASSUME NEW w, UniqueWells(w)
  PROVE  Len(w) \in Nat /\ \A j \in 1 .. Len(w) : w[j] \in now .. LastStep
<1> DEFINE range == now .. LastStep
<1>1. w \in Seq(range)
  BY DEF UniqueWells
<1> HIDE DEF range
<1>2. Len(w) \in Nat /\ \A j \in 1 .. Len(w) : w[j] \in range
  BY ONLY <1>1
<1> QED
  BY <1>2 DEF range

(* One more, with connections of the well looked at before. *)
LEMMA SameScaled ==
  ASSUME Scalable, NEW f \in Int, NEW w, UniqueWells(w), NEW k \in 1 .. Len(w), NEW q, ScaledUpTo(w, f, k - 1, q),
         k > 1, Name(w[k]) = Name(w[k - 1])
  PROVE  ScaledUpTo(w, f, k, q)
<1>1. k \in Nat /\ k - 1 \in Nat /\ k - 1 > 0 /\ k - 1 \in 1 .. k - 1 /\ k \in 1 .. k /\ k - 1 \in 1 .. k
  OBVIOUS
<1>2. \A j \in 1 .. k : j = k \/ j \in 1 .. k - 1
  OBVIOUS
<1>3. \A j \in 1 .. k - 1 : j \in 1 .. k
  OBVIOUS
<1>4. \A i : Through(w, k, i) <=> Through(w, k - 1, i)
  BY <1>1, <1>2, <1>3 DEF Through
<1>5. \A t \in Steps : (\A j \in 1 .. k : Name(w[j]) # t) => q.objects[t] = objects[t]
  BY <1>3 DEF ScaledUpTo
<1>6. \A j \in 1 .. k : \A i \in DOMAIN objects[Name(w[j])] :
       q.objects[Name(w[j])][i].CF =
         IF Through(w, j, i) THEN objects[Name(w[j])][i].CF + f ELSE objects[Name(w[j])][i].CF
  <2> SUFFICES ASSUME NEW j \in 1 .. k, NEW i \in DOMAIN objects[Name(w[j])]
               PROVE  q.objects[Name(w[j])][i].CF =
                        IF Through(w, j, i) THEN objects[Name(w[j])][i].CF + f ELSE objects[Name(w[j])][i].CF
    OBVIOUS
  <2>1. CASE j \in 1 .. k - 1
    BY <2>1 DEF ScaledUpTo
  <2>2. CASE j = k
    <3>1. i \in DOMAIN objects[Name(w[k - 1])] /\ k - 1 \in 1 .. k - 1
      BY <1>1, <2>2
    <3>2. q.objects[Name(w[k - 1])][i].CF =
            IF Through(w, k - 1, i) THEN objects[Name(w[k - 1])][i].CF + f ELSE objects[Name(w[k - 1])][i].CF
      BY <3>1 DEF ScaledUpTo
    <3> QED
      BY <1>4, <2>2, <3>2
  <2> QED
    BY <1>2, <2>1, <2>2
<1>7. q.prev = w[k] \/ (q.prev \in now .. LastStep /\ Name(q.prev) = Name(w[k]))
  <2>1. w[k - 1] \in now .. LastStep
    BY <1>1, WellsLookedAt
  <2> QED
    BY <1>1, <2>1 DEF ScaledUpTo
<1> QED
  BY <1>1, <1>4, <1>5, <1>6, <1>7 DEF ScaledUpTo

(* One more, with connections not seen before. *)
LEMMA OtherScaled ==
  ASSUME Scalable, NEW f \in Int, NEW w, UniqueWells(w), NEW k \in 1 .. Len(w), NEW q, ScaledUpTo(w, f, k - 1, q),
         k > 1 => Name(w[k]) # Name(w[k - 1]), NEW c, c = Name(w[k]), NEW r,
         r = [q EXCEPT !.objects[c] = applyWellPIScaling(@, q.factor, q.scalingApplicable),
                       !.scalingApplicable = applicableAfter(q.objects[c], @),
                       !.prev = w[k]]
  PROVE  ScaledUpTo(w, f, k, r)
<1> DEFINE A == q.scalingApplicable
           B == applicableAfter(q.objects[c], A)
           d == applyWellPIScaling(q.objects[c], f, A)
<1>1. /\ k \in Nat /\ k - 1 \in Nat /\ k \in 1 .. k /\ k > 0
      /\ \A j \in 1 .. k : j = k \/ j \in 1 .. k - 1
      /\ \A j \in 1 .. k - 1 : j \in 1 .. k
  OBVIOUS
<1>2. /\ \A j \in 1 .. k : w[j] \in now .. LastStep /\ w[j] \in Steps
      /\ \A j \in 1 .. k : w[j] <= w[k]
  <2>1. \A j \in 1 .. k : j \in 1 .. Len(w) /\ j <= k
    BY WellsLookedAt
  <2>2. \A s \in now .. LastStep : s \in Steps
    BY StepsAssumption DEF Scalable, Steps
  <2>3. \A j \in 1 .. k : w[j] \in now .. LastStep /\ w[j] \in Steps
    BY <2>1, <2>2, WellsLookedAt
  <2>4. \A j \in 1 .. k : w[j] <= w[k]
    BY <2>1 DEF UniqueWells
  <2> QED
    BY <2>3, <2>4
<1>3. c \in Steps /\ \A j \in 1 .. k : Name(w[j]) \in Steps
  BY <1>1, <1>2 DEF Scalable
<1>4. \A j \in 1 .. k - 1 : Name(w[j]) # c
  <2> SUFFICES ASSUME NEW j \in 1 .. k - 1, Name(w[j]) = c PROVE FALSE
    OBVIOUS
  <2>1. k > 1 /\ k - 1 \in 1 .. k /\ j \in 1 .. k /\ j <= k - 1 /\ k - 1 \in 1 .. Len(w) /\ j \in 1 .. Len(w)
    BY DEF UniqueWells
  <2>2. w[j] <= w[k - 1] /\ w[k - 1] <= w[k]
    BY <1>2, <2>1 DEF UniqueWells
  <2>3. Name(w[j]) <= Name(w[k - 1]) /\ Name(w[k - 1]) <= Name(w[k])
    BY <1>1, <1>2, <2>1, <2>2, NamesGoUp
  <2>4. Name(w[k - 1]) \in Nat /\ c \in Nat
    BY <1>3, <2>1 DEF Steps
  <2>5. Name(w[k - 1]) = c
    BY <2>3, <2>4
  <2> QED
    BY <2>1, <2>5
<1>5. q.objects[c] = objects[c] /\ objects[c] \in Lists
  BY <1>3, <1>4 DEF ScaledUpTo, Scalable
<1>6. IsArray(A) /\ q.factor = f /\ \A i : Applies(A, i) <=> Through(w, k - 1, i)
  BY DEF ScaledUpTo
<1>7. /\ IsArray(B)
      /\ \A i : Applies(B, i) <=> Applies(A, i) /\ (i \in DOMAIN objects[c] => objects[c][i].subject_to_welpi)
      /\ scaledPositions(objects[c], A) = {i \in DOMAIN objects[c] : Applies(B, i)}
  BY <1>5, <1>6, ApplicableFacts
<1>8. \A i : Through(w, k, i)
               <=> Through(w, k - 1, i) /\ (i \in DOMAIN objects[c] => objects[c][i].subject_to_welpi)
  BY <1>1 DEF Through
<1>9. /\ d \in Lists
      /\ Rescaled(objects[c], d)
      /\ \A i \in DOMAIN objects[c] :
           d[i].CF = IF i \in scaledPositions(objects[c], A) THEN objects[c][i].CF + f ELSE objects[c][i].CF
  BY <1>5, ScalingFacts
<1>10. r = [q EXCEPT !.objects[c] = d, !.scalingApplicable = B, !.prev = w[k]]
  BY <1>6
<1> HIDE DEF A, B, d
<1>11. /\ r = [objects |-> r.objects, factor |-> r.factor, scalingApplicable |-> r.scalingApplicable, prev |-> r.prev]
       /\ r.factor = f
       /\ r.objects = [q.objects EXCEPT ![c] = d]
       /\ r.scalingApplicable = B
       /\ r.prev = w[k]
  BY <1>10 DEF ScaledUpTo
<1>12. /\ r.objects = [t \in Steps |-> r.objects[t]]
       /\ r.objects[c] = d
       /\ \A t \in Steps : t # c => r.objects[t] = q.objects[t]
  BY <1>3, <1>11 DEF ScaledUpTo
<1>13. \A t \in Steps : r.objects[t] \in Lists /\ Rescaled(objects[t], r.objects[t])
  BY <1>9, <1>12 DEF ScaledUpTo
<1>14. \A t \in Steps : (\A j \in 1 .. k : Name(w[j]) # t) => r.objects[t] = objects[t]
  BY <1>1, <1>12 DEF ScaledUpTo
<1>15. ASSUME NEW j \in 1 .. k, NEW i \in DOMAIN objects[Name(w[j])]
       PROVE  r.objects[Name(w[j])][i].CF =
                IF Through(w, j, i) THEN objects[Name(w[j])][i].CF + f ELSE objects[Name(w[j])][i].CF
  <2>1. CASE j = k
    <3>1. i \in DOMAIN objects[c] /\ Name(w[j]) = c
      BY <2>1
    <3>2. i \in scaledPositions(objects[c], A) <=> Through(w, k, i)
      BY <1>6, <1>7, <1>8, <3>1
    <3> QED
      BY <1>9, <1>12, <2>1, <3>1, <3>2
  <2>2. CASE j \in 1 .. k - 1
    <3>1. r.objects[Name(w[j])] = q.objects[Name(w[j])]
      BY <1>1, <1>3, <1>4, <1>12, <2>2
    <3>2. q.objects[Name(w[j])][i].CF =
            IF Through(w, j, i) THEN objects[Name(w[j])][i].CF + f ELSE objects[Name(w[j])][i].CF
      BY <2>2 DEF ScaledUpTo
    <3> QED
      BY ONLY <3>1, <3>2
  <2> QED
    BY <1>1, <2>1, <2>2
<1>16. \A i : Applies(B, i) <=> Through(w, k, i)
  BY <1>6, <1>7, <1>8
<1>17. k = 0 => r.prev = -1
  BY <1>1
<1>18. k > 0 => r.prev = w[k] \/ (r.prev \in now .. LastStep /\ Name(r.prev) = Name(w[k]))
  BY <1>11
<1>19. \A j \in 1 .. k : \A i \in DOMAIN objects[Name(w[j])] :
         r.objects[Name(w[j])][i].CF =
           IF Through(w, j, i) THEN objects[Name(w[j])][i].CF + f ELSE objects[Name(w[j])][i].CF
  BY <1>15
<1>20. IsArray(r.scalingApplicable) /\ \A i : Applies(r.scalingApplicable, i) <=> Through(w, k, i)
  BY <1>7, <1>11, <1>16
<1>21. r = [objects |-> r.objects, factor |-> r.factor, scalingApplicable |-> r.scalingApplicable, prev |-> r.prev]
       /\ r.factor = f /\ r.objects = [t \in Steps |-> r.objects[t]]
  BY <1>11, <1>12
<1> QED
  BY ONLY <1>13, <1>14, <1>17, <1>18, <1>19, <1>20, <1>21 DEF ScaledUpTo

(* All of them. *)
LEMMA ScaleFacts ==
  ASSUME Scalable, NEW f \in Int, NEW w, UniqueWells(w)
  PROVE  ScaledUpTo(w, f, Len(w),
           FoldLeft(scaleNext, [objects |-> objects, factor |-> f, scalingApplicable |-> << >>, prev |-> -1], w))
<1> DEFINE n == Len(w)
           range == now .. LastStep
<1>0. PICK q0 : q0 = [objects |-> objects, factor |-> f, scalingApplicable |-> << >>, prev |-> -1]
  OBVIOUS
<1>1. w \in Seq(range) /\ n \in Nat
  BY DEF UniqueWells
<1>2. FoldLeft(scaleNext, q0, w) = Rescaling!Fold(<< >>, q0, w)
  BY DEF Rescaling!Fold, ScaleOp, FoldLeft, MapThenFoldSet, Rescaling!MapThenFoldSet, Max, Rescaling!Max
<1>3. PICK F : /\ F[0] = q0
               /\ \A k \in 1 .. Len(w) : F[k] = ScaleOp(<< >>, F[k - 1], w[k])
               /\ Rescaling!Fold(<< >>, q0, w) = F[Len(w)]
  <2>1. w \in Seq(range)
    BY <1>1
  <2> HIDE DEF range
  <2> QED
    BY ONLY <2>1, Rescaling!FoldRuns
<1> DEFINE T == {k \in 0 .. n : ScaledUpTo(w, f, k, F[k])}
<1>4. 0 \in T
  <2>1. /\ q0 = [objects |-> q0.objects, factor |-> q0.factor, scalingApplicable |-> q0.scalingApplicable, prev |-> q0.prev]
        /\ q0.factor = f /\ q0.prev = -1 /\ q0.objects = objects /\ q0.scalingApplicable = << >>
    BY <1>0
  <2>2. IsArray(<< >>) /\ \A i : Applies(<< >>, i)
    BY DEF IsArray, Applies
  <2>3. \A i : Through(w, 0, i)
    BY DEF Through
  <2>4. \A t \in Steps : objects[t] \in Lists /\ Rescaled(objects[t], objects[t])
    BY RescaledOn DEF Scalable
  <2>5. ScaledUpTo(w, f, 0, q0)
    BY <2>1, <2>2, <2>3, <2>4 DEF ScaledUpTo, Scalable
  <2> QED
    BY <1>1, <1>3, <2>5
<1>5. ASSUME NEW k \in 1 .. n, k - 1 \in T PROVE k \in T
  <2> DEFINE q == F[k - 1]
             r == F[k]
             step == w[k]
  <2>1. ScaledUpTo(w, f, k - 1, q) /\ k \in 1 .. Len(w) /\ k \in 0 .. n
    BY <1>5
  <2>2. r = scaleNext(q, step)
    BY <1>3 DEF ScaleOp
  <2>3. \A j \in 1 .. Len(w) : w[j] \in now .. LastStep /\ w[j] \in Int /\ w[j] >= 0
    BY <1>1, StepsAssumption DEF Scalable, Steps
  <2> HIDE DEF q, r
  <2>4. q.prev >= 0 /\ hasSameConnectionsPointers(step, q.prev) <=> k > 1 /\ Name(w[k]) = Name(w[k - 1])
    <3>1. CASE k = 1
      <4>1. q.prev = -1
        BY <2>1, <3>1 DEF ScaledUpTo
      <4> QED
        BY <3>1, <4>1
    <3>2. CASE k # 1
      <4>1. k - 1 > 0 /\ k > 1 /\ k - 1 \in 1 .. Len(w)
        BY <2>1, <3>2
      <4>2. q.prev = w[k - 1] \/ (q.prev \in now .. LastStep /\ Name(q.prev) = Name(w[k - 1]))
        BY <2>1, <4>1 DEF ScaledUpTo
      <4>3. q.prev >= 0 /\ Name(q.prev) = Name(w[k - 1])
        BY <2>3, <4>1, <4>2 DEF Scalable, Steps
      <4> QED
        BY <4>1, <4>3 DEF hasSameConnectionsPointers, Name
    <3> QED
      BY <3>1, <3>2
  <2>5. CASE k > 1 /\ Name(w[k]) = Name(w[k - 1])
    <3>1. r = q
      BY <2>2, <2>4, <2>5 DEF scaleNext
    <3>2. ScaledUpTo(w, f, k, q)
      BY <2>1, <2>5, SameScaled
    <3> QED
      BY <2>1, <3>1, <3>2 DEF r
  <2>6. CASE k > 1 => Name(w[k]) # Name(w[k - 1])
    <3> DEFINE c == Name(w[k])
    <3>1. r = [q EXCEPT !.objects[c] = applyWellPIScaling(@, q.factor, q.scalingApplicable),
                        !.scalingApplicable = applicableAfter(q.objects[c], @),
                        !.prev = w[k]]
      BY <2>2, <2>4, <2>6 DEF scaleNext, Name
    <3>2. ScaledUpTo(w, f, k, r)
      BY <2>1, <2>6, <3>1, OtherScaled
    <3> QED
      BY <2>1, <3>2 DEF r
  <2> QED
    BY <2>5, <2>6
<1>6. n \in T
  <2> HIDE DEF T, n
  <2> QED
    BY <1>1, <1>4, <1>5, UpTo
<1> QED
  BY <1>0, <1>2, <1>3, <1>6

(* What the scaling does to the connections of the present and of later    *)
(* steps.                                                                  *)
ScaleDone(f, new) ==
  /\ new = [t \in Steps |-> new[t]]
  /\ \A t \in Steps : new[t] \in Lists /\ Rescaled(objects[t], new[t])
  /\ \A t \in Steps : (\A s \in now .. LastStep : Name(s) # t) => new[t] = objects[t]
  /\ \A s \in now .. LastStep : \A i \in DOMAIN Conns(s) :
       \/ new[Name(s)][i].CF = Conns(s)[i].CF
       \/ new[Name(s)][i].CF = Conns(s)[i].CF + f /\ Conns(s)[i].subject_to_welpi
  /\ NoSkip => \A s \in now .. LastStep : \A i \in DOMAIN Conns(s) :
       new[Name(s)][i].CF =
         IF \A t \in now .. s : i \in DOMAIN Conns(t) => Conns(t)[i].subject_to_welpi
         THEN Conns(s)[i].CF + f ELSE Conns(s)[i].CF

(* applyWellProdIndexScaling does this to the objects.                    *)
LEMMA ScaleDoneFacts ==
  ASSUME Scalable, NEW f \in Int, NEW new,
         new = FoldLeft(scaleNext, [objects |-> objects, factor |-> f, scalingApplicable |-> << >>, prev |-> -1],
                        uniqueWells(now)).objects
  PROVE  ScaleDone(f, new)
<1>0. PICK w : w = uniqueWells(now)
  OBVIOUS
<1>1. UniqueWells(w)
  BY <1>0, UniqueFacts
<1>2. PICK q : q = FoldLeft(scaleNext, [objects |-> objects, factor |-> f, scalingApplicable |-> << >>, prev |-> -1], w)
  OBVIOUS
<1>3. ScaledUpTo(w, f, Len(w), q) /\ new = q.objects
  BY <1>0, <1>1, <1>2, ScaleFacts
<1>4. Len(w) \in Nat /\ \A j \in 1 .. Len(w) : w[j] \in now .. LastStep
  BY <1>1, WellsLookedAt
<1>5. /\ now \in Nat /\ LastStep \in Nat
      /\ \A s \in now .. LastStep : s \in Steps /\ s \in Nat /\ Name(s) \in Steps /\ Name(s) \in Nat
                                    /\ Conns(s) = objects[Name(s)]
  BY StepsAssumption DEF Scalable, Steps, Conns, Name
<1>6. /\ new = [t \in Steps |-> new[t]]
      /\ \A t \in Steps : new[t] \in Lists /\ Rescaled(objects[t], new[t])
  BY <1>3 DEF ScaledUpTo
<1>7. \A t \in Steps : (\A j \in 1 .. Len(w) : Name(w[j]) # t) => new[t] = objects[t]
  BY <1>3 DEF ScaledUpTo
<1>8. \A t \in Steps : (\A s \in now .. LastStep : Name(s) # t) => new[t] = objects[t]
  BY <1>4, <1>7
<1>9. \A j \in 1 .. Len(w) : \A i \in DOMAIN objects[Name(w[j])] :
       new[Name(w[j])][i].CF =
         IF Through(w, j, i) THEN objects[Name(w[j])][i].CF + f ELSE objects[Name(w[j])][i].CF
  BY <1>3 DEF ScaledUpTo
<1>10. ASSUME NEW s \in now .. LastStep, NEW i \in DOMAIN Conns(s)
       PROVE  \/ new[Name(s)][i].CF = Conns(s)[i].CF
              \/ new[Name(s)][i].CF = Conns(s)[i].CF + f /\ Conns(s)[i].subject_to_welpi
  <2>1. CASE \E j \in 1 .. Len(w) : Name(w[j]) = Name(s)
    <3>1. PICK j \in 1 .. Len(w) : Name(w[j]) = Name(s)
      BY <2>1
    <3>2. i \in DOMAIN objects[Name(w[j])] /\ objects[Name(w[j])] = Conns(s)
      BY <1>5, <3>1
    <3>3. Through(w, j, i) => Conns(s)[i].subject_to_welpi
      <4>1. j \in 1 .. j
        OBVIOUS
      <4> QED
        BY <3>2, <4>1 DEF Through
    <3> QED
      BY <1>9, <3>1, <3>2, <3>3
  <2>2. CASE \A j \in 1 .. Len(w) : Name(w[j]) # Name(s)
    BY <1>5, <1>7, <2>2
  <2> QED
    BY <2>1, <2>2
<1>11. ASSUME NoSkip, NEW s \in now .. LastStep, NEW i \in DOMAIN Conns(s)
       PROVE  new[Name(s)][i].CF =
                IF \A t \in now .. s : i \in DOMAIN Conns(t) => Conns(t)[i].subject_to_welpi
                THEN Conns(s)[i].CF + f ELSE Conns(s)[i].CF
  <2>1. \A t \in now .. LastStep : \E j \in 1 .. Len(w) : Name(w[j]) = Name(t)
    BY <1>1, <1>11 DEF UniqueWells
  <2>2. PICK k \in 1 .. Len(w) : Name(w[k]) = Name(s)
    BY <2>1
  <2>3. i \in DOMAIN objects[Name(w[k])] /\ objects[Name(w[k])] = Conns(s)
    BY <1>5, <2>2
  <2>4. s \in now .. s /\ \A t \in now .. s : t \in now .. LastStep /\ t <= s
    BY <1>5
  <2>5. ASSUME Through(w, k, i), NEW t \in now .. s, i \in DOMAIN Conns(t)
        PROVE  Conns(t)[i].subject_to_welpi
    <3>1. PICK j \in 1 .. Len(w) : Name(w[j]) = Name(t)
      BY <2>1, <2>4
    <3>2. CASE j <= k
      <4>1. j \in 1 .. k /\ objects[Name(w[j])] = Conns(t)
        BY <1>4, <1>5, <2>4, <3>1, <3>2
      <4> QED
        BY <2>5, <4>1 DEF Through
    <3>3. CASE ~(j <= k)
      <4>1. k <= j
        BY <1>4, <3>3
      <4>2. w[k] <= w[j] /\ w[k] \in now .. LastStep /\ w[j] \in now .. LastStep
        BY <1>1, <1>4, <4>1 DEF UniqueWells
      <4>3. Name(w[k]) <= Name(w[j])
        BY <4>2, NamesGoUp
      <4>4. Name(t) <= Name(s)
        BY <2>4, NamesGoUp
      <4>5. Name(t) = Name(s)
        BY <1>5, <2>2, <2>4, <3>1, <4>3, <4>4
      <4>6. Conns(t) = objects[Name(w[k])] /\ k \in 1 .. k
        BY <1>5, <2>2, <2>4, <4>5
      <4> QED
        BY <2>5, <4>6 DEF Through
    <3> QED
      BY <3>2, <3>3
  <2>6. ASSUME \A t \in now .. s : i \in DOMAIN Conns(t) => Conns(t)[i].subject_to_welpi,
               NEW j \in 1 .. k, i \in DOMAIN objects[Name(w[j])]
        PROVE  objects[Name(w[j])][i].subject_to_welpi
    <3>1. j \in 1 .. Len(w) /\ j <= k /\ w[j] \in now .. LastStep /\ w[k] \in now .. LastStep
      BY <1>4
    <3>2. CASE w[j] <= s
      <4>1. w[j] \in now .. s /\ objects[Name(w[j])] = Conns(w[j])
        BY <1>5, <3>1, <3>2
      <4> QED
        BY <2>6, <4>1
    <3>3. CASE ~(w[j] <= s)
      <4>1. s <= w[j]
        BY <1>5, <3>1, <3>3
      <4>2. w[j] <= w[k]
        BY <1>1, <3>1 DEF UniqueWells
      <4>3. Name(s) <= Name(w[j]) /\ Name(w[j]) <= Name(w[k])
        BY <3>1, <4>1, <4>2, NamesGoUp
      <4>4. Name(w[j]) = Name(s)
        BY <1>5, <2>2, <3>1, <4>3
      <4>5. objects[Name(w[j])] = Conns(s)
        BY <1>5, <4>4
      <4> QED
        BY <2>4, <2>6, <4>5
    <3> QED
      BY <3>2, <3>3
  <2>7. Through(w, k, i) <=> \A t \in now .. s : i \in DOMAIN Conns(t) => Conns(t)[i].subject_to_welpi
    <3>1. Through(w, k, i) => \A t \in now .. s : i \in DOMAIN Conns(t) => Conns(t)[i].subject_to_welpi
      BY <2>5
    <3>2. (\A t \in now .. s : i \in DOMAIN Conns(t) => Conns(t)[i].subject_to_welpi) => Through(w, k, i)
      BY <2>6 DEF Through
    <3> QED
      BY <3>1, <3>2
  <2>8. new[Name(w[k])][i].CF = IF Through(w, k, i) THEN objects[Name(w[k])][i].CF + f ELSE objects[Name(w[k])][i].CF
    BY <1>9, <2>3
  <2> QED
    BY ONLY <2>2, <2>3, <2>7, <2>8
<1> QED
  BY <1>6, <1>8, <1>10, <1>11 DEF ScaleDone

-----------------------------------------------------------------------------
(***************************************************************************)
(* The invariant: what the timeline looks like.  The parameters are the    *)
(* variables, before or after a step.                                      *)
(***************************************************************************)
Present == [objects |-> objects, snapshots |-> snapshots]

(* The step that the simulator has done with.                              *)
Base(n, ph) == IF ph = "start" THEN n - 1 ELSE n

(* A step has connections of its own or those of the step before.          *)
Sharing(p) == \A s \in Steps : s # 0 => NameAt(p, s) \in {NameAt(p, s - 1), s}

IsHistory(g) == g = [s \in Steps |-> g[s]] /\ \A s \in Steps : g[s] \in Seq(EffectKeyword)

(* Nothing but the deck has been said of the steps to come.                *)
Ahead(d, n, ph, g) == \A s \in Steps : s > Base(n, ph) => g[s] = Effects(d[s])

Standing(p, g) ==
  \A s \in Steps : "COMPLUMP" \in NamesIn(g[s]) \/ Stand(ConnsAt(p, s), p.snapshots[s].open_requests)

(* What is subject to scaling was made so at the step or before.           *)
Sourced(p, n, ph, g) ==
  \A s \in Steps : s >= Base(n, ph) /\ Subject(ConnsAt(p, s)) =>
    \E t \in 0 .. s : p.snapshots[t].welpi \/ "WELPIRuntime" \in NamesIn(g[t])

(* WELPI makes a copy unless all are subject to scaling already.           *)
Copied(p, n, ph) ==
  \A s \in Steps : s > Base(n, ph) /\ p.snapshots[s].welpi /\ NameAt(p, s) # s => allSubject(ConnsAt(p, s))

Core(d, p, n, ph, g) ==
  /\ IsTimeline(p)
  /\ Sharing(p)
  /\ IsHistory(g)
  /\ Ahead(d, n, ph, g)
  /\ Standing(p, g)
  /\ Sourced(p, n, ph, g)
  /\ Copied(p, n, ph)

(* Tasks kept keep the requests.                                           *)
LEMMA TasksStand ==
  ASSUME NEW c, NEW d, SameTasks(c, d), NEW requests, Stand(c, requests)
  PROVE  Stand(d, requests)
BY DEF SameTasks, KeepPlaces, Stand

(* A change at a step, by a block with effects of these names or by a      *)
(* fracture.                                                               *)
Changed(p, n, names, r) ==
  /\ IsTimeline(r)
  /\ \A t \in Steps : t # n => r.snapshots[t] = p.snapshots[t]
  /\ NameAt(r, n) \in {NameAt(p, n), n}
  /\ \A t \in Steps : t # n => r.objects[t] = p.objects[t] \/ SameTasks(p.objects[t], r.objects[t])
  /\ "COMPLUMP" \in names \/ (Stand(ConnsAt(p, n), p.snapshots[n].open_requests) =>
                                Stand(ConnsAt(r, n), r.snapshots[n].open_requests))
  /\ Subject(ConnsAt(r, n)) => Subject(ConnsAt(p, n)) \/ r.snapshots[n].welpi \/ "WELPIRuntime" \in names
  /\ p.snapshots[n].welpi => r.snapshots[n].welpi

(* A block changes its step in this way.                                  *)
LEMMA BlockChanges ==
  ASSUME NEW p, IsTimeline(p), NEW n \in Steps, NEW effects \in Seq(EffectKeyword), NEW r, BlockDone(p, n, effects, r)
  PROVE  Changed(p, n, NamesIn(effects), r)
<1>1. /\ ConnsAt(p, n) \in Lists /\ ConnsAt(r, n) \in Lists
  BY DEF BlockDone, IsTimeline, ConnsAt
<1>2. Subject(ConnsAt(r, n)) => Subject(ConnsAt(p, n)) \/ r.snapshots[n].welpi \/ "WELPIRuntime" \in NamesIn(effects)
  <2>1. ASSUME Subject(ConnsAt(r, n))
        PROVE  Subject(ConnsAt(p, n)) \/ "WELPI" \in NamesIn(effects) \/ "WELPIRuntime" \in NamesIn(effects)
    <3>1. View(ConnsAt(r, n)) = Applying!Fold("code", View(ConnsAt(p, n)), effects)
      BY DEF BlockDone
    <3> QED
      BY <1>1, <2>1, <3>1, SubjectSource
  <2>2. "WELPI" \in NamesIn(effects) => r.snapshots[n].welpi
    BY DEF BlockDone
  <2> QED
    BY <2>1, <2>2
<1>3. IsTimeline(r)
  BY DEF BlockDone
<1> QED
  BY <1>2, <1>3 DEF BlockDone, Changed

(* A step built has nothing subject but what the step before had or WELPI  *)
(* made.                                                                   *)
LEMMA BuiltSubject ==
  ASSUME deck \in Decks, NEW q, IsTimeline(q), NEW s \in Steps, s # 0, Built(q, s), Subject(ConnsAt(q, s))
  PROVE  Subject(ConnsAt(q, s - 1)) \/ q.snapshots[s].welpi
<1>1. s - 1 \in Steps
  BY StepsAssumption DEF Steps
<1>2. ConnsAt(q, s) \in Lists /\ ConnsAt(q, s - 1) \in Lists
  BY <1>1 DEF IsTimeline, ConnsAt
<1>3. Effects(deck[s]) \in Seq(EffectKeyword) /\ "WELPIRuntime" \notin NamesIn(Effects(deck[s]))
  BY DeckFacts
<1>4. View(ConnsAt(q, s)) = Applying!Fold("code", View(ConnsAt(q, s - 1)), Effects(deck[s]))
      /\ (q.snapshots[s].welpi <=> "WELPI" \in NamesIn(Effects(deck[s])))
  BY DEF Built
<1>5. Subject(ConnsAt(q, s - 1)) \/ "WELPI" \in NamesIn(Effects(deck[s])) \/ "WELPIRuntime" \in NamesIn(Effects(deck[s]))
  BY <1>2, <1>3, <1>4, SubjectSource
<1> QED
  BY <1>3, <1>4, <1>5

(* A change at the step and the replay of those after it.                  *)
LEMMA CoreReplayed ==
  ASSUME deck \in Decks, NEW p, NEW n \in Steps, NEW g, NEW ph, ph # "start", Core(deck, p, n, ph, g),
         NEW names, NEW r, Changed(p, n, names, r), NEW q, Replayed(r, n + 1, q),
         NEW e, IsHistory(e), \A t \in Steps : t # n => e[t] = g[t],
         \A name \in {"COMPLUMP", "WELPIRuntime"} :
            name \in NamesIn(g[n]) \/ name \in names => name \in NamesIn(e[n])
  PROVE  Core(deck, q, n, "run", e)
<1>1. /\ n \in Nat /\ LastStep \in Nat /\ n <= LastStep
      /\ \A s \in Steps : s \in Nat /\ s <= LastStep
  BY StepsAssumption DEF Steps
<1>2. Base(n, ph) = n /\ Base(n, "run") = n
  BY DEF Base
<1>3. IsTimeline(p) /\ IsTimeline(r) /\ IsTimeline(q) /\ Sharing(p)
  BY DEF Core, Changed, Replayed
<1>4. \A t \in Steps : t <= n => q.snapshots[t] = r.snapshots[t] /\ q.objects[t] = r.objects[t]
  <2>1. \A t \in Steps : t <= n => t < n + 1
    BY ONLY <1>1
  <2>2. \A t \in Steps : t < n + 1 => q.snapshots[t] = r.snapshots[t] /\ q.objects[t] = r.objects[t]
    BY ONLY Replayed(r, n + 1, q) DEF Replayed
  <2> QED
    BY ONLY <2>1, <2>2
<1>5. \A t \in Steps : /\ t < n => q.snapshots[t] = p.snapshots[t] /\ NameAt(q, t) = NameAt(p, t)
                       /\ NameAt(q, n) = NameAt(r, n)
  <2>1. \A t \in Steps : t # n => r.snapshots[t] = p.snapshots[t]
    BY ONLY Changed(p, n, names, r) DEF Changed
  <2>2. \A t \in Steps : t < n => t # n /\ t <= n
    BY ONLY <1>1
  <2>3. q.snapshots[n] = r.snapshots[n] /\ \A t \in Steps : t < n => q.snapshots[t] = p.snapshots[t]
    BY ONLY <1>1, <1>4, <2>1, <2>2, n \in Steps
  <2> QED
    BY ONLY <2>3 DEF NameAt
<1>6. \A s \in Steps : s > n => Built(q, s)
  BY <1>1 DEF Replayed
<1>7. ConnsAt(q, n) = ConnsAt(r, n) /\ q.snapshots[n] = r.snapshots[n]
  <2>1. NameAt(r, n) \in Steps /\ NameAt(r, n) <= n
    BY <1>3 DEF IsTimeline
  <2>2. PICK t : t = NameAt(r, n)
    OBVIOUS
  <2>3. q.objects[t] = r.objects[t]
    BY ONLY <1>4, <2>1, <2>2
  <2>4. q.snapshots[n] = r.snapshots[n]
    BY ONLY <1>1, <1>4, n \in Steps
  <2> QED
    BY ONLY <1>5, <2>2, <2>3, <2>4, n \in Steps DEF ConnsAt
<1>8. \A s \in Steps : s < n => /\ q.snapshots[s] = p.snapshots[s]
                                /\ ConnsAt(q, s) = ConnsAt(p, s) \/ SameTasks(ConnsAt(p, s), ConnsAt(q, s))
  <2> SUFFICES ASSUME NEW s \in Steps, s < n
               PROVE  /\ q.snapshots[s] = p.snapshots[s]
                      /\ ConnsAt(q, s) = ConnsAt(p, s) \/ SameTasks(ConnsAt(p, s), ConnsAt(q, s))
    OBVIOUS
  <2>1. NameAt(p, s) \in Steps /\ NameAt(p, s) <= s
    BY <1>3 DEF IsTimeline
  <2>0. PICK t : t = NameAt(p, s)
    OBVIOUS
  <2>2. t \in Steps /\ t # n /\ t <= n
    <3>1. t \in Steps /\ t <= s
      BY ONLY <2>0, <2>1
    <3>2. t \in Nat /\ s \in Nat /\ n \in Nat /\ s < n
      BY ONLY <1>1, <3>1, s \in Steps, s < n
    <3> QED
      BY ONLY <3>1, <3>2
  <2>3. NameAt(q, s) = t /\ q.snapshots[s] = p.snapshots[s]
    BY ONLY <1>5, <2>0, s \in Steps, s < n
  <2>4. q.objects[t] = r.objects[t]
    BY <1>4, <2>2
  <2>5. r.objects[t] = p.objects[t] \/ SameTasks(p.objects[t], r.objects[t])
    BY <2>2 DEF Changed
  <2>6. ConnsAt(q, s) = q.objects[t] /\ ConnsAt(p, s) = p.objects[t]
    BY ONLY <2>0, <2>3 DEF ConnsAt
  <2> QED
    BY <2>3, <2>4, <2>5, <2>6
<1>9. Sharing(q)
  <2> SUFFICES ASSUME NEW s \in Steps, s # 0 PROVE NameAt(q, s) \in {NameAt(q, s - 1), s}
    BY DEF Sharing
  <2>0. s - 1 \in Steps
    BY StepsAssumption DEF Steps
  <2>1. CASE s > n
    BY <1>6, <2>1 DEF Built
  <2>2. CASE s = n
    <3>1. NameAt(q, s - 1) = NameAt(p, s - 1)
      BY <1>1, <1>5, <2>0, <2>2
    <3>2. NameAt(q, s) \in {NameAt(p, s), s} /\ NameAt(p, s) \in {NameAt(p, s - 1), s}
      BY <1>3, <1>5, <2>2 DEF Changed, Sharing
    <3> QED
      BY <3>1, <3>2
  <2>3. CASE s < n
    <3>1. NameAt(q, s) = NameAt(p, s) /\ NameAt(q, s - 1) = NameAt(p, s - 1)
      BY <1>1, <1>5, <2>0, <2>3
    <3> QED
      BY <1>3, <3>1 DEF Sharing
  <2> QED
    BY <1>1, <2>1, <2>2, <2>3
<1>10. Ahead(deck, n, "run", e)
  BY <1>1, <1>2 DEF Core, Ahead
<1>11. Standing(q, e)
  <2> SUFFICES ASSUME NEW s \in Steps, "COMPLUMP" \notin NamesIn(e[s])
               PROVE  Stand(ConnsAt(q, s), q.snapshots[s].open_requests)
    BY DEF Standing
  <2>1. CASE s > n
    <3>1. e[s] = Effects(deck[s])
      BY <1>2, <1>10, <2>1 DEF Ahead
    <3> QED
      BY <1>6, <2>1, <3>1 DEF Built
  <2>2. CASE s = n
    <3>1. "COMPLUMP" \notin NamesIn(g[n]) /\ "COMPLUMP" \notin names
      BY <2>2
    <3>2. Stand(ConnsAt(p, n), p.snapshots[n].open_requests)
      BY <3>1 DEF Core, Standing
    <3> QED
      BY <1>7, <2>2, <3>1, <3>2 DEF Changed
  <2>3. CASE s < n
    <3>1. Stand(ConnsAt(p, s), p.snapshots[s].open_requests)
      BY <2>3 DEF Core, Standing
    <3> QED
      BY <1>8, <2>3, <3>1, TasksStand
  <2> QED
    BY <1>1, <2>1, <2>2, <2>3
<1>12. Sourced(q, n, "run", e)
  <2> DEFINE Source(s) == \E t \in 0 .. s : q.snapshots[t].welpi \/ "WELPIRuntime" \in NamesIn(e[t])
             T == {k \in 0 .. LastStep - n : Subject(ConnsAt(q, n + k)) => Source(n + k)}
  <2>1. 0 \in T
    <3>1. ASSUME Subject(ConnsAt(q, n)) PROVE Source(n)
      <4>1. Subject(ConnsAt(p, n)) \/ q.snapshots[n].welpi \/ "WELPIRuntime" \in names
        BY <1>7, <3>1 DEF Changed
      <4>2. n \in 0 .. n
        BY <1>1
      <4>3. CASE q.snapshots[n].welpi \/ "WELPIRuntime" \in names
        BY <4>2, <4>3
      <4>4. CASE Subject(ConnsAt(p, n))
        <5>1. PICK t \in 0 .. n : p.snapshots[t].welpi \/ "WELPIRuntime" \in NamesIn(g[t])
          BY <1>1, <1>2, <4>4 DEF Core, Sourced
        <5>2. t \in Steps /\ t <= n
          BY <1>1 DEF Steps
        <5>3. CASE t = n
          BY <1>7, <4>2, <5>1, <5>3 DEF Changed
        <5>4. CASE t # n
          <6>1. q.snapshots[t] = p.snapshots[t] /\ e[t] = g[t]
            BY <1>1, <1>5, <5>2, <5>4
          <6> QED
            BY <5>1, <6>1
        <5> QED
          BY <5>3, <5>4
      <4> QED
        BY <4>1, <4>3, <4>4
    <3> HIDE DEF Source
    <3>2. n + 0 = n /\ 0 \in 0 .. LastStep - n
      BY <1>1
    <3> QED
      BY <3>1, <3>2
  <2>2. ASSUME NEW k \in 1 .. LastStep - n, k - 1 \in T PROVE k \in T
    <3> DEFINE s == n + k
    <3>1. s \in Steps /\ s # 0 /\ s > n /\ s - 1 = n + (k - 1) /\ k \in 0 .. LastStep - n /\ s \in 0 .. s
          /\ \A t \in 0 .. s - 1 : t \in 0 .. s
      BY <1>1 DEF Steps
    <3>2. Subject(ConnsAt(q, s - 1)) => Source(s - 1)
      BY <2>2, <3>1
    <3>3. Source(s - 1) => Source(s)
      BY <3>1
    <3>4. Built(q, s)
      BY <1>6, <3>1
    <3>5. q.snapshots[s].welpi => Source(s)
      BY <3>1
    <3> HIDE DEF s, Source
    <3>6. Subject(ConnsAt(q, s)) => Source(s)
      BY <1>3, <3>1, <3>2, <3>3, <3>4, <3>5, BuiltSubject
    <3> QED
      BY <3>1, <3>6 DEF s
  <2>3. \A k \in 0 .. LastStep - n : k \in T
    <3>1. LastStep - n \in Nat
      BY <1>1
    <3> HIDE DEF T
    <3> QED
      BY <2>1, <2>2, <3>1, UpTo
  <2>4. ASSUME NEW s \in Steps, s >= n, Subject(ConnsAt(q, s)) PROVE Source(s)
    <3>1. s - n \in 0 .. LastStep - n /\ n + (s - n) = s
      BY <1>1, <2>4
    <3>2. s - n \in T
      BY <2>3, <3>1
    <3> HIDE DEF Source
    <3> QED
      BY <2>4, <3>1, <3>2
  <2> QED
    BY <1>2, <2>4 DEF Sourced
<1>13. Copied(q, n, "run")
  BY <1>2, <1>6 DEF Copied, Built
<1> QED
  BY <1>3, <1>9, <1>10, <1>11, <1>12, <1>13 DEF Core

-----------------------------------------------------------------------------
(***************************************************************************)
(* The steps of the specification keep the timeline.                       *)
(***************************************************************************)
(* Two histories one after the other. *)
LEMMA JoinedFacts ==
  ASSUME NEW e \in Seq(EffectKeyword), NEW h \in Seq(EffectKeyword)
  PROVE  e \o h \in Seq(EffectKeyword) /\ NamesIn(e \o h) = NamesIn(e) \cup NamesIn(h)
<1>1. /\ e \o h \in Seq(EffectKeyword)
      /\ Len(e) \in Nat /\ Len(h) \in Nat
      /\ DOMAIN e = 1 .. Len(e) /\ DOMAIN h = 1 .. Len(h) /\ DOMAIN (e \o h) = 1 .. Len(e) + Len(h)
      /\ \A k \in DOMAIN e : (e \o h)[k] = e[k] /\ k \in DOMAIN (e \o h)
      /\ \A k \in DOMAIN h : (e \o h)[Len(e) + k] = h[k] /\ Len(e) + k \in DOMAIN (e \o h)
  OBVIOUS
<1>2. ASSUME NEW k \in DOMAIN (e \o h)
      PROVE  \/ k \in DOMAIN e /\ (e \o h)[k] = e[k]
             \/ k - Len(e) \in DOMAIN h /\ (e \o h)[k] = h[k - Len(e)]
  OBVIOUS
<1>3. ASSUME NEW name \in NamesIn(e \o h) PROVE name \in NamesIn(e) \cup NamesIn(h)
  BY <1>2 DEF NamesIn
<1>4. ASSUME NEW name \in NamesIn(e) \cup NamesIn(h) PROVE name \in NamesIn(e \o h)
  <2>1. CASE name \in NamesIn(e)
    <3>1. PICK k \in DOMAIN e : e[k].name = name
      BY <2>1 DEF NamesIn
    <3>2. k \in DOMAIN (e \o h) /\ (e \o h)[k].name = name
      BY <1>1, <3>1
    <3> QED
      BY <3>2 DEF NamesIn
  <2>2. CASE name \in NamesIn(h)
    <3>1. PICK k \in DOMAIN h : h[k].name = name
      BY <2>2 DEF NamesIn
    <3>2. Len(e) + k \in DOMAIN (e \o h) /\ (e \o h)[Len(e) + k].name = name
      BY <1>1, <3>1
    <3> QED
      BY <3>2 DEF NamesIn
  <2> QED
    BY <1>4, <2>1, <2>2
<1> QED
  BY <1>1, <1>3, <1>4

(* The last WELPI of a step, if there is one, becomes the factor found.    *)
FoundAt(f, effects, new) ==
  /\ new \in Seq(EffectKeyword) /\ Len(new) = Len(effects)
  /\ "WELPI" \notin NamesIn(effects) => new = effects
  /\ "WELPI" \in NamesIn(effects) =>
       \E k \in 1 .. Len(effects) :
         /\ effects[k].name = "WELPI"
         /\ \A l \in k + 1 .. Len(effects) : effects[l].name # "WELPI"
         /\ new[k] = [name |-> "Found", factor |-> f]
         /\ \A l \in 1 .. Len(effects) : l # k => new[l] = effects[l]

(* The history after the scaling.                                         *)
LEMMA FoundFacts ==
  ASSUME NEW f \in Int, NEW effects \in Seq(EffectKeyword)
  PROVE  FoundAt(f, effects, found(f, effects))
<1> DEFINE I == {i \in 1 .. Len(effects) : effects[i].name = "WELPI"}
           m == Max(I)
           kw == [name |-> "Found", factor |-> f]
<1>1. found(f, effects) = [effects EXCEPT ![IF I # {} THEN m ELSE 0] = kw]
  BY DEF found, SelectLastInSeq
<1>2. kw \in EffectKeyword
  BY DEF EffectKeyword
<1>3. Len(effects) \in Nat /\ I \in SUBSET (1 .. Len(effects)) /\ DOMAIN effects = 1 .. Len(effects)
  OBVIOUS
<1>4. "WELPI" \in NamesIn(effects) <=> I # {}
  BY <1>3 DEF NamesIn
<1> HIDE DEF kw
<1>0. (I # {} => found(f, effects) = [effects EXCEPT ![m] = kw]) /\ (I = {} => found(f, effects) = [effects EXCEPT ![0] = kw])
  BY <1>1
<1>5. CASE I = {}
  <2>1. [effects EXCEPT ![0] = kw] = effects
    BY <1>3
  <2> QED
    BY <1>1, <1>4, <1>5, <2>1 DEF FoundAt
<1>6. CASE I # {}
  <2>1. m \in I /\ \A y \in I : y <= m
    <3> HIDE DEF I
    <3> QED
      BY <1>3, <1>6, Greatest
  <2>2. PICK k : k = m
    OBVIOUS
  <2>3. /\ k \in 1 .. Len(effects) /\ effects[k].name = "WELPI"
        /\ \A l \in k + 1 .. Len(effects) : effects[l].name # "WELPI"
    <3>1. k \in I /\ \A y \in I : y <= k
      BY ONLY <2>1, <2>2
    <3>2. ASSUME NEW l \in k + 1 .. Len(effects), effects[l].name = "WELPI" PROVE FALSE
      <4>1. k \in Nat /\ k >= 1 /\ l \in 1 .. Len(effects) /\ ~(l <= k)
        BY <1>3, <3>1
      <4>2. l \in I
        BY <3>2, <4>1
      <4> QED
        BY ONLY <3>1, <4>1, <4>2
    <3> QED
      BY <3>1, <3>2
  <2>4. found(f, effects) = [effects EXCEPT ![k] = kw]
    BY ONLY <1>0, <1>6, <2>2
  <2>5. /\ found(f, effects) \in Seq(EffectKeyword)
        /\ Len(found(f, effects)) = Len(effects)
        /\ found(f, effects)[k] = kw
        /\ \A l \in 1 .. Len(effects) : l # k => found(f, effects)[l] = effects[l]
    BY <1>2, <2>3, <2>4
  <2> QED
    BY <1>4, <1>6, <2>3, <2>5 DEF FoundAt, kw
<1> QED
  BY <1>5, <1>6

(* No other name is lost.                                                  *)
LEMMA FoundNames ==
  ASSUME NEW f \in Int, NEW effects \in Seq(EffectKeyword), NEW new, FoundAt(f, effects, new), NEW name, name # "WELPI",
         name \in NamesIn(effects)
  PROVE  name \in NamesIn(new)
<1>1. PICK l \in DOMAIN effects : effects[l].name = name
  BY DEF NamesIn
<1>2. DOMAIN effects = 1 .. Len(effects) /\ DOMAIN new = 1 .. Len(effects)
  BY DEF FoundAt
<1>3. new[l] = effects[l]
  BY <1>1, <1>2 DEF FoundAt
<1> QED
  BY <1>1, <1>2, <1>3 DEF NamesIn

(* Core after a block at the step reached, and the replay of those after.  *)
LEMMA CoreBlock ==
  ASSUME deck \in Decks, NEW p, NEW n \in Steps, NEW ph, ph # "start", NEW g, Core(deck, p, n, ph, g),
         NEW block \in Seq(BlockKeyword), NEW q, q = iterateScheduleSection(handleBlock(p, n, block), n + 1),
         NEW e, IsHistory(e), \A t \in Steps : t # n => e[t] = g[t],
         \A name : name \in NamesIn(g[n]) \/ name \in NamesIn(Effects(block)) => name \in NamesIn(e[n])
  PROVE  Core(deck, q, n, "run", e)
<1>1. IsTimeline(p)
  BY DEF Core
<1>2. PICK r : r = handleBlock(p, n, block)
  OBVIOUS
<1>3. BlockDone(p, n, Effects(block), r) /\ Effects(block) \in Seq(EffectKeyword)
  BY <1>1, <1>2, BlockFacts
<1>4. Changed(p, n, NamesIn(Effects(block)), r)
  BY <1>1, <1>3, BlockChanges
<1>5. n + 1 \in 1 .. LastStep + 1
  BY StepsAssumption DEF Steps
<1>6. IsTimeline(r) /\ q = iterateScheduleSection(r, n + 1)
  BY <1>2, <1>3 DEF BlockDone
<1>7. Replayed(r, n + 1, q)
  BY <1>5, <1>6, ReplayFacts
<1> QED
  BY ONLY CoreReplayed, deck \in Decks, n \in Steps, ph # "start", Core(deck, p, n, ph, g), <1>4, <1>7,
     IsHistory(e), \A t \in Steps : t # n => e[t] = g[t],
     \A name : name \in NamesIn(g[n]) \/ name \in NamesIn(Effects(block)) => name \in NamesIn(e[n])

(* Core after a fracture has grown.                                        *)
WithFracture(p, n, new) ==
  [objects |-> [p.objects EXCEPT ![NameAt(p, n)] = FoldLeft(withFracture, @, new)], snapshots |-> p.snapshots]

(* modifyCompletions keeps the timeline.                                  *)
LEMMA CoreFracture ==
  ASSUME deck \in Decks, NEW p, NEW n \in Steps, NEW ph, ph # "start", NEW g, Core(deck, p, n, ph, g),
         NEW new \in Seq(NewFracture), NEW r, r = WithFracture(p, n, new),
         NEW q, q = iterateScheduleSection(r, n + 1),
         NEW e, IsHistory(e), \A t \in Steps : t # n => e[t] = g[t],
         \A name : name \in NamesIn(g[n]) => name \in NamesIn(e[n])
  PROVE  Core(deck, q, n, "run", e)
<1>1. IsTimeline(p)
  BY DEF Core
<1>2. PICK c : c = NameAt(p, n)
  OBVIOUS
<1>3. c \in Steps /\ p.objects[c] \in Lists
  BY <1>1, <1>2 DEF IsTimeline
<1>4. PICK grown : grown = FoldLeft(withFracture, p.objects[c], new)
  OBVIOUS
<1>5. /\ grown \in Lists /\ SameTasks(p.objects[c], grown)
      /\ View(grown) = GrowingView!Fold(<< >>, View(p.objects[c]), new)
  BY <1>3, <1>4, Grown
<1>6. r = [objects |-> [p.objects EXCEPT ![c] = grown], snapshots |-> p.snapshots]
  BY <1>2, <1>4 DEF WithFracture
<1>7. r = [objects |-> r.objects, snapshots |-> r.snapshots]
      /\ r.snapshots = p.snapshots /\ r.objects = [p.objects EXCEPT ![c] = grown]
  BY <1>6
<1>8. /\ r.objects = [t \in Steps |-> r.objects[t]] /\ r.objects[c] = grown
      /\ \A t \in Steps : t # c => r.objects[t] = p.objects[t]
  BY <1>1, <1>3, <1>7 DEF IsTimeline
<1>9. \A t \in Steps : NameAt(r, t) = NameAt(p, t)
  BY <1>7 DEF NameAt
<1>10. IsTimeline(r)
  <2>1. \A t \in Steps : r.objects[t] \in Lists
    BY <1>1, <1>5, <1>8 DEF IsTimeline
  <2> QED
    BY <1>1, <1>7, <1>8, <1>9, <2>1 DEF IsTimeline
<1>11. ConnsAt(p, n) = p.objects[c] /\ ConnsAt(r, n) = grown
  BY <1>2, <1>8, <1>9 DEF ConnsAt
<1>12. Subject(grown) => Subject(p.objects[c])
  <2> DEFINE kw == [name |-> "Fracture", connections |-> new]
  <2>1. kw \in EffectKeyword /\ kw.name = "Fracture" /\ kw.connections = new
    BY DEF EffectKeyword
  <2> HIDE DEF kw
  <2>2. Applied("code", View(p.objects[c]), kw) = View(grown)
    BY <1>5, <2>1 DEF Applied
  <2>3. IsView(View(p.objects[c]))
    BY <1>3, ViewFacts
  <2>4. SomeSubject(View(grown)) => SomeSubject(View(p.objects[c]))
    BY <2>1, <2>2, <2>3, AppliedSubject
  <2> QED
    BY <1>3, <1>5, <2>4, SubjectView
<1>13. Changed(p, n, {}, r)
  <2>1. \A t \in Steps : t # n => r.objects[t] = p.objects[t] \/ SameTasks(p.objects[t], r.objects[t])
    BY <1>5, <1>8
  <2>2. Stand(ConnsAt(p, n), p.snapshots[n].open_requests) => Stand(ConnsAt(r, n), r.snapshots[n].open_requests)
    BY <1>5, <1>7, <1>11, TasksStand
  <2> QED
    BY <1>7, <1>9, <1>10, <1>11, <1>12, <2>1, <2>2 DEF Changed
<1>14. n + 1 \in 1 .. LastStep + 1
  BY StepsAssumption DEF Steps
<1>15. Replayed(r, n + 1, q)
  BY <1>10, <1>14, ReplayFacts
<1>16. PICK none : none = {}
  OBVIOUS
<1>17. \A name \in {"COMPLUMP", "WELPIRuntime"} : name \in NamesIn(g[n]) \/ name \in none => name \in NamesIn(e[n])
  BY <1>16
<1> QED
  BY ONLY CoreReplayed, deck \in Decks, n \in Steps, ph # "start", Core(deck, p, n, ph, g), <1>13, <1>15, <1>16, <1>17,
     IsHistory(e), \A t \in Steps : t # n => e[t] = g[t]

(* Core before the deck is read.                                           *)
LEMMA CoreInitially ==
  ASSUME deck \in Decks, NEW p, p = [objects |-> [s \in Steps |-> << >>], snapshots |-> [s \in Steps |-> NoSnapshot]],
         NEW g, g = [s \in Steps |-> Effects(deck[s])]
  PROVE  Core(deck, p, 0, "input", g)
<1>1. p.objects = [s \in Steps |-> << >>] /\ p.snapshots = [s \in Steps |-> NoSnapshot]
  OBVIOUS
<1>2. \A s \in Steps : p.objects[s] = << >> /\ p.snapshots[s] = NoSnapshot /\ g[s] = Effects(deck[s])
  BY <1>1
<1>3. << >> \in Lists
  BY DEF Lists
<1>4. 0 \in Steps /\ \A s \in Steps : s \in Nat
  BY StepsAssumption DEF Steps
<1>5. PICK no \in BOOLEAN : no = FALSE
  OBVIOUS
<1>6. NoSnapshot = [well |-> [connections |-> 0, status |-> "SHUT"], open_requests |-> {}, welpi |-> no]
  BY ONLY <1>5, Zenon DEF NoSnapshot
<1>7. NoSnapshot \in Snapshot /\ NoSnapshot.well.connections = 0 /\ NoSnapshot.open_requests = {} /\ ~NoSnapshot.welpi
  BY <1>4, <1>5, <1>6 DEF Snapshot, Well, States
<1>8. \A s \in Steps : NameAt(p, s) = 0 /\ ConnsAt(p, s) = << >>
  BY <1>2, <1>4, <1>7 DEF NameAt, ConnsAt
<1>9. IsTimeline(p)
  BY <1>1, <1>2, <1>3, <1>4, <1>7, <1>8 DEF IsTimeline
<1>10. Sharing(p)
  <2>1. \A s \in Steps : s # 0 => s - 1 \in Steps
    BY StepsAssumption DEF Steps
  <2> QED
    BY <1>8, <2>1 DEF Sharing
<1>11. IsHistory(g)
  BY <1>2, DeckFacts DEF IsHistory
<1>12. Ahead(deck, 0, "input", g)
  BY <1>2 DEF Ahead
<1>13. Standing(p, g)
  BY <1>2, <1>7 DEF Standing, Stand
<1>14. Sourced(p, 0, "input", g)
  BY <1>8 DEF Sourced, Subject
<1>15. Copied(p, 0, "input")
  BY <1>2, <1>7 DEF Copied
<1> QED
  BY <1>9, <1>10, <1>11, <1>12, <1>13, <1>14, <1>15 DEF Core

(* Core when the deck has been read: the simulator stands before step 0.   *)
LEMMA CoreConstructed ==
  ASSUME deck \in Decks, NEW p, NEW g, Core(deck, p, 0, "input", g), g[0] = Effects(deck[0]),
         NEW q, q = iterateScheduleSection(handleBlock(p, 0, deck[0]), 1)
  PROVE  Core(deck, q, 0, "start", g)
<1>1. 0 \in Steps /\ 0 + 1 = 1 /\ \A s \in Steps : s \in Nat
  BY StepsAssumption DEF Steps
<1>2. deck[0] \in Seq(BlockKeyword)
  BY <1>1, DeckFacts
<1>3. IsHistory(g)
  BY DEF Core
<1>4. Core(deck, q, 0, "run", g)
  BY <1>1, <1>2, <1>3, CoreBlock
<1>5. Base(0, "run") = 0 /\ Base(0, "start") = -1
  BY DEF Base
<1>6. NameAt(q, 0) = 0
  BY <1>1, <1>4 DEF Core, IsTimeline
<1>7. \A s \in Steps : s >= 0 /\ (s = 0 \/ s > 0)
  BY <1>1
<1>8. Ahead(deck, 0, "start", g)
  BY <1>4, <1>5, <1>7 DEF Core, Ahead
<1>9. Sourced(q, 0, "start", g)
  BY <1>4, <1>5, <1>7 DEF Core, Sourced
<1>10. Copied(q, 0, "start")
  BY <1>4, <1>5, <1>6, <1>7 DEF Core, Copied
<1> QED
  BY <1>4, <1>8, <1>9, <1>10 DEF Core

(* Core when a step is started without a scaling, and when it is left.     *)
LEMMA CoreStarted ==
  ASSUME NEW d, NEW p, NEW n \in Steps, NEW g, Core(d, p, n, "start", g)
  PROVE  Core(d, p, n, "run", g)
<1>1. n \in Nat /\ Base(n, "start") = n - 1 /\ Base(n, "run") = n /\ \A s \in Steps : s \in Nat
  BY StepsAssumption DEF Base, Steps
<1>2. \A s \in Steps : (s > n => s > n - 1) /\ (s >= n => s >= n - 1)
  BY <1>1
<1> QED
  BY <1>1, <1>2 DEF Core, Ahead, Sourced, Copied

(* So it does when the simulator goes on to the next step.                *)
LEMMA CoreNext ==
  ASSUME NEW d, NEW p, NEW n \in Steps, NEW g, Core(d, p, n, "run", g)
  PROVE  Core(d, p, n + 1, "start", g)
<1>1. Base(n + 1, "start") = n /\ Base(n, "run") = n
  BY StepsAssumption DEF Base, Steps
<1> QED
  BY <1>1 DEF Core, Ahead, Sourced, Copied

(* The timeline as the scaling finds it. *)
LEMMA ScalableFacts ==
  ASSUME now \in Steps, NEW ph, NEW g, Core(deck, Present, now, ph, g)
  PROVE  /\ Scalable
         /\ \A s \in Steps : /\ NameAt(Present, s) = Name(s) /\ ConnsAt(Present, s) = Conns(s)
                             /\ Present.snapshots[s] = snapshots[s] /\ Present.objects[s] = objects[s]
<1>1. Present.objects = objects /\ Present.snapshots = snapshots
  BY DEF Present
<1>2. \A s : NameAt(Present, s) = Name(s) /\ ConnsAt(Present, s) = Conns(s)
  BY <1>1 DEF NameAt, ConnsAt, Name, Conns
<1>3. \A s \in now + 1 .. LastStep : s \in Steps /\ s # 0
  BY StepsAssumption DEF Steps
<1>4. IsTimeline(Present) /\ Sharing(Present)
  BY DEF Core
<1>5. \A s \in now + 1 .. LastStep : Name(s) \in {Name(s - 1), s}
  BY <1>2, <1>3, <1>4 DEF Sharing
<1> QED
  BY <1>1, <1>2, <1>4, <1>5 DEF Scalable, IsTimeline

(* Core after the scaling. *)
LEMMA CoreScaled ==
  ASSUME deck \in Decks, now \in Steps, snapshots[now].welpi, Core(deck, Present, now, "start", given),
         NEW f \in Int, NEW new, ScaleDone(f, new), NEW q, q = [objects |-> new, snapshots |-> snapshots],
         NEW e, e = [given EXCEPT ![now] = found(f, @)]
  PROVE  Core(deck, q, now, "run", e)
<1>1. /\ Scalable
      /\ \A s \in Steps : /\ NameAt(Present, s) = Name(s) /\ ConnsAt(Present, s) = Conns(s)
                          /\ Present.snapshots[s] = snapshots[s] /\ Present.objects[s] = objects[s]
  BY ScalableFacts
<1>2. Core(deck, Present, now, "run", given)
  BY CoreStarted
<1> DEFINE p == Present
<1>3. p.objects = objects /\ p.snapshots = snapshots /\ q.objects = new /\ q.snapshots = snapshots
  BY DEF Present
<1>4. now \in Nat /\ Base(now, "run") = now /\ \A s \in Steps : s \in Nat
  BY StepsAssumption DEF Base, Steps
<1>5. IsTimeline(p) /\ Sharing(p) /\ IsHistory(given)
  BY <1>2 DEF Core
<1> HIDE DEF p
<1>6. \A s : NameAt(q, s) = NameAt(p, s)
  BY <1>3 DEF NameAt
<1>7. \A t \in Steps : q.objects[t] \in Lists /\ Rescaled(p.objects[t], q.objects[t])
  BY <1>3 DEF ScaleDone
<1>8. IsTimeline(q)
  <2>1. q.objects = [t \in Steps |-> q.objects[t]]
    BY <1>3 DEF ScaleDone
  <2>2. q = [objects |-> q.objects, snapshots |-> q.snapshots]
    OBVIOUS
  <2>3. /\ q.snapshots = [s \in Steps |-> q.snapshots[s]]
        /\ \A s \in Steps : q.snapshots[s] \in Snapshot /\ NameAt(q, s) \in Steps /\ NameAt(q, s) <= s
    BY <1>3, <1>5, <1>6 DEF IsTimeline
  <2> QED
    BY <1>7, <2>1, <2>2, <2>3 DEF IsTimeline
<1>9. ASSUME NEW s \in Steps
      PROVE  /\ SameTasks(ConnsAt(p, s), ConnsAt(q, s))
             /\ Subject(ConnsAt(q, s)) <=> Subject(ConnsAt(p, s))
             /\ allSubject(ConnsAt(q, s)) <=> allSubject(ConnsAt(p, s))
  <2>1. PICK t : t = NameAt(p, s)
    OBVIOUS
  <2>2. t \in Steps /\ ConnsAt(p, s) = p.objects[t] /\ ConnsAt(q, s) = q.objects[t]
    BY <1>5, <1>6, <2>1 DEF IsTimeline, ConnsAt
  <2>3. p.objects[t] \in Lists /\ q.objects[t] \in Lists /\ Rescaled(p.objects[t], q.objects[t])
    BY <1>5, <1>7, <2>2 DEF IsTimeline
  <2> QED
    BY <2>2, <2>3, RescaledOn
<1>10. /\ FoundAt(f, given[now], e[now]) /\ e = [s \in Steps |-> e[s]] /\ given[now] \in Seq(EffectKeyword)
       /\ \A s \in Steps : s # now => e[s] = given[s]
  <2>1. given[now] \in Seq(EffectKeyword) /\ given = [s \in Steps |-> given[s]]
    BY <1>5 DEF IsHistory
  <2>2. /\ e[now] = found(f, given[now]) /\ e = [s \in Steps |-> e[s]]
        /\ \A s \in Steps : s # now => e[s] = given[s]
    BY <2>1
  <2> QED
    BY <2>1, <2>2, FoundFacts
<1>11. IsHistory(e)
  <2>1. e[now] \in Seq(EffectKeyword)
    BY <1>10 DEF FoundAt
  <2> QED
    BY <1>5, <1>10, <2>1 DEF IsHistory
<1>12. ASSUME NEW s \in Steps, NEW name \in {"COMPLUMP", "WELPIRuntime"}, name \in NamesIn(given[s])
       PROVE  name \in NamesIn(e[s])
  <2>1. CASE s = now
    BY <1>10, <1>12, <2>1, FoundNames
  <2>2. CASE s # now
    BY <1>10, <1>12, <2>2
  <2> QED
    BY <2>1, <2>2
<1>13. Sharing(q)
  BY <1>5, <1>6 DEF Sharing
<1>14. Ahead(deck, now, "run", e)
  BY <1>2, <1>4, <1>10 DEF Core, Ahead
<1>15. Standing(q, e)
  <2> SUFFICES ASSUME NEW s \in Steps, "COMPLUMP" \notin NamesIn(e[s])
               PROVE  Stand(ConnsAt(q, s), q.snapshots[s].open_requests)
    BY DEF Standing
  <2>1. Stand(ConnsAt(p, s), p.snapshots[s].open_requests)
    BY <1>2, <1>12 DEF Core, Standing, p
  <2> QED
    BY <1>3, <1>9, <2>1, TasksStand
<1>16. Sourced(q, now, "run", e)
  <2> SUFFICES ASSUME NEW s \in Steps, s >= now, Subject(ConnsAt(q, s))
               PROVE  \E t \in 0 .. s : q.snapshots[t].welpi \/ "WELPIRuntime" \in NamesIn(e[t])
    BY <1>4 DEF Sourced
  <2>1. now \in 0 .. s
    BY <1>4
  <2> QED
    BY <1>3, <2>1
<1>17. Copied(q, now, "run")
  <2>1. Copied(p, now, "run")
    BY <1>2 DEF Core, p
  <2> QED
    BY <1>3, <1>6, <1>9, <2>1 DEF Copied
<1> QED
  BY <1>8, <1>11, <1>13, <1>14, <1>15, <1>16, <1>17 DEF Core

-----------------------------------------------------------------------------
(***************************************************************************)
(* The inductive invariant and what follows from it.                       *)
(***************************************************************************)
Typing ==
  /\ ordering \in Orderings
  /\ deck \in Decks
  /\ now \in Steps
  /\ phase \in {"input", "start", "run"}
  /\ calls \in 0 .. MaxCalls
  /\ phase = "input" => now = 0 /\ given[0] = Effects(deck[0])

IInv == Typing /\ Core(deck, Present, now, phase, given)

(* The invariant holds at first,                                          *)
LEMMA InitIInv == Init => IInv
<1> SUFFICES ASSUME Init PROVE IInv
  OBVIOUS
<1>1. 0 \in Steps /\ 0 \in 0 .. MaxCalls
  BY StepsAssumption, BoundAssumption DEF Steps
<1>2. Typing
  BY <1>1 DEF Init, Typing
<1>3. Present = [objects |-> [s \in Steps |-> << >>], snapshots |-> [s \in Steps |-> NoSnapshot]]
  BY DEF Init, Present
<1>4. Core(deck, Present, 0, "input", given)
  BY <1>3, CoreInitially DEF Init
<1> QED
  BY <1>2, <1>4 DEF Init, IInv

(* The scaling, as a step.                                                 *)
LEMMA ScalingStep ==
  ASSUME IInv, phase = "start", NEW f \in Factors, applyWellProdIndexScaling(f)
  PROVE  ScaleDone(f, objects') /\ Scalable
<1>1. Scalable
  BY ScalableFacts DEF IInv, Typing
<1> QED
  BY <1>1, FactorsAssumption, ScaleDoneFacts DEF applyWellProdIndexScaling

(* Blocks of the actions are blocks. *)
LEMMA ActionFacts ==
  ASSUME NEW block \in ActionBlocks
  PROVE  block \in Seq(BlockKeyword)
BY ActionsAssumption DEF BlockKeyword

(* and every step keeps it.                                               *)
LEMMA NextIInv == IInv /\ [Next]_vars => IInv'
<1> SUFFICES ASSUME IInv, [Next]_vars PROVE IInv'
  OBVIOUS
<1>0. Typing /\ Core(deck, Present, now, phase, given) /\ IsHistory(given) /\ deck \in Decks /\ now \in Steps
  BY DEF IInv, Typing, Core
<1>1. Present' = [objects |-> objects', snapshots |-> snapshots']
  BY DEF Present
<1>2. CASE Construct
  <2>1. PICK p : p = Present
    OBVIOUS
  <2>2. PICK q : q = iterateScheduleSection(handleBlock(p, 0, deck[0]), 1)
    OBVIOUS
  <2>3. objects' = q.objects /\ snapshots' = q.snapshots
    BY <1>2, <2>1, <2>2 DEF Construct, Becomes, Present
  <2>4. Core(deck, q, 0, "start", given)
    BY <1>0, <1>2, <2>1, <2>2, CoreConstructed DEF Construct, Typing
  <2>5. q = Present'
    BY <1>1, <2>3, <2>4 DEF Core, IsTimeline
  <2>6. deck' = deck /\ now' = 0 /\ phase' = "start" /\ given' = given
    BY <1>0, <1>2 DEF Construct, Typing
  <2>7. Typing'
    BY <1>0, <1>2, <2>6 DEF Construct, Typing
  <2> QED
    BY <2>4, <2>5, <2>6, <2>7 DEF IInv
<1>3. ASSUME NEW f \in Factors, applyWellProdIndexScaling(f) PROVE IInv'
  <2>1. ScaleDone(f, objects') /\ f \in Int
    BY <1>3, ScalingStep, FactorsAssumption DEF applyWellProdIndexScaling
  <2>2. /\ phase = "start" /\ snapshots[now].welpi /\ given' = [given EXCEPT ![now] = found(f, @)]
        /\ snapshots' = snapshots /\ deck' = deck /\ now' = now /\ phase' = "run" /\ ordering' = ordering /\ calls' = calls
    BY <1>3 DEF applyWellProdIndexScaling
  <2>3. Present' = [objects |-> objects', snapshots |-> snapshots]
    BY <1>1, <2>2
  <2>4. PICK new, q, e : new = objects' /\ q = Present' /\ e = given'
    OBVIOUS
  <2>5. ScaleDone(f, new) /\ q = [objects |-> new, snapshots |-> snapshots] /\ e = [given EXCEPT ![now] = found(f, @)]
    BY ONLY <2>1, <2>2, <2>3, <2>4
  <2>6. Core(deck, q, now, "run", e)
    BY <1>0, <2>1, <2>2, <2>5, CoreScaled
  <2>7. Typing'
    BY <1>0, <2>2 DEF Typing
  <2> QED
    BY <2>2, <2>4, <2>6, <2>7 DEF IInv
<1>4. CASE StartStep
  <2>1. /\ phase = "start" /\ phase' = "run" /\ ordering' = ordering /\ deck' = deck /\ objects' = objects
        /\ snapshots' = snapshots /\ now' = now /\ given' = given /\ calls' = calls
    BY <1>4 DEF StartStep
  <2>2. Present' = Present
    BY <1>1, <2>1 DEF Present
  <2>3. Core(deck, Present, now, "run", given)
    BY <1>0, <2>1, CoreStarted
  <2>4. Typing'
    BY <1>0, <2>1 DEF Typing
  <2> QED
    BY <2>1, <2>2, <2>3, <2>4 DEF IInv
<1>5. CASE NextStep
  <2>1. /\ phase = "run" /\ phase' = "start" /\ ordering' = ordering /\ deck' = deck /\ objects' = objects
        /\ snapshots' = snapshots /\ now' = now + 1 /\ now < LastStep /\ given' = given /\ calls' = calls
    BY <1>5 DEF NextStep
  <2>2. Present' = Present
    BY <1>1, <2>1 DEF Present
  <2>3. Core(deck, Present, now + 1, "start", given)
    BY <1>0, <2>1, CoreNext
  <2>4. now' \in Steps
    BY <1>0, <2>1, StepsAssumption DEF Steps
  <2>5. Typing'
    BY <1>0, <2>1, <2>4 DEF Typing
  <2> QED
    BY <2>1, <2>2, <2>3, <2>5 DEF IInv
<1>6. ASSUME NEW block \in ActionBlocks, applyAction(block) PROVE IInv'
  <2>1. /\ phase = "run" /\ phase' = "run" /\ ordering' = ordering /\ deck' = deck /\ now' = now
        /\ calls < MaxCalls /\ calls' = calls + 1
        /\ given' = [given EXCEPT ![now] = @ \o Effects(block)]
    BY <1>6 DEF applyAction
  <2>2. PICK p : p = Present
    OBVIOUS
  <2>3. PICK q : q = iterateScheduleSection(handleBlock(p, now, block), now + 1)
    OBVIOUS
  <2>4. objects' = q.objects /\ snapshots' = q.snapshots
    BY <1>6, <2>2, <2>3 DEF applyAction, Becomes, Present
  <2>5. PICK e : e = given'
    OBVIOUS
  <2>6. block \in Seq(BlockKeyword)
    BY ActionFacts
  <2>7. Effects(block) \in Seq(EffectKeyword)
    <3>1. PICK r : r = handleBlock(p, now, block)
      OBVIOUS
    <3>2. IsTimeline(p)
      BY <1>0, <2>2 DEF Core
    <3> QED
      BY <1>0, <2>6, <3>1, <3>2, BlockFacts
  <2>8. /\ e = [s \in Steps |-> e[s]] /\ e[now] = given[now] \o Effects(block)
        /\ \A s \in Steps : s # now => e[s] = given[s]
    BY <1>0, <2>1, <2>5 DEF IsHistory
  <2>9. given[now] \in Seq(EffectKeyword)
    BY <1>0 DEF IsHistory
  <2>10. /\ e[now] \in Seq(EffectKeyword)
         /\ NamesIn(e[now]) = NamesIn(given[now]) \cup NamesIn(Effects(block))
    BY <2>7, <2>8, <2>9, JoinedFacts
  <2>11. IsHistory(e)
    BY <1>0, <2>8, <2>10 DEF IsHistory
  <2>12. \A name : name \in NamesIn(given[now]) \/ name \in NamesIn(Effects(block)) => name \in NamesIn(e[now])
    BY <2>10
  <2>13. Core(deck, p, now, "run", given)
    BY <1>0, <2>1, <2>2
  <2>14. Core(deck, q, now, "run", e)
    BY <1>0, <2>3, <2>6, <2>8, <2>11, <2>12, <2>13, CoreBlock
  <2>15. q = Present'
    BY <1>1, <2>4, <2>14 DEF Core, IsTimeline
  <2>16. calls' \in 0 .. MaxCalls
    BY <1>0, <2>1, BoundAssumption DEF Typing
  <2>17. Typing'
    BY <1>0, <2>1, <2>16 DEF Typing
  <2> QED
    BY <2>1, <2>5, <2>14, <2>15, <2>17 DEF IInv
<1>7. ASSUME NEW new \in Fractures, modifyCompletions(new) PROVE IInv'
  <2>1. /\ phase = "run" /\ phase' = "run" /\ ordering' = ordering /\ deck' = deck /\ now' = now
        /\ calls < MaxCalls /\ calls' = calls + 1
        /\ given' = [given EXCEPT ![now] = Append(@, [name |-> "Fracture", connections |-> new])]
    BY <1>7 DEF modifyCompletions
  <2>2. PICK p : p = Present
    OBVIOUS
  <2>3. PICK r : r = WithFracture(p, now, new)
    OBVIOUS
  <2>4. PICK q : q = iterateScheduleSection(r, now + 1)
    OBVIOUS
  <2>5. objects' = q.objects /\ snapshots' = q.snapshots
    <3>1. p.objects = objects /\ p.snapshots = snapshots /\ NameAt(p, now) = snapshots[now].well.connections
      BY <2>2 DEF Present, NameAt
    <3>2. r = [objects |-> [objects EXCEPT ![snapshots[now].well.connections] = FoldLeft(withFracture, @, new)],
               snapshots |-> snapshots]
      BY <2>3, <3>1 DEF WithFracture
    <3> QED
      BY <1>7, <2>4, <3>2 DEF modifyCompletions, Becomes
  <2>6. PICK e : e = given'
    OBVIOUS
  <2> DEFINE kw == [name |-> "Fracture", connections |-> new]
  <2>7. kw \in EffectKeyword /\ new \in Seq(NewFracture)
    BY FracturesAssumption DEF EffectKeyword, NewFracture
  <2> HIDE DEF kw
  <2>8. /\ e = [s \in Steps |-> e[s]] /\ e[now] = given[now] \o <<kw>>
        /\ \A s \in Steps : s # now => e[s] = given[s]
    <3>1. given[now] \in Seq(EffectKeyword)
      BY <1>0 DEF IsHistory
    <3>2. Append(given[now], kw) = given[now] \o <<kw>>
      BY <2>7, <3>1
    <3> QED
      BY <1>0, <2>1, <2>6, <3>2 DEF IsHistory, kw
  <2>9. given[now] \in Seq(EffectKeyword) /\ <<kw>> \in Seq(EffectKeyword)
    BY <1>0, <2>7 DEF IsHistory
  <2>10. /\ e[now] \in Seq(EffectKeyword)
         /\ NamesIn(e[now]) = NamesIn(given[now]) \cup NamesIn(<<kw>>)
    BY <2>8, <2>9, JoinedFacts
  <2>11. IsHistory(e)
    BY <1>0, <2>8, <2>10 DEF IsHistory
  <2>12. \A name : name \in NamesIn(given[now]) => name \in NamesIn(e[now])
    BY <2>10
  <2>13. Core(deck, p, now, "run", given)
    BY <1>0, <2>1, <2>2
  <2>14. Core(deck, q, now, "run", e)
    BY <1>0, <2>3, <2>4, <2>7, <2>8, <2>11, <2>12, <2>13, CoreFracture
  <2>15. q = Present'
    BY <1>1, <2>5, <2>14 DEF Core, IsTimeline
  <2>16. calls' \in 0 .. MaxCalls
    BY <1>0, <2>1, BoundAssumption DEF Typing
  <2>17. Typing'
    BY <1>0, <2>1, <2>16 DEF Typing
  <2> QED
    BY <2>1, <2>6, <2>14, <2>15, <2>17 DEF IInv
<1>8. CASE UNCHANGED vars
  BY <1>8 DEF IInv, Typing, Present, vars
<1> QED
  BY <1>2, <1>3, <1>4, <1>5, <1>6, <1>7, <1>8 DEF Next

(* So it always holds.                                                    *)
LEMMA Inductive == Spec => []IInv
BY InitIInv, NextIInv, PTL DEF Spec

(* Typing, whatever the decks, the actions and the fractures. *)
THEOREM TypeCorrect == Spec => []TypeOK
<1>1. IInv => TypeOK
  <2> SUFFICES ASSUME IInv PROVE TypeOK
    OBVIOUS
  <2>1. Typing /\ IsTimeline(Present)
    BY DEF IInv, Core
  <2>2. DOMAIN deck = Steps
    BY <2>1, DecksAssumption DEF Typing
  <2>3. Present.objects = objects /\ Present.snapshots = snapshots
    BY DEF Present
  <2>4. objects = [s \in Steps |-> objects[s]] /\ \A s \in Steps : objects[s] \in Lists
    BY <2>1, <2>3 DEF IsTimeline
  <2>5. /\ snapshots = [s \in Steps |-> snapshots[s]]
        /\ \A s \in Steps : snapshots[s] \in Snapshot /\ snapshots[s].well.connections <= s
    BY <2>1, <2>3 DEF IsTimeline, NameAt
  <2> QED
    BY <2>1, <2>2, <2>4, <2>5 DEF TypeOK, Typing, Lists
<1> QED
  BY <1>1, Inductive, PTL

(* A request to open a completion stands for one that is open. *)
THEOREM RequestsStand == Spec => []OpenRequestsStand
<1>1. IInv => OpenRequestsStand
  <2> SUFFICES ASSUME IInv PROVE OpenRequestsStand
    OBVIOUS
  <2>1. Core(deck, Present, now, phase, given) /\ now \in Steps
    BY DEF IInv, Typing
  <2>2. IsTimeline(Present) /\ Standing(Present, given)
    BY <2>1 DEF Core
  <2> SUFFICES ASSUME NEW s \in Steps, "COMPLUMP" \notin NamesIn(given[s]), NEW n \in snapshots[s].open_requests
               PROVE  \E c \in Range(Conns(s)) : c.complnum = n /\ c.state = "OPEN"
    BY DEF OpenRequestsStand
  <2>3. ConnsAt(Present, s) = Conns(s) /\ Present.snapshots[s] = snapshots[s]
    BY <2>1, ScalableFacts
  <2>4. Stand(Conns(s), snapshots[s].open_requests)
    BY <2>2, <2>3 DEF Standing
  <2>5. PICK i \in DOMAIN Conns(s) : Conns(s)[i].complnum = n /\ Conns(s)[i].state = "OPEN"
    BY <2>4 DEF Stand
  <2> QED
    BY <2>5 DEF Range
<1> QED
  BY <1>1, Inductive, PTL

(* Nothing to scale, nothing changed. *)
LEMMA NothingScaled ==
  ASSUME NEW c \in Lists, NEW d \in Lists, Rescaled(c, d), c = << >>
  PROVE  d = c
<1>1. DOMAIN d = {} /\ DOMAIN d = 1 .. Len(d) /\ Len(d) \in Nat
  BY ListFacts DEF Rescaled
<1>2. Len(d) = 0
  BY <1>1
<1> QED
  BY <1>2 DEF Lists

(* The names go up along all the steps. *)
LEMMA NamesOrdered ==
  ASSUME NEW p, IsTimeline(p), Sharing(p), NEW s \in Steps, NEW t \in Steps, s <= t
  PROVE  NameAt(p, s) <= NameAt(p, t)
<1>1. /\ s \in Nat /\ t \in Nat /\ t - s \in Nat /\ s + 0 = s /\ s + (t - s) = t /\ t <= LastStep /\ LastStep \in Nat
      /\ \A k \in 0 .. t - s : s + k \in Steps
      /\ \A k \in 1 .. t - s : s + k \in Steps /\ s + k # 0 /\ (s + k) - 1 = s + (k - 1) /\ s + (k - 1) \in Steps
                              /\ s + k \in Nat /\ s + (k - 1) \in Nat /\ s + (k - 1) <= s + k /\ k - 1 \in 0 .. t - s
                              /\ k \in 0 .. t - s
      /\ 0 \in 0 .. t - s
  BY StepsAssumption DEF Steps
<1>2. \A u \in Steps : NameAt(p, u) \in Nat /\ NameAt(p, u) <= u
  BY DEF IsTimeline, Steps
<1> DEFINE T == {k \in 0 .. t - s : NameAt(p, s) <= NameAt(p, s + k)}
<1>3. 0 \in T
  BY <1>1, <1>2
<1>4. ASSUME NEW k \in 1 .. t - s, k - 1 \in T PROVE k \in T
  <2>1. NameAt(p, s + k) \in {NameAt(p, s + (k - 1)), s + k}
    BY <1>1 DEF Sharing
  <2>2. NameAt(p, s) <= NameAt(p, s + (k - 1)) /\ NameAt(p, s + (k - 1)) <= s + (k - 1)
        /\ NameAt(p, s) \in Nat /\ NameAt(p, s + (k - 1)) \in Nat /\ NameAt(p, s + k) \in Nat
    BY <1>1, <1>2, <1>4
  <2>3. s + k \in Nat /\ s + (k - 1) \in Nat /\ s + (k - 1) <= s + k
    BY <1>1
  <2>4. NameAt(p, s) <= NameAt(p, s + k)
    BY ONLY <2>1, <2>2, <2>3
  <2> QED
    BY <1>1, <2>4
<1>5. t - s \in T
  <2> HIDE DEF T
  <2> QED
    BY <1>1, <1>3, <1>4, UpTo
<1> QED
  BY <1>1, <1>5

(* The first scaling leaves what the steps before have alone.              *)
THEOREM PastKept == Spec => ScalingKeepsPast
<1>1. ASSUME IInv, [Next]_vars, phase = "start", phase' = "run", ~ScaledBefore(now),
             NEW s \in 0 .. now - 1
      PROVE  objects'[snapshots[s].well.connections] = objects[snapshots[s].well.connections]
  <2>0. Typing /\ Core(deck, Present, now, phase, given) /\ IsTimeline(Present) /\ now \in Steps
    BY <1>1 DEF IInv, Typing, Core
  <2>1. /\ Scalable
        /\ \A t \in Steps : /\ NameAt(Present, t) = Name(t) /\ ConnsAt(Present, t) = Conns(t)
                            /\ Present.snapshots[t] = snapshots[t] /\ Present.objects[t] = objects[t]
    BY <2>0, ScalableFacts
  <2>2. /\ now \in Nat /\ now <= LastStep /\ LastStep \in Nat /\ s \in Steps /\ s \in Nat /\ s <= now - 1
        /\ Base(now, "start") = now - 1
        /\ \A t \in Steps : t \in Nat
    BY <2>0, StepsAssumption DEF Steps, Base
  <2>3. StartStep \/ \E f \in Factors : applyWellProdIndexScaling(f)
    BY <1>1 DEF Next, Construct, NextStep, applyAction, modifyCompletions, vars
  <2>4. CASE StartStep
    BY <2>4 DEF StartStep
  <2>5. ASSUME NEW f \in Factors, applyWellProdIndexScaling(f)
        PROVE  objects'[snapshots[s].well.connections] = objects[snapshots[s].well.connections]
    <3>1. PICK new : new = objects'
      OBVIOUS
    <3>2. ScaleDone(f, new) /\ snapshots[now].welpi
      BY <1>1, <2>5, <3>1, ScalingStep DEF applyWellProdIndexScaling
    <3>3. PICK c : c = Name(s)
      OBVIOUS
    <3>4. c \in Steps /\ c <= s /\ c \in Nat /\ objects[c] \in Lists /\ new[c] \in Lists /\ Rescaled(objects[c], new[c])
      BY <2>1, <2>2, <3>2, <3>3 DEF Scalable, ScaleDone
    <3>5. CASE Name(now) = now
      <4>1. \A t \in now .. LastStep : Name(t) # c
        <5> SUFFICES ASSUME NEW t \in now .. LastStep PROVE Name(t) # c
          OBVIOUS
        <5>1. now <= t /\ now \in now .. LastStep
          BY <2>2
        <5>2. Name(now) <= Name(t)
          BY <2>1, <5>1, NamesGoUp
        <5>3. t \in Steps
          BY <2>2 DEF Steps
        <5>4. Name(t) \in Nat
          BY <2>1, <2>2, <5>3 DEF Scalable
        <5> QED
          BY <2>2, <3>4, <3>5, <5>2, <5>4
      <4>2. new[c] = objects[c]
        BY <3>2, <3>4, <4>1 DEF ScaleDone
      <4> QED
        BY <3>1, <3>3, <4>2 DEF Name
    <3>6. CASE Name(now) # now
      <4>1. now # 0
        BY <2>2
      <4>2. now - 1 \in Steps /\ now - 1 >= Base(now, "start") /\ now > Base(now, "start")
        BY <2>2 DEF Steps
      <4>3. allSubject(Conns(now))
        BY <1>1, <2>0, <2>1, <3>2, <3>6, <4>2 DEF Core, Copied
      <4>4. Name(now) = Name(now - 1)
        BY <2>0, <2>1, <3>6, <4>1, <4>2 DEF Core, Sharing
      <4>5. ~Subject(Conns(now - 1))
        <5>1. ASSUME Subject(Conns(now - 1)) PROVE FALSE
          <6>1. PICK t \in 0 .. now - 1 : snapshots[t].welpi \/ "WELPIRuntime" \in NamesIn(given[t])
            <7>1. PICK t \in 0 .. now - 1 : Present.snapshots[t].welpi \/ "WELPIRuntime" \in NamesIn(given[t])
              BY <1>1, <2>0, <2>1, <4>2, <5>1 DEF Core, Sourced
            <7>2. Present.snapshots = snapshots
              BY DEF Present
            <7> QED
              BY <7>1, <7>2
          <6> QED
            BY <1>1, <6>1 DEF ScaledBefore
        <5> QED
          BY <5>1
      <4>6. Conns(now) = Conns(now - 1)
        BY <4>4 DEF Conns, Name
      <4>7. Conns(now) = << >>
        <5>1. Conns(now) \in Lists
          BY <2>0, <2>1 DEF IsTimeline, ConnsAt
        <5>2. DOMAIN Conns(now) = {}
          BY <4>3, <4>5, <4>6 DEF Subject, allSubject
        <5> QED
          BY <5>1, <5>2, ListFacts
      <4>8. CASE Name(now) = c
        <5>1. objects[c] = << >>
          BY <4>7, <4>8 DEF Conns, Name
        <5>2. new[c] = objects[c]
          BY <3>4, <5>1, NothingScaled
        <5> QED
          BY <3>1, <3>3, <5>2 DEF Name
      <4>9. CASE Name(now) # c
        <5>1. Name(s) <= Name(now)
          <6>1. Sharing(Present) /\ s <= now
            BY <2>0, <2>2 DEF Core
          <6>2. NameAt(Present, s) <= NameAt(Present, now)
            BY <2>0, <2>2, <6>1, NamesOrdered
          <6> QED
            BY <2>0, <2>1, <2>2, <6>2
        <5>2. \A t \in now .. LastStep : Name(now) <= Name(t) /\ Name(t) \in Nat /\ Name(now) \in Nat
          <6>1. now \in now .. LastStep /\ \A t \in now .. LastStep : t \in Steps /\ now <= t
            BY <2>2 DEF Steps
          <6>2. \A t \in now .. LastStep : Name(now) <= Name(t)
            BY <2>1, <6>1, NamesGoUp
          <6>3. \A t \in Steps : Name(t) \in Nat
            BY <2>1, <2>2 DEF Scalable
          <6> QED
            BY <2>0, <6>1, <6>2, <6>3
        <5>3. \A t \in now .. LastStep : Name(t) # c
          BY <3>3, <3>4, <4>9, <5>1, <5>2
        <5>4. new[c] = objects[c]
          BY <3>2, <3>4, <5>3 DEF ScaleDone
        <5> QED
          BY <3>1, <3>3, <5>4 DEF Name
      <4> QED
        BY <4>8, <4>9
    <3> QED
      BY <3>5, <3>6
  <2> QED
    BY <2>3, <2>4, <2>5
<1>2. IInv /\ [Next]_vars =>
        [phase = "start" /\ phase' = "run" /\ ~ScaledBefore(now) =>
           \A s \in 0 .. now - 1 :
             LET c == snapshots[s].well.connections IN objects'[c] = objects[c]]_vars
  BY <1>1
<1> QED
  BY <1>2, Inductive, PTL DEF Spec, ScalingKeepsPast

-----------------------------------------------------------------------------
(***************************************************************************)
(* What is said of the connections, as views.                              *)
(***************************************************************************)
EffectOp(scaled, c, kw) == Effect(scaled, c, kw) \o << >>
Doing == INSTANCE Recursion WITH Op <- EffectOp, Inv <- NoInv

SaidOp(p, c, s) == Doing!Fold(p.scaled, c, p.history[s])
Saying == INSTANCE Recursion WITH Op <- SaidOp, Inv <- NoInv

(* A block does to the list what it does to the view. *)
LEMMA DoingFacts ==
  ASSUME NEW scaled \in BOOLEAN, NEW c \in Lists, NEW e \in Seq(EffectKeyword)
  PROVE  /\ Doing!Fold(scaled, c, e) \in Lists
         /\ View(Doing!Fold(scaled, c, e)) = Applying!Fold(Mode(scaled), View(c), e)
<1>1. PICK F : /\ F[0] = c
               /\ \A k \in 1 .. Len(e) : F[k] = EffectOp(scaled, F[k - 1], e[k])
               /\ Doing!Fold(scaled, c, e) = F[Len(e)]
  BY Doing!FoldRuns
<1>2. PICK G : /\ G[0] = View(c)
               /\ \A k \in 1 .. Len(e) : G[k] = AppliedOp(Mode(scaled), G[k - 1], e[k])
               /\ Applying!Fold(Mode(scaled), View(c), e) = G[Len(e)]
  BY Applying!FoldRuns
<1> DEFINE T == {k \in 0 .. Len(e) : F[k] \in Lists /\ View(F[k]) = G[k]}
<1>3. Len(e) \in Nat /\ 0 \in T
  BY <1>1, <1>2
<1>4. ASSUME NEW k \in 1 .. Len(e), k - 1 \in T PROVE k \in T
  <2>1. F[k - 1] \in Lists /\ View(F[k - 1]) = G[k - 1] /\ e[k] \in EffectKeyword
    BY <1>4
  <2>2. F[k] = Effect(scaled, F[k - 1], e[k]) \o << >> /\ G[k] = Applied(Mode(scaled), G[k - 1], e[k])
    BY <1>1, <1>2 DEF EffectOp, AppliedOp
  <2>3. Effect(scaled, F[k - 1], e[k]) \in Lists
        /\ View(Effect(scaled, F[k - 1], e[k])) = Applied(Mode(scaled), G[k - 1], e[k])
    BY <2>1, EffectFacts
  <2>4. ASSUME NEW d \in Lists PROVE d \o << >> = d
    BY DEF Lists
  <2> QED
    BY <2>2, <2>3, <2>4
<1>5. Len(e) \in T
  <2> HIDE DEF T
  <2> QED
    BY <1>3, <1>4, UpTo
<1> QED
  BY <1>1, <1>2, <1>5

(* The views of what is said, from none before the first step.             *)
Nothing == View(<< >>)

Told(g, scaled, s) == View(Said(g, scaled)[s])

(* W tells of the history, as the mode has it. *)
Telling(g, mode, W) ==
  /\ W = [s \in -1 .. LastStep |-> W[s]]
  /\ W[-1] = Nothing
  /\ \A s \in Steps : W[s] = Applying!Fold(mode, W[s - 1], g[s])

Tale(g, scaled) == [s \in -1 .. LastStep |-> Told(g, scaled, s)]

(* What is said, as lists and as a tale of views. *)
LEMMA SaidFacts ==
  ASSUME NEW g, IsHistory(g), NEW scaled \in BOOLEAN
  PROVE  Telling(g, Mode(scaled), Tale(g, scaled)) /\ \A s \in -1 .. LastStep : Said(g, scaled)[s] \in Lists
<1> DEFINE p == [history |-> g, scaled |-> scaled]
           f == Said(g, scaled)
<1>1. p.history = g /\ p.scaled = scaled
  OBVIOUS
<1>2. PICK F : F = [s \in -1 .. LastStep |-> IF s = -1 THEN << >> ELSE Doing!Fold(scaled, F[s - 1], g[s])]
  <2>1. LastStep \in Int /\ -1 \in Int
    BY StepsAssumption
  <2>2. PICK G : G = Saying!Chain(p, << >>, -1, LastStep)
    OBVIOUS
  <2>3. \A a, s : SaidOp(p, a, s) = Doing!Fold(scaled, a, g[s])
    BY <1>1 DEF SaidOp
  <2> HIDE DEF p
  <2>4. G = [s \in -1 .. LastStep |-> IF s = -1 THEN << >> ELSE SaidOp(p, G[s - 1], s)]
    BY ONLY <2>1, <2>2, Saying!ChainSteps
  <2>5. ASSUME NEW s \in -1 .. LastStep
        PROVE  G[s] = IF s = -1 THEN << >> ELSE Doing!Fold(scaled, G[s - 1], g[s])
    BY <2>3, <2>4
  <2>6. G = [s \in -1 .. LastStep |-> G[s]]
    BY <2>4
  <2>7. G = [s \in -1 .. LastStep |-> IF s = -1 THEN << >> ELSE Doing!Fold(scaled, G[s - 1], g[s])]
    BY ONLY <2>5, <2>6
  <2> QED
    BY ONLY <2>7
<1>3. f = [s \in -1 .. LastStep |-> IF s = -1 THEN << >> ELSE Doing!Fold(scaled, f[s - 1], g[s])]
  BY <1>2 DEF Said, Doing!Fold, EffectOp, FoldLeft, MapThenFoldSet, Doing!MapThenFoldSet, Max, Doing!Max
<1> HIDE DEF p, f
<1>4. LastStep \in Nat /\ -1 \in -1 .. LastStep
  BY StepsAssumption
<1>5. f[-1] = << >> /\ \A s \in Steps : s \in -1 .. LastStep /\ s - 1 \in -1 .. LastStep /\ f[s] = Doing!Fold(scaled, f[s - 1], g[s])
  <2>1. \A s \in Steps : s \in -1 .. LastStep /\ s - 1 \in -1 .. LastStep /\ s # -1
    BY <1>4 DEF Steps
  <2> QED
    BY <1>3, <1>4, <2>1
<1> DEFINE T == {k \in 0 .. LastStep + 1 : f[k - 1] \in Lists}
<1>6. 0 \in T
  <2>1. << >> \in Lists
    BY DEF Lists
  <2>2. 0 - 1 = -1
    OBVIOUS
  <2> QED
    BY <1>4, <1>5, <2>1, <2>2
<1>7. ASSUME NEW k \in 1 .. LastStep + 1, k - 1 \in T PROVE k \in T
  <2>1. k - 1 \in Steps /\ k \in 0 .. LastStep + 1
    BY <1>4 DEF Steps
  <2>2. PICK s \in Steps : s = k - 1
    BY <2>1
  <2>3. f[s - 1] \in Lists /\ g[s] \in Seq(EffectKeyword)
    BY <1>7, <2>2 DEF IsHistory
  <2>4. f[s] \in Lists
    BY <1>5, <2>3, DoingFacts
  <2> QED
    BY <2>1, <2>2, <2>4
<1>8. \A s \in -1 .. LastStep : f[s] \in Lists
  <2>1. LastStep + 1 \in Nat
    BY <1>4
  <2>2. \A k \in 0 .. LastStep + 1 : k \in T
    <3> HIDE DEF T
    <3> QED
      BY <1>6, <1>7, <2>1, UpTo
  <2>3. ASSUME NEW s \in -1 .. LastStep PROVE f[s] \in Lists
    <3>1. s + 1 \in 0 .. LastStep + 1 /\ (s + 1) - 1 = s
      BY <1>4
    <3>2. s + 1 \in T
      BY <2>2, <3>1
    <3> QED
      BY <3>1, <3>2
  <2> QED
    BY <2>3
<1>9. PICK W : W = Tale(g, scaled)
  OBVIOUS
<1>10. W = [s \in -1 .. LastStep |-> W[s]] /\ \A s \in -1 .. LastStep : W[s] = View(f[s])
  BY <1>9 DEF Tale, Told, f
<1>11. W[-1] = Nothing
  BY <1>4, <1>5, <1>10 DEF Nothing
<1>12. \A s \in Steps : W[s] = Applying!Fold(Mode(scaled), W[s - 1], g[s])
  <2> SUFFICES ASSUME NEW s \in Steps PROVE W[s] = Applying!Fold(Mode(scaled), W[s - 1], g[s])
    OBVIOUS
  <2>1. f[s - 1] \in Lists /\ g[s] \in Seq(EffectKeyword) /\ W[s] = View(f[s]) /\ W[s - 1] = View(f[s - 1])
        /\ f[s] = Doing!Fold(scaled, f[s - 1], g[s])
    BY <1>5, <1>8, <1>10 DEF IsHistory
  <2> QED
    BY <2>1, DoingFacts
<1> QED
  BY <1>8, <1>9, <1>10, <1>11, <1>12 DEF Telling, f

(* A sequence of keywords keeps a view a view. *)
LEMMA RunIsView ==
  ASSUME NEW mode, NEW a, IsView(a), NEW e \in Seq(EffectKeyword)
  PROVE  IsView(Applying!Fold(mode, a, e))
<1>1. PICK F : /\ F[0] = a
               /\ \A k \in 1 .. Len(e) : F[k] = AppliedOp(mode, F[k - 1], e[k])
               /\ Applying!Fold(mode, a, e) = F[Len(e)]
  BY Applying!FoldRuns
<1> DEFINE T == {k \in 0 .. Len(e) : IsView(F[k])}
<1>2. Len(e) \in Nat /\ 0 \in T
  BY <1>1
<1>3. ASSUME NEW k \in 1 .. Len(e), k - 1 \in T PROVE k \in T
  <2>1. IsView(F[k - 1]) /\ e[k] \in EffectKeyword /\ F[k] = Applied(mode, F[k - 1], e[k])
    BY <1>1, <1>3 DEF AppliedOp
  <2> QED
    BY <2>1, AppliedIsView
<1>4. Len(e) \in T
  <2> HIDE DEF T
  <2> QED
    BY <1>2, <1>3, UpTo
<1> QED
  BY <1>1, <1>4

(* A tale is made of views. *)
LEMMA TellingViews ==
  ASSUME NEW g, IsHistory(g), NEW mode, NEW W, Telling(g, mode, W), NEW s \in -1 .. LastStep
  PROVE  IsView(W[s])
<1>1. LastStep \in Nat /\ LastStep + 1 \in Nat
  BY StepsAssumption
<1> DEFINE T == {k \in 0 .. LastStep + 1 : IsView(W[k - 1])}
<1>2. 0 \in T
  <2>1. << >> \in Lists
    BY DEF Lists
  <2>2. IsView(W[-1])
    BY <2>1, ViewFacts DEF Telling, Nothing
  <2>3. 0 - 1 = -1
    OBVIOUS
  <2> QED
    BY <1>1, <2>2, <2>3
<1>3. ASSUME NEW k \in 1 .. LastStep + 1, k - 1 \in T PROVE k \in T
  <2>1. k - 1 \in Steps /\ k \in 0 .. LastStep + 1
    BY <1>1 DEF Steps
  <2>2. PICK t \in Steps : t = k - 1
    BY <2>1
  <2>3. IsView(W[t - 1]) /\ g[t] \in Seq(EffectKeyword) /\ W[t] = Applying!Fold(mode, W[t - 1], g[t])
    BY <1>3, <2>2 DEF IsHistory, Telling
  <2>4. IsView(W[t])
    BY <2>3, RunIsView
  <2> QED
    BY <2>1, <2>2, <2>4
<1>4. \A k \in 0 .. LastStep + 1 : k \in T
  <2> HIDE DEF T
  <2> QED
    BY <1>1, <1>2, <1>3, UpTo
<1>5. s + 1 \in 0 .. LastStep + 1 /\ (s + 1) - 1 = s
  BY <1>1
<1>6. s + 1 \in T
  BY <1>4, <1>5
<1> QED
  BY <1>5, <1>6

-----------------------------------------------------------------------------
(***************************************************************************)
(* Views that differ in their factors, and of these only in whether a      *)
(* connection was scaled.                                                  *)
(***************************************************************************)
Same(x, p) ==
  /\ IsView(x) /\ IsView(p)
  /\ x.n = p.n
  /\ DOMAIN x.v = DOMAIN p.v
  /\ \A cell \in DOMAIN x.v : x.v[cell].complnum = p.v[cell].complnum /\ x.v[cell].state = p.v[cell].state

(* Every factor is that of p or that of u. *)
Mixed(x, p, u) ==
  /\ Same(x, p) /\ Same(x, u)
  /\ \A cell \in DOMAIN x.v : x.v[cell].CF \in {p.v[cell].CF, u.v[cell].CF}

(* A record does the same to all of them. *)
LEMMA MixedLoad ==
  ASSUME NEW x, NEW p, NEW u, Mixed(x, p, u), NEW rec \in Record
  PROVE  Mixed(LoadOp(<< >>, x, rec), LoadOp(<< >>, p, rec), LoadOp(<< >>, u, rec))
<1> DEFINE x2 == LoadOp(<< >>, x, rec)
           p2 == LoadOp(<< >>, p, rec)
           u2 == LoadOp(<< >>, u, rec)
<1>1. IsView(x2) /\ IsView(p2) /\ IsView(u2)
  BY LoadOpIsView DEF Mixed, Same
<1>2. /\ x.n = p.n /\ x.n = u.n /\ DOMAIN x.v = DOMAIN p.v /\ DOMAIN x.v = DOMAIN u.v
      /\ x2.n = p2.n /\ x2.n = u2.n /\ DOMAIN x2.v = DOMAIN x.v \cup {rec.cell}
      /\ DOMAIN p2.v = DOMAIN x.v \cup {rec.cell} /\ DOMAIN u2.v = DOMAIN x.v \cup {rec.cell}
  BY DEF Mixed, Same, LoadOp
<1>3. ASSUME NEW cell \in DOMAIN x2.v
      PROVE  /\ x2.v[cell].complnum = p2.v[cell].complnum /\ x2.v[cell].state = p2.v[cell].state
             /\ x2.v[cell].complnum = u2.v[cell].complnum /\ x2.v[cell].state = u2.v[cell].state
             /\ x2.v[cell].CF \in {p2.v[cell].CF, u2.v[cell].CF}
  <2>1. ASSUME cell # rec.cell
        PROVE  cell \in DOMAIN x.v /\ x2.v[cell] = x.v[cell] /\ p2.v[cell] = p.v[cell] /\ u2.v[cell] = u.v[cell]
    BY <1>2, <1>3, <2>1 DEF LoadOp
  <2>2. ASSUME cell = rec.cell
        PROVE  \E no : /\ x2.v[cell] = NewConnection(cell, no, rec.state, rec.CF)
                       /\ p2.v[cell] = NewConnection(cell, no, rec.state, rec.CF)
                       /\ u2.v[cell] = NewConnection(cell, no, rec.state, rec.CF)
    <3>1. ASSUME cell \in DOMAIN x.v
          PROVE  /\ x2.v[cell] = NewConnection(cell, x.v[cell].complnum, rec.state, rec.CF)
                 /\ p2.v[cell] = NewConnection(cell, p.v[cell].complnum, rec.state, rec.CF)
                 /\ u2.v[cell] = NewConnection(cell, u.v[cell].complnum, rec.state, rec.CF)
                 /\ x.v[cell].complnum = p.v[cell].complnum /\ x.v[cell].complnum = u.v[cell].complnum
      BY <1>2, <1>3, <2>2, <3>1 DEF LoadOp, Mixed, Same
    <3>2. ASSUME cell \notin DOMAIN x.v
          PROVE  /\ x2.v[cell] = NewConnection(cell, x.n + 1, rec.state, rec.CF)
                 /\ p2.v[cell] = NewConnection(cell, x.n + 1, rec.state, rec.CF)
                 /\ u2.v[cell] = NewConnection(cell, x.n + 1, rec.state, rec.CF)
      BY <1>2, <1>3, <2>2, <3>2 DEF LoadOp
    <3> QED
      BY <3>1, <3>2
  <2> HIDE DEF x2, p2, u2
  <2>3. CASE cell # rec.cell
    BY <2>1, <2>3 DEF Mixed, Same
  <2>4. CASE cell = rec.cell
    BY <2>2, <2>4
  <2> QED
    BY <2>3, <2>4
<1> HIDE DEF x2, p2, u2
<1> QED
  BY <1>1, <1>2, <1>3 DEF Mixed, Same, x2, p2, u2

(* So does a fracture. *)
LEMMA MixedFracture ==
  ASSUME NEW x, NEW p, NEW u, Mixed(x, p, u), NEW new \in NewFracture
  PROVE  Mixed(FractureOp(<< >>, x, new), FractureOp(<< >>, p, new), FractureOp(<< >>, u, new))
<1> DEFINE x2 == FractureOp(<< >>, x, new)
           p2 == FractureOp(<< >>, p, new)
           u2 == FractureOp(<< >>, u, new)
<1>1. IsView(x2) /\ IsView(p2) /\ IsView(u2)
  BY FractureOpIsView DEF Mixed, Same
<1>2. /\ x.n = p.n /\ x.n = u.n /\ DOMAIN x.v = DOMAIN p.v /\ DOMAIN x.v = DOMAIN u.v
      /\ x2.n = p2.n /\ x2.n = u2.n /\ DOMAIN x2.v = DOMAIN x.v \cup {new.cell}
      /\ DOMAIN p2.v = DOMAIN x.v \cup {new.cell} /\ DOMAIN u2.v = DOMAIN x.v \cup {new.cell}
  BY DEF Mixed, Same, FractureOp
<1>3. ASSUME NEW cell \in DOMAIN x2.v
      PROVE  /\ x2.v[cell].complnum = p2.v[cell].complnum /\ x2.v[cell].state = p2.v[cell].state
             /\ x2.v[cell].complnum = u2.v[cell].complnum /\ x2.v[cell].state = u2.v[cell].state
             /\ x2.v[cell].CF \in {p2.v[cell].CF, u2.v[cell].CF}
  <2>1. ASSUME cell # new.cell
        PROVE  cell \in DOMAIN x.v /\ x2.v[cell] = x.v[cell] /\ p2.v[cell] = p.v[cell] /\ u2.v[cell] = u.v[cell]
    BY <1>2, <1>3, <2>1 DEF FractureOp
  <2>2. ASSUME cell = new.cell, cell \in DOMAIN x.v
        PROVE  /\ x2.v[cell] = [x.v[cell] EXCEPT !.CF = Max({@, new.CF})]
               /\ p2.v[cell] = [p.v[cell] EXCEPT !.CF = Max({@, new.CF})]
               /\ u2.v[cell] = [u.v[cell] EXCEPT !.CF = Max({@, new.CF})]
    BY <1>2, <1>3, <2>2 DEF FractureOp
  <2>3. ASSUME cell = new.cell, cell \notin DOMAIN x.v
        PROVE  x2.v[cell] = p2.v[cell] /\ x2.v[cell] = u2.v[cell]
    BY <1>2, <1>3, <2>3 DEF FractureOp
  <2> HIDE DEF x2, p2, u2
  <2>4. CASE cell # new.cell
    BY <2>1, <2>4 DEF Mixed, Same
  <2>5. CASE cell = new.cell /\ cell \in DOMAIN x.v
    <3> DEFINE More(y) == Max({y.CF, new.CF})
    <3>1. x.v[cell] \in Connection /\ p.v[cell] \in Connection /\ u.v[cell] \in Connection
      BY <1>2, <2>5 DEF Mixed, Same, IsView
    <3>2. /\ x2.v[cell].CF = More(x.v[cell]) /\ x2.v[cell].complnum = x.v[cell].complnum
          /\ x2.v[cell].state = x.v[cell].state
      BY <2>2, <2>5, <3>1 DEF Connection
    <3>3. /\ p2.v[cell].CF = More(p.v[cell]) /\ p2.v[cell].complnum = p.v[cell].complnum
          /\ p2.v[cell].state = p.v[cell].state
      BY <2>2, <2>5, <3>1 DEF Connection
    <3>4. /\ u2.v[cell].CF = More(u.v[cell]) /\ u2.v[cell].complnum = u.v[cell].complnum
          /\ u2.v[cell].state = u.v[cell].state
      BY <2>2, <2>5, <3>1 DEF Connection
    <3>5. \A y, z : y.CF = z.CF => More(y) = More(z)
      OBVIOUS
    <3> HIDE DEF More
    <3> QED
      BY <2>5, <3>2, <3>3, <3>4, <3>5 DEF Mixed, Same
  <2>6. CASE cell = new.cell /\ cell \notin DOMAIN x.v
    BY <2>3, <2>6
  <2> QED
    BY <2>4, <2>5, <2>6
<1> HIDE DEF x2, p2, u2
<1> QED
  BY <1>1, <1>2, <1>3 DEF Mixed, Same, x2, p2, u2

(* What a keyword makes of a connection, but for its being subject.        *)
LEMMA TouchedFields ==
  ASSUME NEW mode, NEW kw, NEW x
  PROVE  /\ Touched(mode, kw, x).complnum
              = IF kw.name = "COMPLUMP" /\ x.cell \in kw.cells THEN kw.N ELSE x.complnum
         /\ Touched(mode, kw, x).state
              = IF kw.name = "WELOPEN" /\ x.cell \in kw.cells /\ x.complnum \in kw.complnums
                THEN kw.state ELSE x.state
         /\ Touched(mode, kw, x).CF = x.CF + Multiplier(mode, kw, x)
         /\ Touched(mode, kw, x).cell = x.cell
  BY DEF Touched

(* Connections that differ in their factors still do. *)
LEMMA TouchedAlike ==
  ASSUME NEW kw, kw.name # "Found", NEW m1, NEW m2, NEW y, NEW z,
         y.cell = z.cell, y.complnum = z.complnum, y.state = z.state
  PROVE  /\ Touched(m1, kw, y).complnum = Touched(m2, kw, z).complnum
         /\ Touched(m1, kw, y).state = Touched(m2, kw, z).state
         /\ y.CF = z.CF => Touched(m1, kw, y).CF = Touched(m2, kw, z).CF
<1>1. Multiplier(m1, kw, y) = Multiplier(m2, kw, z)
  BY DEF Multiplier
<1> QED
  BY <1>1, TouchedFields

(* A keyword does the same to all of them, unless a factor was found. *)
LEMMA MixedApplied ==
  ASSUME NEW m1, NEW m2, NEW m3, NEW x, NEW p, NEW u, Mixed(x, p, u), NEW kw \in EffectKeyword, kw.name # "Found"
  PROVE  Mixed(Applied(m1, x, kw), Applied(m2, p, kw), Applied(m3, u, kw))
<1>1. CASE kw.name = "COMPDAT"
  <2>1. PICK r : r = kw.records
    OBVIOUS
  <2> HIDE <1>1
  <2>2. r \in Seq(Record)
    BY <1>1, <2>1, KeywordFacts
  <2>3. PICK F : /\ F[0] = x
                 /\ \A k \in 1 .. Len(r) : F[k] = LoadOp(<< >>, F[k - 1], r[k])
                 /\ LoadingView!Fold(<< >>, x, r) = F[Len(r)]
    BY ONLY <2>2, LoadingView!FoldRuns
  <2>4. PICK G : /\ G[0] = p
                 /\ \A k \in 1 .. Len(r) : G[k] = LoadOp(<< >>, G[k - 1], r[k])
                 /\ LoadingView!Fold(<< >>, p, r) = G[Len(r)]
    BY ONLY <2>2, LoadingView!FoldRuns
  <2>5. PICK H : /\ H[0] = u
                 /\ \A k \in 1 .. Len(r) : H[k] = LoadOp(<< >>, H[k - 1], r[k])
                 /\ LoadingView!Fold(<< >>, u, r) = H[Len(r)]
    BY ONLY <2>2, LoadingView!FoldRuns
  <2> DEFINE T == {k \in 0 .. Len(r) : Mixed(F[k], G[k], H[k])}
  <2>6. Len(r) \in Nat /\ 0 \in T
    BY <2>2, <2>3, <2>4, <2>5
  <2>7. ASSUME NEW k \in 1 .. Len(r), k - 1 \in T PROVE k \in T
    <3>1. Mixed(F[k - 1], G[k - 1], H[k - 1]) /\ r[k] \in Record
      BY <2>2, <2>7
    <3>2. F[k] = LoadOp(<< >>, F[k - 1], r[k]) /\ G[k] = LoadOp(<< >>, G[k - 1], r[k])
          /\ H[k] = LoadOp(<< >>, H[k - 1], r[k]) /\ k \in 0 .. Len(r)
      BY <2>3, <2>4, <2>5
    <3> QED
      BY <3>1, <3>2, MixedLoad
  <2>8. Len(r) \in T
    <3> HIDE DEF T
    <3> QED
      BY <2>6, <2>7, UpTo
  <2> QED
    BY <1>1, <2>1, <2>3, <2>4, <2>5, <2>8 DEF Applied
<1>2. CASE kw.name = "Fracture"
  <2>1. PICK r : r = kw.connections
    OBVIOUS
  <2> HIDE <1>2
  <2>2. r \in Seq(NewFracture)
    BY <1>2, <2>1, KeywordFacts
  <2>3. PICK F : /\ F[0] = x
                 /\ \A k \in 1 .. Len(r) : F[k] = FractureOp(<< >>, F[k - 1], r[k])
                 /\ GrowingView!Fold(<< >>, x, r) = F[Len(r)]
    BY ONLY <2>2, GrowingView!FoldRuns
  <2>4. PICK G : /\ G[0] = p
                 /\ \A k \in 1 .. Len(r) : G[k] = FractureOp(<< >>, G[k - 1], r[k])
                 /\ GrowingView!Fold(<< >>, p, r) = G[Len(r)]
    BY ONLY <2>2, GrowingView!FoldRuns
  <2>5. PICK H : /\ H[0] = u
                 /\ \A k \in 1 .. Len(r) : H[k] = FractureOp(<< >>, H[k - 1], r[k])
                 /\ GrowingView!Fold(<< >>, u, r) = H[Len(r)]
    BY ONLY <2>2, GrowingView!FoldRuns
  <2> DEFINE T == {k \in 0 .. Len(r) : Mixed(F[k], G[k], H[k])}
  <2>6. Len(r) \in Nat /\ 0 \in T
    BY <2>2, <2>3, <2>4, <2>5
  <2>7. ASSUME NEW k \in 1 .. Len(r), k - 1 \in T PROVE k \in T
    <3>1. Mixed(F[k - 1], G[k - 1], H[k - 1]) /\ r[k] \in NewFracture
      BY <2>2, <2>7
    <3>2. F[k] = FractureOp(<< >>, F[k - 1], r[k]) /\ G[k] = FractureOp(<< >>, G[k - 1], r[k])
          /\ H[k] = FractureOp(<< >>, H[k - 1], r[k]) /\ k \in 0 .. Len(r)
      BY <2>3, <2>4, <2>5
    <3> QED
      BY <3>1, <3>2, MixedFracture
  <2>8. Len(r) \in T
    <3> HIDE DEF T
    <3> QED
      BY <2>6, <2>7, UpTo
  <2> QED
    BY <1>2, <2>1, <2>3, <2>4, <2>5, <2>8 DEF Applied
<1>3. CASE kw.name \notin {"COMPDAT", "Fracture"}
  <2> DEFINE x2 == Applied(m1, x, kw)
             p2 == Applied(m2, p, kw)
             u2 == Applied(m3, u, kw)
  <2>1. IsView(x2) /\ IsView(p2) /\ IsView(u2)
    BY AppliedIsView DEF Mixed, Same
  <2>2. /\ x.n = p.n /\ x.n = u.n /\ DOMAIN x.v = DOMAIN p.v /\ DOMAIN x.v = DOMAIN u.v
        /\ x2.n = x.n /\ p2.n = p.n /\ u2.n = u.n
        /\ DOMAIN x2.v = DOMAIN x.v /\ DOMAIN p2.v = DOMAIN p.v /\ DOMAIN u2.v = DOMAIN u.v
        /\ \A cell \in DOMAIN x.v : x2.v[cell] = Touched(m1, kw, x.v[cell])
        /\ \A cell \in DOMAIN p.v : p2.v[cell] = Touched(m2, kw, p.v[cell])
        /\ \A cell \in DOMAIN u.v : u2.v[cell] = Touched(m3, kw, u.v[cell])
    BY <1>3 DEF Mixed, Same, Applied
  <2>3. ASSUME NEW cell \in DOMAIN x.v
        PROVE  /\ x2.v[cell].complnum = p2.v[cell].complnum /\ x2.v[cell].state = p2.v[cell].state
               /\ x2.v[cell].complnum = u2.v[cell].complnum /\ x2.v[cell].state = u2.v[cell].state
               /\ x2.v[cell].CF \in {p2.v[cell].CF, u2.v[cell].CF}
    <3> HIDE DEF x2, p2, u2
    <3>1. PICK y : y = x.v[cell]
      OBVIOUS
    <3>2. PICK z : z = p.v[cell]
      OBVIOUS
    <3>3. PICK w : w = u.v[cell]
      OBVIOUS
    <3>4. /\ y.cell = z.cell /\ y.cell = w.cell /\ y.complnum = z.complnum /\ y.complnum = w.complnum
          /\ y.state = z.state /\ y.state = w.state /\ y.CF \in {z.CF, w.CF}
      BY <2>2, <3>1, <3>2, <3>3 DEF Mixed, Same, IsView
    <3>5. x2.v[cell] = Touched(m1, kw, y) /\ p2.v[cell] = Touched(m2, kw, z) /\ u2.v[cell] = Touched(m3, kw, w)
      BY <2>2, <3>1, <3>2, <3>3
    <3>6. /\ Touched(m1, kw, y).complnum = Touched(m2, kw, z).complnum
          /\ Touched(m1, kw, y).state = Touched(m2, kw, z).state
          /\ y.CF = z.CF => Touched(m1, kw, y).CF = Touched(m2, kw, z).CF
      <4>1. y.cell = z.cell /\ y.complnum = z.complnum /\ y.state = z.state
        BY <3>4
      <4> QED
        BY <4>1, TouchedAlike
    <3>7. /\ Touched(m1, kw, y).complnum = Touched(m3, kw, w).complnum
          /\ Touched(m1, kw, y).state = Touched(m3, kw, w).state
          /\ y.CF = w.CF => Touched(m1, kw, y).CF = Touched(m3, kw, w).CF
      <4>1. y.cell = w.cell /\ y.complnum = w.complnum /\ y.state = w.state
        BY <3>4
      <4> QED
        BY <4>1, TouchedAlike
    <3>8. y.CF = z.CF \/ y.CF = w.CF
      BY <3>4
    <3>9. PICK y2, z2, w2 : /\ y2 = Touched(m1, kw, y) /\ z2 = Touched(m2, kw, z) /\ w2 = Touched(m3, kw, w)
                            /\ y2 = x2.v[cell] /\ z2 = p2.v[cell] /\ w2 = u2.v[cell]
      BY <3>5
    <3>10. /\ y2.complnum = z2.complnum /\ y2.state = z2.state /\ y2.complnum = w2.complnum /\ y2.state = w2.state
           /\ y2.CF = z2.CF \/ y2.CF = w2.CF
      BY <3>6, <3>7, <3>8, <3>9
    <3> QED
      BY <3>9, <3>10
  <2> HIDE DEF x2, p2, u2
  <2>4. Mixed(x2, p2, u2)
    BY <2>1, <2>2, <2>3 DEF Mixed, Same
  <2> QED
    BY <2>4 DEF x2, p2, u2
<1> QED
  BY <1>1, <1>2, <1>3

(* So do many keywords. *)
LEMMA MixedRun ==
  ASSUME NEW m1, NEW m2, NEW m3, NEW x, NEW p, NEW u, Mixed(x, p, u),
         NEW e \in Seq(EffectKeyword), "Found" \notin NamesIn(e)
  PROVE  Mixed(Applying!Fold(m1, x, e), Applying!Fold(m2, p, e), Applying!Fold(m3, u, e))
<1>1. PICK F : /\ F[0] = x
               /\ \A k \in 1 .. Len(e) : F[k] = AppliedOp(m1, F[k - 1], e[k])
               /\ Applying!Fold(m1, x, e) = F[Len(e)]
  BY ONLY e \in Seq(EffectKeyword), Applying!FoldRuns
<1>2. PICK G : /\ G[0] = p
               /\ \A k \in 1 .. Len(e) : G[k] = AppliedOp(m2, G[k - 1], e[k])
               /\ Applying!Fold(m2, p, e) = G[Len(e)]
  BY ONLY e \in Seq(EffectKeyword), Applying!FoldRuns
<1>3. PICK H : /\ H[0] = u
               /\ \A k \in 1 .. Len(e) : H[k] = AppliedOp(m3, H[k - 1], e[k])
               /\ Applying!Fold(m3, u, e) = H[Len(e)]
  BY ONLY e \in Seq(EffectKeyword), Applying!FoldRuns
<1> DEFINE T == {k \in 0 .. Len(e) : Mixed(F[k], G[k], H[k])}
<1>4. Len(e) \in Nat /\ 0 \in T
  BY <1>1, <1>2, <1>3
<1>5. ASSUME NEW k \in 1 .. Len(e), k - 1 \in T PROVE k \in T
  <2>1. Mixed(F[k - 1], G[k - 1], H[k - 1]) /\ e[k] \in EffectKeyword /\ e[k].name # "Found" /\ k \in 0 .. Len(e)
    BY <1>5 DEF NamesIn
  <2>2. F[k] = Applied(m1, F[k - 1], e[k]) /\ G[k] = Applied(m2, G[k - 1], e[k])
        /\ H[k] = Applied(m3, H[k - 1], e[k])
    BY <1>1, <1>2, <1>3 DEF AppliedOp
  <2> QED
    BY <2>1, <2>2, MixedApplied
<1>6. Len(e) \in T
  <2> HIDE DEF T
  <2> QED
    BY <1>4, <1>5, UpTo
<1> QED
  BY <1>1, <1>2, <1>3, <1>6

(* One sequence of keywords after another. *)
LEMMA RunJoined ==
  ASSUME NEW m, NEW a, NEW e \in Seq(EffectKeyword), NEW h \in Seq(EffectKeyword)
  PROVE  Applying!Fold(m, a, e \o h) = Applying!Fold(m, Applying!Fold(m, a, e), h)
<1>1. PICK j : j = e \o h
  OBVIOUS
<1>2. PICK b : b = Applying!Fold(m, a, e)
  OBVIOUS
<1>3. /\ j \in Seq(EffectKeyword) /\ Len(e) \in Nat /\ Len(h) \in Nat /\ Len(j) = Len(e) + Len(h)
      /\ \A k \in 1 .. Len(e) : j[k] = e[k]
      /\ \A k \in 1 .. Len(h) : j[Len(e) + k] = h[k]
  BY <1>1
<1>4. PICK F : /\ F[0] = a
               /\ \A k \in 1 .. Len(j) : F[k] = AppliedOp(m, F[k - 1], j[k])
               /\ Applying!Fold(m, a, j) = F[Len(j)]
  <2>1. j \in Seq(EffectKeyword)
    BY <1>3
  <2> QED
    BY ONLY <2>1, Applying!FoldRuns
<1>5. PICK G : /\ G[0] = a
               /\ \A k \in 1 .. Len(e) : G[k] = AppliedOp(m, G[k - 1], e[k])
               /\ Applying!Fold(m, a, e) = G[Len(e)]
  BY ONLY e \in Seq(EffectKeyword), Applying!FoldRuns
<1>6. PICK H : /\ H[0] = b
               /\ \A k \in 1 .. Len(h) : H[k] = AppliedOp(m, H[k - 1], h[k])
               /\ Applying!Fold(m, b, h) = H[Len(h)]
  BY ONLY h \in Seq(EffectKeyword), Applying!FoldRuns
<1> DEFINE S == {k \in 0 .. Len(e) : F[k] = G[k]}
           T == {k \in 0 .. Len(h) : F[Len(e) + k] = H[k]}
<1>7. 0 \in S
  BY <1>3, <1>4, <1>5
<1>8. ASSUME NEW k \in 1 .. Len(e), k - 1 \in S PROVE k \in S
  <2>1. F[k - 1] = G[k - 1] /\ k \in 1 .. Len(j) /\ j[k] = e[k] /\ k \in 0 .. Len(e)
    BY <1>3, <1>8
  <2> QED
    BY <1>4, <1>5, <2>1
<1>9. Len(e) \in S
  <2> HIDE DEF S
  <2> QED
    BY <1>3, <1>7, <1>8, UpTo
<1>10. 0 \in T
  <2>1. Len(e) + 0 = Len(e) /\ F[Len(e)] = G[Len(e)]
    BY <1>3, <1>9
  <2> QED
    BY <1>2, <1>3, <1>5, <1>6, <2>1
<1>11. ASSUME NEW k \in 1 .. Len(h), k - 1 \in T PROVE k \in T
  <2>1. PICK i : i = Len(e) + k
    OBVIOUS
  <2>2. i \in 1 .. Len(j) /\ i - 1 = Len(e) + (k - 1) /\ k \in 0 .. Len(h)
    BY <1>3, <2>1
  <2>3. F[i - 1] = H[k - 1]
    BY <1>11, <2>2
  <2>4. F[i] = AppliedOp(m, F[i - 1], j[i]) /\ H[k] = AppliedOp(m, H[k - 1], h[k]) /\ j[i] = h[k]
    BY <1>3, <1>4, <1>6, <2>1, <2>2
  <2>5. F[i] = H[k]
    BY <2>3, <2>4
  <2> QED
    BY <2>1, <2>2, <2>5
<1>12. Len(h) \in T
  <2> HIDE DEF T
  <2> QED
    BY <1>3, <1>10, <1>11, UpTo
<1>13. F[Len(j)] = H[Len(h)]
  BY <1>3, <1>12
<1> QED
  BY <1>1, <1>2, <1>4, <1>6, <1>13

-----------------------------------------------------------------------------
(***************************************************************************)
(* A scaling of what is said: p without it, q with it, and a with what the *)
(* code has as subject.  The cells of T are scaled as long as they are     *)
(* subject, and no cell outside B is.                                      *)
(***************************************************************************)
Shifted(p, q, a, T, B, f) ==
  /\ Same(q, p)
  /\ IsView(a)
  /\ DOMAIN a.v = DOMAIN p.v
  /\ \A cell \in DOMAIN p.v :
       q.v[cell].CF = IF cell \in T /\ a.v[cell].subject_to_welpi THEN p.v[cell].CF + f ELSE p.v[cell].CF
  /\ \A cell \in DOMAIN a.v : cell \notin B => ~a.v[cell].subject_to_welpi

(* No connection is new, and those to be scaled are subject. *)
Settled(a, T, B) ==
  DOMAIN a.v = B /\ \A cell \in DOMAIN a.v : cell \in T => a.v[cell].subject_to_welpi

(* Views that are the same are mixed in one way at least. *)
LEMMA SameIsMixed ==
  ASSUME NEW x, NEW p
  PROVE  Same(x, p) <=> Mixed(x, p, x)
<1>1. Same(x, p) => Same(x, x)
  BY DEF Same
<1> QED
  BY <1>1 DEF Mixed

(* A record resets its connection, scaled or not. *)
LEMMA ShiftedLoad ==
  ASSUME NEW p, NEW q, NEW a, NEW T, NEW B, NEW f, Shifted(p, q, a, T, B, f), NEW rec \in Record
  PROVE  Shifted(LoadOp(<< >>, p, rec), LoadOp(<< >>, q, rec), LoadOp(<< >>, a, rec), T, B, f)
<1> DEFINE p2 == LoadOp(<< >>, p, rec)
           q2 == LoadOp(<< >>, q, rec)
           a2 == LoadOp(<< >>, a, rec)
<1>1. Same(q2, p2)
  BY SameIsMixed, MixedLoad DEF Shifted, Mixed
<1>2. IsView(a2)
  BY LoadOpIsView DEF Shifted
<1>3. /\ DOMAIN p.v = DOMAIN q.v /\ DOMAIN a.v = DOMAIN p.v
      /\ DOMAIN p2.v = DOMAIN p.v \cup {rec.cell} /\ DOMAIN q2.v = DOMAIN p.v \cup {rec.cell}
      /\ DOMAIN a2.v = DOMAIN p.v \cup {rec.cell}
  BY DEF Shifted, Same, LoadOp
<1>4. ASSUME NEW cell \in DOMAIN p2.v, cell # rec.cell
      PROVE  cell \in DOMAIN p.v /\ p2.v[cell] = p.v[cell] /\ q2.v[cell] = q.v[cell] /\ a2.v[cell] = a.v[cell]
  BY <1>3, <1>4 DEF LoadOp
<1>5. ASSUME NEW cell \in DOMAIN p2.v, cell = rec.cell
      PROVE  p2.v[cell].CF = rec.CF /\ q2.v[cell].CF = rec.CF /\ ~a2.v[cell].subject_to_welpi
  <2>1. \E i, j, k : /\ p2.v[cell] = NewConnection(cell, i, rec.state, rec.CF)
                     /\ q2.v[cell] = NewConnection(cell, j, rec.state, rec.CF)
                     /\ a2.v[cell] = NewConnection(cell, k, rec.state, rec.CF)
    BY <1>3, <1>5 DEF LoadOp
  <2> HIDE DEF p2, q2, a2
  <2> QED
    BY <2>1 DEF NewConnection
<1> HIDE DEF p2, q2, a2
<1>6. \A cell \in DOMAIN p2.v :
        q2.v[cell].CF = IF cell \in T /\ a2.v[cell].subject_to_welpi THEN p2.v[cell].CF + f ELSE p2.v[cell].CF
  BY <1>4, <1>5 DEF Shifted
<1>7. \A cell \in DOMAIN a2.v : cell \notin B => ~a2.v[cell].subject_to_welpi
  BY <1>3, <1>4, <1>5 DEF Shifted
<1>8. Shifted(p2, q2, a2, T, B, f)
  BY <1>1, <1>2, <1>3, <1>6, <1>7 DEF Shifted
<1> QED
  BY <1>8 DEF p2, q2, a2

(* So do the records of a COMPDAT. *)
LEMMA ShiftedCOMPDAT ==
  ASSUME NEW p, NEW q, NEW a, NEW T, NEW B, NEW f, Shifted(p, q, a, T, B, f), NEW kw \in EffectKeyword,
         kw.name = "COMPDAT"
  PROVE  Shifted(Applied("scaled", p, kw), Applied("scaled", q, kw), Applied("code", a, kw), T, B, f)
<1>1. PICK r : r = kw.records
  OBVIOUS
<1>2. r \in Seq(Record)
  BY <1>1, KeywordFacts
<1>3. PICK F : /\ F[0] = p
               /\ \A k \in 1 .. Len(r) : F[k] = LoadOp(<< >>, F[k - 1], r[k])
               /\ LoadingView!Fold(<< >>, p, r) = F[Len(r)]
  BY ONLY <1>2, LoadingView!FoldRuns
<1>4. PICK G : /\ G[0] = q
               /\ \A k \in 1 .. Len(r) : G[k] = LoadOp(<< >>, G[k - 1], r[k])
               /\ LoadingView!Fold(<< >>, q, r) = G[Len(r)]
  BY ONLY <1>2, LoadingView!FoldRuns
<1>5. PICK H : /\ H[0] = a
               /\ \A k \in 1 .. Len(r) : H[k] = LoadOp(<< >>, H[k - 1], r[k])
               /\ LoadingView!Fold(<< >>, a, r) = H[Len(r)]
  BY ONLY <1>2, LoadingView!FoldRuns
<1> DEFINE S == {k \in 0 .. Len(r) : Shifted(F[k], G[k], H[k], T, B, f)}
<1>6. Len(r) \in Nat /\ 0 \in S
  BY <1>2, <1>3, <1>4, <1>5
<1>7. ASSUME NEW k \in 1 .. Len(r), k - 1 \in S PROVE k \in S
  <2>1. Shifted(F[k - 1], G[k - 1], H[k - 1], T, B, f) /\ r[k] \in Record
    BY <1>2, <1>7
  <2>2. F[k] = LoadOp(<< >>, F[k - 1], r[k]) /\ G[k] = LoadOp(<< >>, G[k - 1], r[k])
        /\ H[k] = LoadOp(<< >>, H[k - 1], r[k]) /\ k \in 0 .. Len(r)
    BY <1>3, <1>4, <1>5
  <2> QED
    BY <2>1, <2>2, ShiftedLoad
<1>8. Len(r) \in S
  <2> HIDE DEF S
  <2> QED
    BY <1>6, <1>7, UpTo
<1> QED
  BY <1>1, <1>3, <1>4, <1>5, <1>8 DEF Applied

(* A connection is made subject by WELPI. *)
LEMMA TouchedSubject ==
  ASSUME NEW kw, NEW x, kw.name # "WELPIRuntime"
  PROVE  /\ kw.name = "WELPI" => Touched("code", kw, x).subject_to_welpi = TRUE
         /\ kw.name # "WELPI" => Touched("code", kw, x).subject_to_welpi = x.subject_to_welpi
<1>1. CASE kw.name = "WELPI"
  <2>1. ASSUME NEW y, NEW i, NEW j, NEW k, NEW l, y = [cell |-> i, complnum |-> j, state |-> k, CF |-> l, subject_to_welpi |-> TRUE]
        PROVE  y.subject_to_welpi = TRUE
    BY <2>1
  <2> QED
    BY <1>1, <2>1 DEF Touched
<1>2. CASE kw.name # "WELPI"
  BY <1>2 DEF Touched
<1> QED
  BY <1>1, <1>2

(* What the deck's keywords do to a scaled connection. *)
LEMMA ShiftedApplied ==
  ASSUME NEW p, NEW q, NEW a, NEW T, NEW B, NEW f \in Int, Shifted(p, q, a, T, B, f), NEW kw \in EffectKeyword,
         kw.name \notin {"Found", "Fracture", "WELPIRuntime"},
         kw.name = "WELPI" => Settled(a, T, B)
  PROVE  /\ Shifted(Applied("scaled", p, kw), Applied("scaled", q, kw), Applied("code", a, kw), T, B, f)
         /\ kw.name # "COMPDAT" /\ Settled(a, T, B) => Settled(Applied("code", a, kw), T, B)
<1>1. CASE kw.name = "COMPDAT"
  BY <1>1, ShiftedCOMPDAT
<1>2. CASE kw.name # "COMPDAT"
  <2> DEFINE p2 == Applied("scaled", p, kw)
             q2 == Applied("scaled", q, kw)
             a2 == Applied("code", a, kw)
  <2>1. Same(q2, p2)
    BY SameIsMixed, MixedApplied DEF Shifted, Mixed
  <2>2. IsView(a2)
    BY AppliedIsView DEF Shifted
  <2>3. /\ DOMAIN p.v = DOMAIN q.v /\ DOMAIN a.v = DOMAIN p.v
        /\ DOMAIN p2.v = DOMAIN p.v /\ DOMAIN q2.v = DOMAIN p.v /\ DOMAIN a2.v = DOMAIN p.v
        /\ \A cell \in DOMAIN p.v : /\ p2.v[cell] = Touched("scaled", kw, p.v[cell])
                                    /\ q2.v[cell] = Touched("scaled", kw, q.v[cell])
                                    /\ a2.v[cell] = Touched("code", kw, a.v[cell])
    BY <1>2 DEF Shifted, Same, Applied
  <2> HIDE DEF p2, q2, a2
  <2>4. ASSUME NEW cell \in DOMAIN p.v
        PROVE  /\ kw.name = "WELPI" => a2.v[cell].subject_to_welpi = TRUE
               /\ kw.name # "WELPI" => a2.v[cell].subject_to_welpi = a.v[cell].subject_to_welpi
    <3>1. PICK x : x = a.v[cell] /\ a2.v[cell] = Touched("code", kw, x)
      BY <2>3
    <3> QED
      BY <3>1, TouchedSubject
  <2>5. ASSUME NEW cell \in DOMAIN p.v
        PROVE  \E d \in Int : /\ p2.v[cell].CF = p.v[cell].CF + d /\ q2.v[cell].CF = q.v[cell].CF + d
                              /\ p.v[cell].CF \in Int /\ q.v[cell].CF \in Int
    <3>1. p.v[cell] \in Connection /\ q.v[cell] \in Connection /\ p.v[cell].cell = q.v[cell].cell
          /\ p.v[cell].complnum = q.v[cell].complnum
      BY <2>3 DEF Shifted, Same, IsView
    <3>2. PICK y, z : y = p.v[cell] /\ z = q.v[cell]
      OBVIOUS
    <3>3. Multiplier("scaled", kw, y) = Multiplier("scaled", kw, z) /\ Multiplier("scaled", kw, y) \in Int
      <4>1. y \in Connection /\ y.cell = z.cell /\ y.complnum = z.complnum
        BY <3>1, <3>2
      <4>2. Multiplier("scaled", kw, y) \in Int
        BY <4>1, TouchedFacts
      <4>3. Multiplier("scaled", kw, y) = Multiplier("scaled", kw, z)
        BY <4>1 DEF Multiplier
      <4> QED
        BY <4>2, <4>3
    <3>4. p2.v[cell].CF = y.CF + Multiplier("scaled", kw, y) /\ q2.v[cell].CF = z.CF + Multiplier("scaled", kw, z)
      BY <2>3, <3>2, TouchedFields
    <3>5. y.CF \in Int /\ z.CF \in Int
      BY <3>1, <3>2, ConnectionIs
    <3> QED
      BY <3>2, <3>3, <3>4, <3>5
  <2>6. ASSUME NEW cell \in DOMAIN p.v
        PROVE  q2.v[cell].CF = IF cell \in T /\ a2.v[cell].subject_to_welpi THEN p2.v[cell].CF + f ELSE p2.v[cell].CF
    <3>1. PICK d \in Int : /\ p2.v[cell].CF = p.v[cell].CF + d /\ q2.v[cell].CF = q.v[cell].CF + d
                           /\ p.v[cell].CF \in Int /\ q.v[cell].CF \in Int
      BY <2>5
    <3>2. q.v[cell].CF = IF cell \in T /\ a.v[cell].subject_to_welpi THEN p.v[cell].CF + f ELSE p.v[cell].CF
      BY DEF Shifted
    <3>3. cell \in T => (a2.v[cell].subject_to_welpi <=> a.v[cell].subject_to_welpi)
      <4>1. CASE kw.name = "WELPI"
        BY <2>3, <2>4, <4>1 DEF Settled
      <4>2. CASE kw.name # "WELPI"
        BY <2>4, <4>2
      <4> QED
        BY <4>1, <4>2
    <3>4. CASE cell \in T /\ a.v[cell].subject_to_welpi
      <4>1. q.v[cell].CF = p.v[cell].CF + f
        BY <3>2, <3>4
      <4>2. q2.v[cell].CF = p2.v[cell].CF + f
        BY <3>1, <4>1
      <4> QED
        BY <3>3, <3>4, <4>2
    <3>5. CASE ~(cell \in T /\ a.v[cell].subject_to_welpi)
      <4>1. q2.v[cell].CF = p2.v[cell].CF
        BY <3>1, <3>2, <3>5
      <4> QED
        BY <3>3, <3>5, <4>1
    <3> QED
      BY <3>4, <3>5
  <2>7. \A cell \in DOMAIN a2.v : cell \notin B => ~a2.v[cell].subject_to_welpi
    <3> SUFFICES ASSUME NEW cell \in DOMAIN p.v, cell \notin B PROVE ~a2.v[cell].subject_to_welpi
      BY <2>3
    <3>1. kw.name # "WELPI"
      BY <2>3 DEF Settled
    <3>2. ~a.v[cell].subject_to_welpi
      BY <2>3 DEF Shifted
    <3> QED
      BY <2>4, <3>1, <3>2
  <2>8. Shifted(p2, q2, a2, T, B, f)
    BY <2>1, <2>2, <2>3, <2>6, <2>7 DEF Shifted
  <2>9. Settled(a, T, B) => Settled(a2, T, B)
    BY <2>3, <2>4 DEF Settled
  <2> QED
    BY <2>8, <2>9 DEF p2, q2, a2
<1> QED
  BY <1>1, <1>2

(* A scaling that has begun at position k is carried through to the end:   *)
(* the code's connections have one WELPI only, or one before all COMPDAT.  *)
LEMMA ShiftedFrom ==
  ASSUME NEW e \in Seq(EffectKeyword), NEW k \in 0 .. Len(e),
         \A l \in k + 1 .. Len(e) : e[l].name \notin {"Found", "Fracture", "WELPIRuntime"},
         NEW F, \A l \in k + 1 .. Len(e) : F[l] = Applied("scaled", F[l - 1], e[l]),
         NEW G, \A l \in k + 1 .. Len(e) : G[l] = Applied("scaled", G[l - 1], e[l]),
         NEW A, \A l \in k + 1 .. Len(e) : A[l] = Applied("code", A[l - 1], e[l]),
         NEW T, NEW B, NEW f \in Int, Shifted(F[k], G[k], A[k], T, B, f),
         \/ \A l \in k + 1 .. Len(e) : e[l].name # "WELPI"
         \/ /\ Settled(A[k], T, B)
            /\ \A l, m \in k + 1 .. Len(e) : l < m /\ e[l].name = "COMPDAT" => e[m].name # "WELPI"
  PROVE  Shifted(F[Len(e)], G[Len(e)], A[Len(e)], T, B, f)
<1> DEFINE Reset(l) == \E m \in k + 1 .. Len(e) : m <= l /\ e[m].name = "COMPDAT"
           Quiet == \A l \in k + 1 .. Len(e) : e[l].name # "WELPI"
           Good(l) == l >= k => /\ Shifted(F[l], G[l], A[l], T, B, f)
                                /\ Quiet \/ Reset(l) \/ Settled(A[l], T, B)
           S == {l \in 0 .. Len(e) : Good(l)}
<1>1. Len(e) \in Nat /\ k \in Nat /\ k <= Len(e)
  OBVIOUS
<1>2. Good(k)
  OBVIOUS
<1>3. 0 \in S
  BY <1>1, <1>2
<1>4. ASSUME NEW l \in 1 .. Len(e), l - 1 \in S PROVE l \in S
  <2>1. l \in 0 .. Len(e) /\ (l < k \/ l = k \/ l \in k + 1 .. Len(e))
    BY <1>1
  <2>2. CASE l < k
    BY <2>1, <2>2
  <2>3. CASE l = k
    BY <1>2, <2>1, <2>3
  <2>4. CASE l \in k + 1 .. Len(e)
    <3>1. /\ Shifted(F[l - 1], G[l - 1], A[l - 1], T, B, f)
          /\ Quiet \/ Reset(l - 1) \/ Settled(A[l - 1], T, B)
      BY <1>1, <1>4, <2>4
    <3>2. PICK kw \in EffectKeyword : kw = e[l]
      OBVIOUS
    <3>3. /\ kw.name \notin {"Found", "Fracture", "WELPIRuntime"}
          /\ F[l] = Applied("scaled", F[l - 1], kw) /\ G[l] = Applied("scaled", G[l - 1], kw)
          /\ A[l] = Applied("code", A[l - 1], kw)
      BY <2>4, <3>2
    <3>4. Reset(l - 1) => Reset(l)
      <4> SUFFICES ASSUME NEW m \in k + 1 .. Len(e), m <= l - 1, e[m].name = "COMPDAT" PROVE Reset(l)
        OBVIOUS
      <4>1. m <= l
        BY <1>1
      <4> QED
        BY <4>1
    <3>5. kw.name = "COMPDAT" => Reset(l)
      <4>1. l <= l
        BY <1>1
      <4> QED
        BY <2>4, <3>2, <4>1
    <3>6. kw.name = "WELPI" => ~Quiet /\ ~Reset(l - 1)
      <4> SUFFICES ASSUME kw.name = "WELPI" PROVE ~Quiet /\ ~Reset(l - 1)
        OBVIOUS
      <4>1. ~Quiet
        BY <2>4, <3>2
      <4>2. ASSUME NEW m \in k + 1 .. Len(e), m <= l - 1, e[m].name = "COMPDAT" PROVE FALSE
        <5>1. m < l
          BY <1>1, <4>2
        <5> QED
          BY <2>4, <3>2, <4>1, <4>2, <5>1
      <4> QED
        BY <4>1, <4>2
    <3> HIDE DEF Reset, Quiet
    <3>7. kw.name = "WELPI" => Settled(A[l - 1], T, B)
      BY <3>1, <3>6
    <3>8. /\ Shifted(F[l], G[l], A[l], T, B, f)
          /\ kw.name # "COMPDAT" /\ Settled(A[l - 1], T, B) => Settled(A[l], T, B)
      BY <3>1, <3>3, <3>7, ShiftedApplied
    <3> QED
      BY <2>1, <3>1, <3>4, <3>5, <3>8
  <2> QED
    BY <2>1, <2>2, <2>3, <2>4
<1>5. Len(e) \in S
  <2> HIDE DEF S
  <2> QED
    BY <1>1, <1>3, <1>4, UpTo
<1> QED
  BY <1>1, <1>5

(* ScalesFirst, of what a block does. *)
Calm(e) == \A l, m \in DOMAIN e : l < m /\ e[l].name = "COMPDAT" => e[m].name # "WELPI"

Plain(e) == \A name \in {"Found", "Fracture", "WELPIRuntime"} : name \notin NamesIn(e)

(* A later step hands the scaling on. *)
LEMMA ShiftedBlock ==
  ASSUME NEW e \in Seq(EffectKeyword), Plain(e), NEW p, NEW q, NEW a, NEW T, NEW B, NEW f \in Int,
         Shifted(p, q, a, T, B, f), "WELPI" \notin NamesIn(e) \/ (Settled(a, T, B) /\ Calm(e))
  PROVE  Shifted(Applying!Fold("scaled", p, e), Applying!Fold("scaled", q, e), Applying!Fold("code", a, e), T, B, f)
<1>1. PICK F : /\ F[0] = p
               /\ \A k \in 1 .. Len(e) : F[k] = AppliedOp("scaled", F[k - 1], e[k])
               /\ Applying!Fold("scaled", p, e) = F[Len(e)]
  BY ONLY e \in Seq(EffectKeyword), Applying!FoldRuns
<1>2. PICK G : /\ G[0] = q
               /\ \A k \in 1 .. Len(e) : G[k] = AppliedOp("scaled", G[k - 1], e[k])
               /\ Applying!Fold("scaled", q, e) = G[Len(e)]
  BY ONLY e \in Seq(EffectKeyword), Applying!FoldRuns
<1>3. PICK A : /\ A[0] = a
               /\ \A k \in 1 .. Len(e) : A[k] = AppliedOp("code", A[k - 1], e[k])
               /\ Applying!Fold("code", a, e) = A[Len(e)]
  BY ONLY e \in Seq(EffectKeyword), Applying!FoldRuns
<1>4. Len(e) \in Nat /\ DOMAIN e = 1 .. Len(e) /\ 0 + 1 = 1 /\ 0 \in 0 .. Len(e)
  OBVIOUS
<1>5. \A l \in 0 + 1 .. Len(e) : e[l].name \notin {"Found", "Fracture", "WELPIRuntime"}
  BY <1>4 DEF Plain, NamesIn
<1>6. \A l \in 0 + 1 .. Len(e) : /\ F[l] = Applied("scaled", F[l - 1], e[l])
                                 /\ G[l] = Applied("scaled", G[l - 1], e[l])
                                 /\ A[l] = Applied("code", A[l - 1], e[l])
  BY <1>1, <1>2, <1>3, <1>4 DEF AppliedOp
<1>7. Shifted(F[0], G[0], A[0], T, B, f)
  BY <1>1, <1>2, <1>3
<1>8. \/ \A l \in 0 + 1 .. Len(e) : e[l].name # "WELPI"
      \/ /\ Settled(A[0], T, B)
         /\ \A l, m \in 0 + 1 .. Len(e) : l < m /\ e[l].name = "COMPDAT" => e[m].name # "WELPI"
  <2>1. CASE "WELPI" \notin NamesIn(e)
    BY <1>4, <2>1 DEF NamesIn
  <2>2. CASE Settled(a, T, B) /\ Calm(e)
    BY <1>3, <1>4, <2>2 DEF Calm
  <2> QED
    BY <2>1, <2>2
<1>9. Shifted(F[Len(e)], G[Len(e)], A[Len(e)], T, B, f)
  BY <1>4, <1>5, <1>6, <1>7, <1>8, ShiftedFrom
<1> QED
  BY <1>1, <1>2, <1>3, <1>9

(* The factor that is found scales all connections there are, where those  *)
(* of the code become subject.                                             *)
LEMMA FoundShifts ==
  ASSUME NEW p, NEW a, Same(a, p), NEW f \in Int, NEW w \in EffectKeyword, w.name = "WELPI",
         NEW z \in EffectKeyword, z = [name |-> "Found", factor |-> f]
  PROVE  Shifted(Applied("scaled", p, w), Applied("scaled", p, z), Applied("code", a, w), DOMAIN p.v, DOMAIN p.v, f)
<1> DEFINE p2 == Applied("scaled", p, w)
           q2 == Applied("scaled", p, z)
           a2 == Applied("code", a, w)
<1>1. z.name = "Found" /\ z.factor = f
  OBVIOUS
<1>2. IsView(p2) /\ IsView(q2) /\ IsView(a2)
  BY AppliedIsView DEF Same
<1>3. /\ DOMAIN a.v = DOMAIN p.v /\ p2.n = p.n /\ q2.n = p.n
      /\ DOMAIN p2.v = DOMAIN p.v /\ DOMAIN q2.v = DOMAIN p.v /\ DOMAIN a2.v = DOMAIN p.v
      /\ \A cell \in DOMAIN p.v : /\ p2.v[cell] = Touched("scaled", w, p.v[cell])
                                  /\ q2.v[cell] = Touched("scaled", z, p.v[cell])
                                  /\ a2.v[cell] = Touched("code", w, a.v[cell])
  BY <1>1 DEF Same, Applied
<1> HIDE DEF p2, q2, a2
<1>4. ASSUME NEW cell \in DOMAIN p.v
      PROVE  /\ a2.v[cell].subject_to_welpi
             /\ q2.v[cell].complnum = p2.v[cell].complnum /\ q2.v[cell].state = p2.v[cell].state
             /\ q2.v[cell].CF = p2.v[cell].CF + f
  <2>1. PICK x : x = p.v[cell]
    OBVIOUS
  <2>2. PICK y : y = a.v[cell]
    OBVIOUS
  <2>3. p2.v[cell] = Touched("scaled", w, x) /\ q2.v[cell] = Touched("scaled", z, x) /\ a2.v[cell] = Touched("code", w, y)
    BY <1>3, <2>1, <2>2
  <2>4. x.CF \in Int
    BY <2>1, ConnectionIs DEF Same, IsView
  <2>5. Multiplier("scaled", w, x) = 0 /\ Multiplier("scaled", z, x) = f
    BY <1>1 DEF Multiplier
  <2>6. Touched("scaled", w, x).CF = x.CF /\ Touched("scaled", z, x).CF = x.CF + f
    BY <2>4, <2>5, TouchedFields
  <2>7. Touched("scaled", w, x).complnum = x.complnum /\ Touched("scaled", z, x).complnum = x.complnum
    BY <1>1, TouchedFields
  <2>8. Touched("scaled", w, x).state = x.state /\ Touched("scaled", z, x).state = x.state
    BY <1>1, TouchedFields
  <2>9. Touched("code", w, y).subject_to_welpi = TRUE
    BY TouchedSubject
  <2> QED
    BY <2>3, <2>6, <2>7, <2>8, <2>9
<1>5. Same(q2, p2)
  BY <1>2, <1>3, <1>4 DEF Same
<1>6. Shifted(p2, q2, a2, DOMAIN p.v, DOMAIN p.v, f)
  BY <1>2, <1>3, <1>4, <1>5 DEF Shifted
<1> QED
  BY <1>6 DEF p2, q2, a2

(* The step whose factor is found: all that is subject in the end is       *)
(* scaled, and nothing else.                                               *)
LEMMA ShiftedFound ==
  ASSUME NEW e \in Seq(EffectKeyword), Plain(e), "WELPI" \in NamesIn(e), NEW p, NEW a, Same(a, p), NEW f \in Int,
         NEW new, FoundAt(f, e, new)
  PROVE  \E T : Shifted(Applying!Fold("scaled", p, e), Applying!Fold("scaled", p, new), Applying!Fold("code", a, e),
                        T, T, f)
<1>1. /\ new \in Seq(EffectKeyword) /\ Len(new) = Len(e)
      /\ \E i \in 1 .. Len(e) :
         /\ e[i].name = "WELPI"
         /\ \A l \in i + 1 .. Len(e) : e[l].name # "WELPI"
         /\ new[i] = [name |-> "Found", factor |-> f]
         /\ \A l \in 1 .. Len(e) : l # i => new[l] = e[l]
  BY DEF FoundAt
<1>2. PICK i \in 1 .. Len(e) :
         /\ e[i].name = "WELPI"
         /\ \A l \in i + 1 .. Len(e) : e[l].name # "WELPI"
         /\ new[i] = [name |-> "Found", factor |-> f]
         /\ \A l \in 1 .. Len(e) : l # i => new[l] = e[l]
  BY <1>1
<1>3. PICK F : /\ F[0] = p
               /\ \A k \in 1 .. Len(e) : F[k] = AppliedOp("scaled", F[k - 1], e[k])
               /\ Applying!Fold("scaled", p, e) = F[Len(e)]
  BY ONLY e \in Seq(EffectKeyword), Applying!FoldRuns
<1>4. PICK G : /\ G[0] = p
               /\ \A k \in 1 .. Len(new) : G[k] = AppliedOp("scaled", G[k - 1], new[k])
               /\ Applying!Fold("scaled", p, new) = G[Len(new)]
  <2>1. new \in Seq(EffectKeyword)
    BY <1>1
  <2> QED
    BY ONLY <2>1, Applying!FoldRuns
<1>5. PICK A : /\ A[0] = a
               /\ \A k \in 1 .. Len(e) : A[k] = AppliedOp("code", A[k - 1], e[k])
               /\ Applying!Fold("code", a, e) = A[Len(e)]
  BY ONLY e \in Seq(EffectKeyword), Applying!FoldRuns
<1>6. /\ Len(e) \in Nat /\ DOMAIN e = 1 .. Len(e) /\ i \in 0 .. Len(e) /\ i - 1 \in 0 .. Len(e) /\ i \in Nat
      /\ \A l \in i + 1 .. Len(e) : l \in 1 .. Len(e) /\ l # i
  OBVIOUS
<1>7. \A l \in 1 .. Len(e) : e[l] \in EffectKeyword /\ e[l].name \notin {"Found", "Fracture", "WELPIRuntime"}
  BY <1>6 DEF Plain, NamesIn
<1> DEFINE S == {k \in 0 .. Len(e) : k < i => F[k] = G[k] /\ Mixed(A[k], F[k], A[k])}
<1>8. 0 \in S
  <2>1. Mixed(a, p, a)
    BY SameIsMixed
  <2> QED
    BY <1>3, <1>4, <1>5, <1>6, <2>1
<1>9. ASSUME NEW k \in 1 .. Len(e), k - 1 \in S PROVE k \in S
  <2> SUFFICES ASSUME k < i PROVE F[k] = G[k] /\ Mixed(A[k], F[k], A[k])
    BY <1>6
  <2>1. F[k - 1] = G[k - 1] /\ Mixed(A[k - 1], F[k - 1], A[k - 1])
    <3>1. k - 1 < i
      BY <1>6
    <3> QED
      BY <1>9, <3>1
  <2>2. new[k] = e[k] /\ k \in 1 .. Len(new) /\ e[k] \in EffectKeyword /\ e[k].name # "Found"
    <3>1. k # i
      BY <1>6
    <3> QED
      BY <1>1, <1>2, <1>7, <3>1
  <2>3. F[k] = Applied("scaled", F[k - 1], e[k]) /\ G[k] = Applied("scaled", G[k - 1], e[k])
        /\ A[k] = Applied("code", A[k - 1], e[k])
    BY <1>3, <1>4, <1>5, <2>2 DEF AppliedOp
  <2> QED
    BY <2>1, <2>2, <2>3, MixedApplied
<1>10. \A k \in 0 .. Len(e) : k \in S
  <2> HIDE DEF S
  <2> QED
    BY <1>6, <1>8, <1>9, UpTo
<1>11. F[i - 1] = G[i - 1] /\ Same(A[i - 1], F[i - 1])
  <2>1. i - 1 < i
    BY <1>6
  <2>2. F[i - 1] = G[i - 1] /\ Mixed(A[i - 1], F[i - 1], A[i - 1])
    BY <1>6, <1>10, <2>1
  <2> QED
    BY <2>2, SameIsMixed
<1> HIDE DEF S
<1> DEFINE T == DOMAIN F[i - 1].v
<1>12. Shifted(F[i], G[i], A[i], T, T, f)
  <2>1. F[i] = Applied("scaled", F[i - 1], e[i]) /\ G[i] = Applied("scaled", G[i - 1], new[i])
        /\ A[i] = Applied("code", A[i - 1], e[i])
    BY <1>1, <1>3, <1>4, <1>5 DEF AppliedOp
  <2>2. e[i] \in EffectKeyword /\ new[i] \in EffectKeyword
    BY <1>1, <1>7
  <2> QED
    BY <1>2, <1>11, <2>1, <2>2, FoundShifts
<1> HIDE DEF T
<1>13. \A l \in i + 1 .. Len(e) : /\ F[l] = Applied("scaled", F[l - 1], e[l])
                                  /\ G[l] = Applied("scaled", G[l - 1], e[l])
                                  /\ A[l] = Applied("code", A[l - 1], e[l])
  <2> SUFFICES ASSUME NEW l \in i + 1 .. Len(e)
               PROVE  /\ F[l] = Applied("scaled", F[l - 1], e[l])
                      /\ G[l] = Applied("scaled", G[l - 1], e[l])
                      /\ A[l] = Applied("code", A[l - 1], e[l])
    OBVIOUS
  <2>1. l \in 1 .. Len(e) /\ l # i /\ l \in 1 .. Len(new)
    BY <1>1, <1>6
  <2> QED
    BY <1>2, <1>3, <1>4, <1>5, <2>1 DEF AppliedOp
<1>14. \A l \in i + 1 .. Len(e) : e[l].name \notin {"Found", "Fracture", "WELPIRuntime"}
  BY <1>6, <1>7
<1>15. Shifted(F[Len(e)], G[Len(e)], A[Len(e)], T, T, f)
  BY <1>2, <1>6, <1>12, <1>13, <1>14, ShiftedFrom
<1> QED
  BY <1>1, <1>3, <1>4, <1>5, <1>15

(* Without the scaling, a factor that is found is as good as none.         *)
LEMMA UnscaledApplied ==
  ASSUME NEW a, IsView(a), NEW kw \in EffectKeyword, NEW z \in EffectKeyword,
         z = kw \/ (kw.name = "WELPI" /\ z.name = "Found"), kw.name # "Found"
  PROVE  Applied("unscaled", a, z) = Applied("scaled", a, kw)
<1>1. ASSUME NEW x \in Connection PROVE Touched("unscaled", z, x) = Touched("scaled", kw, x)
  <2>1. CASE z = kw
    <3>1. Multiplier("unscaled", kw, x) = Multiplier("scaled", kw, x)
      BY DEF Multiplier
    <3> QED
      BY <2>1, <3>1 DEF Touched
  <2>2. CASE kw.name = "WELPI" /\ z.name = "Found"
    <3>1. Multiplier("unscaled", z, x) = 0 /\ Multiplier("scaled", kw, x) = 0
      BY <2>2 DEF Multiplier
    <3> QED
      BY <2>2, <3>1 DEF Touched
  <2> QED
    BY <2>1, <2>2
<1>2. CASE kw.name \in {"COMPDAT", "Fracture"}
  BY <1>2 DEF Applied
<1>3. CASE kw.name \notin {"COMPDAT", "Fracture"}
  <2>1. z.name \notin {"COMPDAT", "Fracture"}
    BY <1>3
  <2>2. [cell \in DOMAIN a.v |-> Touched("unscaled", z, a.v[cell])] = [cell \in DOMAIN a.v |-> Touched("scaled", kw, a.v[cell])]
    BY <1>1 DEF IsView
  <2> QED
    BY <1>3, <2>1, <2>2 DEF Applied
<1> QED
  BY <1>2, <1>3

(* The same for many keywords. *)
LEMMA UnscaledRun ==
  ASSUME NEW a, IsView(a), NEW e \in Seq(EffectKeyword), "Found" \notin NamesIn(e), NEW z \in Seq(EffectKeyword),
         Len(z) = Len(e), \A k \in 1 .. Len(e) : z[k] = e[k] \/ (e[k].name = "WELPI" /\ z[k].name = "Found")
  PROVE  Applying!Fold("unscaled", a, z) = Applying!Fold("scaled", a, e)
<1>1. PICK F : /\ F[0] = a
               /\ \A k \in 1 .. Len(e) : F[k] = AppliedOp("scaled", F[k - 1], e[k])
               /\ Applying!Fold("scaled", a, e) = F[Len(e)]
  BY ONLY e \in Seq(EffectKeyword), Applying!FoldRuns
<1>2. PICK G : /\ G[0] = a
               /\ \A k \in 1 .. Len(z) : G[k] = AppliedOp("unscaled", G[k - 1], z[k])
               /\ Applying!Fold("unscaled", a, z) = G[Len(z)]
  BY ONLY z \in Seq(EffectKeyword), Applying!FoldRuns
<1> DEFINE T == {k \in 0 .. Len(e) : F[k] = G[k] /\ IsView(F[k])}
<1>3. Len(e) \in Nat /\ 0 \in T
  BY <1>1, <1>2
<1>4. ASSUME NEW k \in 1 .. Len(e), k - 1 \in T PROVE k \in T
  <2>1. F[k - 1] = G[k - 1] /\ IsView(F[k - 1])
    BY <1>4
  <2>2. PICK kw \in EffectKeyword : kw = e[k]
    OBVIOUS
  <2>3. PICK zz \in EffectKeyword : zz = z[k]
    OBVIOUS
  <2>4. kw.name # "Found" /\ k \in 0 .. Len(e) /\ k \in 1 .. Len(z)
        /\ (zz = kw \/ (kw.name = "WELPI" /\ zz.name = "Found"))
    BY <2>2, <2>3 DEF NamesIn
  <2>5. F[k] = Applied("scaled", F[k - 1], kw) /\ G[k] = Applied("unscaled", F[k - 1], zz)
    BY <1>1, <1>2, <2>1, <2>2, <2>3, <2>4 DEF AppliedOp
  <2>6. Applied("unscaled", F[k - 1], zz) = Applied("scaled", F[k - 1], kw)
    BY <2>1, <2>4, UnscaledApplied
  <2>7. IsView(F[k])
    BY <2>1, <2>5, AppliedIsView
  <2> QED
    BY <2>4, <2>5, <2>6, <2>7
<1>5. Len(e) \in T
  <2> HIDE DEF T
  <2> QED
    BY <1>3, <1>4, UpTo
<1> QED
  BY <1>1, <1>2, <1>5

-----------------------------------------------------------------------------
(* Histories that agree before a step tell the same up to it. *)
LEMMA TellingAgrees ==
  ASSUME NEW mode, NEW g, NEW h, NEW W, Telling(g, mode, W), NEW Z, Telling(h, mode, Z), NEW n \in Int,
         \A s \in Steps : s < n => g[s] = h[s]
  PROVE  \A s \in -1 .. LastStep : s < n => W[s] = Z[s]
<1>1. LastStep \in Nat /\ LastStep + 1 \in Nat
  BY StepsAssumption
<1> DEFINE T == {k \in 0 .. LastStep + 1 : k - 1 < n => W[k - 1] = Z[k - 1]}
<1>2. 0 \in T
  <2>1. 0 - 1 = -1 /\ W[-1] = Z[-1]
    BY DEF Telling
  <2> QED
    BY <1>1, <2>1
<1>3. ASSUME NEW k \in 1 .. LastStep + 1, k - 1 \in T PROVE k \in T
  <2> SUFFICES ASSUME k - 1 < n PROVE W[k - 1] = Z[k - 1]
    BY <1>1
  <2>1. PICK t \in Steps : t = k - 1
    BY <1>1 DEF Steps
  <2>2. t - 1 < n /\ t < n
    BY <2>1
  <2>3. W[t - 1] = Z[t - 1]
    BY <1>3, <2>1, <2>2
  <2>4. W[t] = Applying!Fold(mode, W[t - 1], g[t]) /\ Z[t] = Applying!Fold(mode, Z[t - 1], h[t]) /\ g[t] = h[t]
    BY <2>2 DEF Telling
  <2> QED
    BY <2>1, <2>3, <2>4
<1>4. \A k \in 0 .. LastStep + 1 : k \in T
  <2> HIDE DEF T
  <2> QED
    BY <1>1, <1>2, <1>3, UpTo
<1>5. ASSUME NEW s \in -1 .. LastStep, s < n PROVE W[s] = Z[s]
  <2>1. s + 1 \in 0 .. LastStep + 1 /\ (s + 1) - 1 = s
    BY <1>1
  <2>2. s + 1 \in T
    BY <1>4, <2>1
  <2> QED
    BY <1>5, <2>1, <2>2
<1> QED
  BY <1>5

(* h is g with some factors found. *)
WithFound(g, h) ==
  \A s \in Steps : /\ Len(h[s]) = Len(g[s])
                   /\ \A k \in 1 .. Len(g[s]) : \/ h[s][k] = g[s][k]
                                                \/ g[s][k].name = "WELPI" /\ h[s][k].name = "Found"

(* As long as none is found, telling without the scaling tells the same.   *)
LEMMA TellingUnscaled ==
  ASSUME NEW g, IsHistory(g), \A s \in Steps : "Found" \notin NamesIn(g[s]), NEW h, IsHistory(h), WithFound(g, h),
         NEW W, Telling(g, "scaled", W), NEW Z, Telling(h, "unscaled", Z)
  PROVE  \A s \in -1 .. LastStep : W[s] = Z[s]
<1>1. LastStep \in Nat /\ LastStep + 1 \in Nat
  BY StepsAssumption
<1> DEFINE T == {k \in 0 .. LastStep + 1 : W[k - 1] = Z[k - 1]}
<1>2. 0 \in T
  <2>1. 0 - 1 = -1 /\ W[-1] = Z[-1]
    BY DEF Telling
  <2> QED
    BY <1>1, <2>1
<1>3. ASSUME NEW k \in 1 .. LastStep + 1, k - 1 \in T PROVE k \in T
  <2>1. PICK t \in Steps : t = k - 1
    BY <1>1 DEF Steps
  <2>2. W[t - 1] = Z[t - 1] /\ t - 1 \in -1 .. LastStep
    BY <1>1, <1>3, <2>1 DEF Steps
  <2>3. W[t] = Applying!Fold("scaled", W[t - 1], g[t]) /\ Z[t] = Applying!Fold("unscaled", Z[t - 1], h[t])
    BY DEF Telling
  <2>4. IsView(W[t - 1])
    BY <2>2, TellingViews
  <2>5. g[t] \in Seq(EffectKeyword) /\ h[t] \in Seq(EffectKeyword) /\ "Found" \notin NamesIn(g[t])
    BY DEF IsHistory
  <2>6. /\ Len(h[t]) = Len(g[t])
        /\ \A l \in 1 .. Len(g[t]) : h[t][l] = g[t][l] \/ (g[t][l].name = "WELPI" /\ h[t][l].name = "Found")
    BY DEF WithFound
  <2>7. Applying!Fold("unscaled", W[t - 1], h[t]) = Applying!Fold("scaled", W[t - 1], g[t])
    BY <2>4, <2>5, <2>6, UnscaledRun
  <2>8. k \in 0 .. LastStep + 1
    BY <1>1
  <2> QED
    BY <2>1, <2>2, <2>3, <2>7, <2>8
<1>4. \A k \in 0 .. LastStep + 1 : k \in T
  <2> HIDE DEF T
  <2> QED
    BY <1>1, <1>2, <1>3, UpTo
<1>5. ASSUME NEW s \in -1 .. LastStep PROVE W[s] = Z[s]
  <2>1. s + 1 \in 0 .. LastStep + 1 /\ (s + 1) - 1 = s
    BY <1>1
  <2>2. s + 1 \in T
    BY <1>4, <2>1
  <2> QED
    BY <2>1, <2>2
<1> QED
  BY <1>5

(* Views that agree in all but their factors. *)
Alike(x, a) == Same(x, a) /\ \A cell \in DOMAIN x.v : x.v[cell].subject_to_welpi = a.v[cell].subject_to_welpi

(* Views that agree: relations among them. *)
LEMMA SameOn ==
  ASSUME NEW x, NEW y, NEW z
  PROVE  /\ Same(x, y) => Same(y, x)
         /\ Same(x, y) /\ Same(y, z) => Same(x, z)
         /\ IsView(x) => Same(x, x)
         /\ Alike(x, y) => Alike(y, x)
         /\ Alike(x, y) /\ Alike(y, z) => Alike(x, z)
         /\ IsView(x) => Alike(x, x)
  BY DEF Same, Alike

(* Only which connections are subject matters for a shift. *)
LEMMA ShiftedAlike ==
  ASSUME NEW p, NEW q, NEW a, NEW T, NEW B, NEW f, Shifted(p, q, a, T, B, f), NEW x, Alike(a, x)
  PROVE  Shifted(p, q, x, T, B, f)
  BY DEF Shifted, Alike, Same

(* Scaling leaves all but the factors alone. *)
LEMMA RescaledAlike ==
  ASSUME NEW c \in Lists, NEW d \in Lists, Rescaled(c, d)
  PROVE  Alike(View(c), View(d))
<1>1. /\ IsView(View(c)) /\ IsView(View(d)) /\ View(c).n = Len(c) /\ View(d).n = Len(d)
      /\ DOMAIN View(c).v = CellsOf(c) /\ DOMAIN View(d).v = CellsOf(d)
  BY ViewFacts
<1>2. DOMAIN d = DOMAIN c /\ Len(d) = Len(c)
  BY ListFacts DEF Rescaled
<1>3. \A i \in DOMAIN c : /\ d[i].cell = c[i].cell /\ d[i].complnum = c[i].complnum /\ d[i].state = c[i].state
                          /\ d[i].subject_to_welpi = c[i].subject_to_welpi
  BY DEF Rescaled, SameTasks, KeepPlaces
<1>4. CellsOf(d) = CellsOf(c)
  BY <1>2, <1>3 DEF CellsOf
<1>5. ASSUME NEW cell \in CellsOf(c)
      PROVE  /\ View(c).v[cell].complnum = View(d).v[cell].complnum
             /\ View(c).v[cell].state = View(d).v[cell].state
             /\ View(c).v[cell].subject_to_welpi = View(d).v[cell].subject_to_welpi
  <2>1. PICK i \in DOMAIN c : c[i].cell = cell /\ View(c).v[cell] = c[i]
    BY ViewFacts
  <2>2. i \in DOMAIN d /\ d[i].cell = cell /\ View(d).v[cell] = d[i]
    BY <1>2, <1>3, <2>1, ViewFacts
  <2> QED
    BY <1>3, <2>1, <2>2
<1> QED
  BY <1>1, <1>2, <1>4, <1>5 DEF Alike, Same

(* What no block says. *)
LEMMA BlockNames ==
  ASSUME NEW block \in Seq(BlockKeyword)
  PROVE  "Found" \notin NamesIn(Effects(block)) /\ "Fracture" \notin NamesIn(Effects(block))
<1>1. PICK z : z = [name |-> "Scale", factor |-> GlobalFactor(block)]
  OBVIOUS
<1>2. z.name = "Scale"
  BY <1>1
<1>3. PICK e : e = Effects(block)
  OBVIOUS
<1>4. e = block \o <<z>>
  BY <1>1, <1>3 DEF Effects
<1> HIDE <1>1, <1>3
<1>5. \A i \in DOMAIN e : (i \in 1 .. Len(block) /\ e[i] = block[i]) \/ e[i] = z
  BY <1>4
<1>6. \A kw \in BlockKeyword : kw.name # "Found" /\ kw.name # "Fracture"
  BY DEF BlockKeyword, DeckKeyword, ActionKeyword, Keyword
<1>7. \A i \in DOMAIN e : e[i].name # "Found" /\ e[i].name # "Fracture"
  BY <1>2, <1>5, <1>6
<1> QED
  BY <1>3, <1>7 DEF NamesIn

(* What a step of the deck says. *)
LEMMA DeckPlain ==
  ASSUME deck \in Decks, NEW s \in Steps
  PROVE  Plain(Effects(deck[s])) /\ (ScalesFirst(deck[s]) => Calm(Effects(deck[s])))
<1>1. deck[s] \in Seq(BlockKeyword) /\ "WELPIRuntime" \notin NamesIn(Effects(deck[s]))
  BY DeckFacts
<1>2. Plain(Effects(deck[s]))
  BY <1>1, BlockNames DEF Plain
<1>3. ASSUME ScalesFirst(deck[s]) PROVE Calm(Effects(deck[s]))
  <2>1. PICK block : block = deck[s]
    OBVIOUS
  <2>2. PICK z : z = [name |-> "Scale", factor |-> GlobalFactor(block)]
    OBVIOUS
  <2>3. z.name = "Scale"
    BY <2>2
  <2>4. PICK e : e = block \o <<z>>
    OBVIOUS
  <2>5. e = Effects(deck[s])
    BY <2>1, <2>2, <2>4 DEF Effects
  <2>6. block \in Seq(BlockKeyword)
    BY <1>1, <2>1
  <2> HIDE <2>1, <2>2
  <2>7. \A i \in DOMAIN e : (i \in DOMAIN block /\ e[i] = block[i]) \/ e[i] = z
    BY <2>4, <2>6
  <2>8. \A k, l \in DOMAIN block : k < l /\ block[k].name = "COMPDAT" => block[l].name # "WELPI"
    BY <1>3, <2>1 DEF ScalesFirst
  <2>9. ASSUME NEW l \in DOMAIN e, NEW m \in DOMAIN e, l < m, e[l].name = "COMPDAT" PROVE e[m].name # "WELPI"
    BY <2>3, <2>7, <2>8, <2>9
  <2>10. Calm(e)
    BY <2>9 DEF Calm
  <2> QED
    BY <2>5, <2>10
<1> QED
  BY <1>2, <1>3

-----------------------------------------------------------------------------
(***************************************************************************)
(* The invariant of the factors.  The code's connections are compared with *)
(* what is said of the steps, from the one that the simulator has done     *)
(* with on.  Of the steps after it, whose factors may yet be scaled,       *)
(* what matters is which connections are subject to scaling.               *)
(***************************************************************************)
WelpiSteps(d) == {s \in Steps : "WELPI" \in NamesIn(d[s])}

ExactFor(d, o, sk) ==
  /\ o = "INPUT" \/ WelpiSteps(d) = {}
  /\ \A s, t \in WelpiSteps(d) : s < t => ScalesFirst(d[t])
  /\ ~sk

OnceFor(d) == \A s, t \in WelpiSteps(d) : s = t

ScaledTale(g)   == Tale(g, TRUE)
UnscaledTale(g) == Tale(g, FALSE)

ViewAt(p, s) == View(ConnsAt(p, s))
Before(p, s) == IF s = 0 THEN Nothing ELSE ViewAt(p, s - 1)

(* The step is what the deck makes of the step before, but for factors.    *)
Flagged(d, p, s) ==
  \E a, b : Alike(Before(p, s), a) /\ Alike(ViewAt(p, s), b) /\ b = Applying!Fold("code", a, Effects(d[s]))

(* Factors are found for steps done with. *)
FoundInTime(d, m, g) == \A s \in Steps : "Found" \in NamesIn(g[s]) => s \in WelpiSteps(d) /\ s <= m

(* The steps to come. *)
Expected(d, o, p, m) ==
  \A s \in Steps : s > m =>
    /\ p.snapshots[s].welpi <=> s \in WelpiSteps(d)
    /\ s # 0 /\ o # "DEPTH" => KeepPlaces(ConnsAt(p, s - 1), ConnsAt(p, s))
    /\ Flagged(d, p, s)

(* The step done with and those to come are as W and Z tell. *)
Follows(p, m, W, Z) == \A s \in Steps : s >= m => Mixed(ViewAt(p, s), W[s], Z[s])

Flow(d, o, p, m, g, sk) ==
  /\ FoundInTime(d, m, g)
  /\ Expected(d, o, p, m)
  /\ ExactFor(d, o, sk) => Follows(p, m, ScaledTale(g), ScaledTale(g))
  /\ OnceFor(d) => Follows(p, m, ScaledTale(g), UnscaledTale(g))

(* The two tales of a history. *)
LEMMA TaleFacts ==
  ASSUME NEW g, IsHistory(g)
  PROVE  Telling(g, "scaled", ScaledTale(g)) /\ Telling(g, "unscaled", UnscaledTale(g))
<1>1. PICK yes \in BOOLEAN : yes = TRUE
  OBVIOUS
<1>2. PICK no \in BOOLEAN : no = FALSE
  OBVIOUS
<1>3. Mode(yes) = "scaled" /\ Mode(no) = "unscaled"
  BY <1>1, <1>2 DEF Mode
<1>4. Telling(g, Mode(yes), Tale(g, yes)) /\ Telling(g, Mode(no), Tale(g, no))
  BY SaidFacts
<1>5. Tale(g, yes) = ScaledTale(g)
  BY ONLY <1>1, Zenon DEF ScaledTale
<1>6. Tale(g, no) = UnscaledTale(g)
  BY ONLY <1>2, Zenon DEF UnscaledTale
<1> QED
  BY <1>3, <1>4, <1>5, <1>6

(* The views of a timeline. *)
LEMMA TimelineViews ==
  ASSUME NEW p, IsTimeline(p), NEW s \in Steps
  PROVE  ConnsAt(p, s) \in Lists /\ IsView(ViewAt(p, s))
<1>1. ConnsAt(p, s) \in Lists
  BY DEF IsTimeline, ConnsAt
<1> QED
  BY <1>1, ViewFacts DEF ViewAt

(* None is a view. *)
LEMMA NothingIsView == IsView(Nothing) /\ View(<< >>) = Nothing
<1>1. << >> \in Lists
  BY DEF Lists
<1> QED
  BY <1>1, ViewFacts DEF Nothing

(* Steps built on one that is as told are as told. *)
LEMMA FollowsBuilt ==
  ASSUME deck \in Decks, NEW q, IsTimeline(q), NEW n \in Steps, \A s \in n + 1 .. LastStep : Built(q, s),
         NEW e, \A s \in Steps : s > n => e[s] = Effects(deck[s]),
         NEW m1, NEW W, Telling(e, m1, W), NEW m2, NEW Z, Telling(e, m2, Z), Mixed(ViewAt(q, n), W[n], Z[n])
  PROVE  Follows(q, n, W, Z)
<1>1. n \in Nat /\ LastStep \in Nat /\ LastStep - n \in Nat /\ n + 0 = n /\ 0 \in 0 .. LastStep - n
      /\ \A k \in 1 .. LastStep - n : n + k \in n + 1 .. LastStep /\ n + k \in Steps /\ n + k > n
                                      /\ (n + k) - 1 = n + (k - 1) /\ k \in 0 .. LastStep - n
  BY StepsAssumption DEF Steps
<1> DEFINE T == {k \in 0 .. LastStep - n : Mixed(ViewAt(q, n + k), W[n + k], Z[n + k])}
<1>2. 0 \in T
  BY <1>1
<1>3. ASSUME NEW k \in 1 .. LastStep - n, k - 1 \in T PROVE k \in T
  <2>1. PICK s : s = n + k
    OBVIOUS
  <2>2. s \in n + 1 .. LastStep /\ s \in Steps /\ s > n /\ s - 1 = n + (k - 1)
    BY <1>1, <2>1
  <2>3. Mixed(ViewAt(q, s - 1), W[s - 1], Z[s - 1])
    BY <1>3, <2>2
  <2>4. /\ e[s] = Effects(deck[s]) /\ e[s] \in Seq(EffectKeyword) /\ "Found" \notin NamesIn(e[s])
    BY <2>2, DeckFacts
  <2>5. W[s] = Applying!Fold(m1, W[s - 1], e[s]) /\ Z[s] = Applying!Fold(m2, Z[s - 1], e[s])
    BY <2>2 DEF Telling
  <2>6. ViewAt(q, s) = Applying!Fold("code", ViewAt(q, s - 1), e[s])
    BY <2>2, <2>4 DEF Built, ViewAt
  <2>7. Mixed(ViewAt(q, s), W[s], Z[s])
    BY <2>3, <2>4, <2>5, <2>6, MixedRun
  <2> QED
    BY <1>1, <2>1, <2>7
<1>4. \A k \in 0 .. LastStep - n : k \in T
  <2> HIDE DEF T
  <2> QED
    BY <1>1, <1>2, <1>3, UpTo
<1>5. ASSUME NEW s \in Steps, s >= n PROVE Mixed(ViewAt(q, s), W[s], Z[s])
  <2>1. s - n \in 0 .. LastStep - n /\ n + (s - n) = s
    BY <1>1, <1>5 DEF Steps
  <2>2. s - n \in T
    BY <1>4, <2>1
  <2> QED
    BY <2>1, <2>2
<1> QED
  BY <1>5 DEF Follows

(* Steps built are what the deck makes of those before. *)
LEMMA ExpectedBuilt ==
  ASSUME deck \in Decks, NEW q, IsTimeline(q), NEW n \in Steps, \A s \in n + 1 .. LastStep : Built(q, s)
  PROVE  Expected(deck, ordering, q, n)
<1> SUFFICES ASSUME NEW s \in Steps, s > n
             PROVE  /\ q.snapshots[s].welpi <=> s \in WelpiSteps(deck)
                    /\ s # 0 /\ ordering # "DEPTH" => KeepPlaces(ConnsAt(q, s - 1), ConnsAt(q, s))
                    /\ Flagged(deck, q, s)
  BY DEF Expected
<1>1. s \in n + 1 .. LastStep /\ s # 0 /\ s - 1 \in Steps
  BY StepsAssumption DEF Steps
<1>2. Built(q, s)
  BY <1>1
<1>3. "WELPI" \in NamesIn(Effects(deck[s])) <=> s \in WelpiSteps(deck)
  BY DeckFacts DEF ScalingSteps, WelpiSteps
<1>4. IsView(ViewAt(q, s)) /\ IsView(ViewAt(q, s - 1))
  BY <1>1, TimelineViews
<1>5. Before(q, s) = ViewAt(q, s - 1)
  BY <1>1 DEF Before
<1>6. Alike(Before(q, s), ViewAt(q, s - 1)) /\ Alike(ViewAt(q, s), ViewAt(q, s))
  BY <1>4, <1>5, SameOn
<1>7. ViewAt(q, s) = Applying!Fold("code", ViewAt(q, s - 1), Effects(deck[s]))
  BY <1>2 DEF Built, ViewAt
<1>8. Flagged(deck, q, s)
  BY <1>6, <1>7 DEF Flagged
<1> QED
  BY <1>2, <1>3, <1>8 DEF Built

(* Steps built on one that is as told. *)
LEMMA FlowBuilt ==
  ASSUME deck \in Decks, NEW q, IsTimeline(q), NEW n \in Steps, \A s \in n + 1 .. LastStep : Built(q, s),
         NEW e, IsHistory(e), \A s \in Steps : s > n => e[s] = Effects(deck[s]),
         FoundInTime(deck, n, e), NEW sk,
         ExactFor(deck, ordering, sk) => Mixed(ViewAt(q, n), ScaledTale(e)[n], ScaledTale(e)[n]),
         OnceFor(deck) => Mixed(ViewAt(q, n), ScaledTale(e)[n], UnscaledTale(e)[n])
  PROVE  Flow(deck, ordering, q, n, e, sk)
<1>1. Telling(e, "scaled", ScaledTale(e)) /\ Telling(e, "unscaled", UnscaledTale(e))
  BY TaleFacts
<1>2. PICK W, Z : W = ScaledTale(e) /\ Z = UnscaledTale(e)
  OBVIOUS
<1>3. Telling(e, "scaled", W) /\ Telling(e, "unscaled", Z)
  BY <1>1, <1>2
<1>4. Mixed(ViewAt(q, n), W[n], W[n]) => Follows(q, n, W, W)
  BY <1>3, FollowsBuilt
<1>5. Mixed(ViewAt(q, n), W[n], Z[n]) => Follows(q, n, W, Z)
  BY <1>3, FollowsBuilt
<1>6. Expected(deck, ordering, q, n)
  BY ExpectedBuilt
<1> QED
  BY ONLY <1>2, <1>4, <1>5, <1>6, FoundInTime(deck, n, e),
     ExactFor(deck, ordering, sk) => Mixed(ViewAt(q, n), ScaledTale(e)[n], ScaledTale(e)[n]),
     OnceFor(deck) => Mixed(ViewAt(q, n), ScaledTale(e)[n], UnscaledTale(e)[n]) DEF Flow

(* What is done at the step reached is told after what was done before. *)
LEMMA TellingJoined ==
  ASSUME NEW mode, NEW g, IsHistory(g), NEW W, Telling(g, mode, W), NEW e, NEW Z, Telling(e, mode, Z), NEW n \in Steps,
         \A s \in Steps : s # n => e[s] = g[s], NEW h \in Seq(EffectKeyword), e[n] = g[n] \o h
  PROVE  Z[n] = Applying!Fold(mode, W[n], h)
<1>1. n \in Int /\ n - 1 \in -1 .. LastStep /\ n - 1 < n /\ \A s \in Steps : s < n => s # n
  BY StepsAssumption DEF Steps
<1>2. \A s \in Steps : s < n => g[s] = e[s]
  BY <1>1
<1>3. W[n - 1] = Z[n - 1]
  <2>1. PICK j \in Int : j = n
    BY <1>1
  <2>2. \A s \in Steps : s < j => g[s] = e[s]
    BY <1>2, <2>1
  <2>3. \A s \in -1 .. LastStep : s < j => W[s] = Z[s]
    BY <2>2, TellingAgrees
  <2> QED
    BY <1>1, <2>1, <2>3
<1>4. W[n] = Applying!Fold(mode, W[n - 1], g[n]) /\ Z[n] = Applying!Fold(mode, Z[n - 1], e[n])
  BY DEF Telling
<1>5. g[n] \in Seq(EffectKeyword)
  BY DEF IsHistory
<1>6. Applying!Fold(mode, W[n - 1], g[n] \o h) = Applying!Fold(mode, Applying!Fold(mode, W[n - 1], g[n]), h)
  BY <1>5, RunJoined
<1> QED
  BY <1>3, <1>4, <1>6

(* Something done at the step reached, and the replay of those after it. *)
LEMMA FlowChanged ==
  ASSUME deck \in Decks, NEW p, NEW n \in Steps, NEW g, IsHistory(g), NEW sk, Flow(deck, ordering, p, n, g, sk),
         NEW q, IsTimeline(q), \A s \in n + 1 .. LastStep : Built(q, s),
         NEW h \in Seq(EffectKeyword), "Found" \notin NamesIn(h),
         ViewAt(q, n) = Applying!Fold("code", ViewAt(p, n), h),
         NEW e, IsHistory(e), \A s \in Steps : s > n => e[s] = Effects(deck[s]),
         \A s \in Steps : s # n => e[s] = g[s], e[n] = g[n] \o h
  PROVE  Flow(deck, ordering, q, n, e, sk)
<1>1. FoundInTime(deck, n, e)
  <2> SUFFICES ASSUME NEW s \in Steps, "Found" \in NamesIn(e[s]) PROVE s \in WelpiSteps(deck) /\ s <= n
    BY DEF FoundInTime
  <2>1. NamesIn(g[n] \o h) = NamesIn(g[n]) \cup NamesIn(h)
    BY JoinedFacts DEF IsHistory
  <2>2. "Found" \in NamesIn(g[s])
    BY <2>1
  <2> QED
    BY <2>2 DEF Flow, FoundInTime
<1>2. n >= n
  BY StepsAssumption DEF Steps
<1>3. /\ Telling(e, "scaled", ScaledTale(e)) /\ Telling(e, "unscaled", UnscaledTale(e))
      /\ Telling(g, "scaled", ScaledTale(g)) /\ Telling(g, "unscaled", UnscaledTale(g))
  BY TaleFacts
<1>4. /\ ScaledTale(e)[n] = Applying!Fold("scaled", ScaledTale(g)[n], h)
      /\ UnscaledTale(e)[n] = Applying!Fold("unscaled", UnscaledTale(g)[n], h)
  BY <1>3, TellingJoined
<1>5. ExactFor(deck, ordering, sk) => Mixed(ViewAt(q, n), ScaledTale(e)[n], ScaledTale(e)[n])
  <2> SUFFICES ASSUME ExactFor(deck, ordering, sk) PROVE Mixed(ViewAt(q, n), ScaledTale(e)[n], ScaledTale(e)[n])
    OBVIOUS
  <2>1. Mixed(ViewAt(p, n), ScaledTale(g)[n], ScaledTale(g)[n])
    BY <1>2 DEF Flow, Follows
  <2> QED
    BY <1>4, <2>1, MixedRun
<1>6. OnceFor(deck) => Mixed(ViewAt(q, n), ScaledTale(e)[n], UnscaledTale(e)[n])
  <2> SUFFICES ASSUME OnceFor(deck) PROVE Mixed(ViewAt(q, n), ScaledTale(e)[n], UnscaledTale(e)[n])
    OBVIOUS
  <2>1. Mixed(ViewAt(p, n), ScaledTale(g)[n], UnscaledTale(g)[n])
    BY <1>2 DEF Flow, Follows
  <2> QED
    BY <1>4, <2>1, MixedRun
<1> QED
  BY <1>1, <1>5, <1>6, FlowBuilt

(* The replay leaves the step reached as it is. *)
LEMMA ReplayedHere ==
  ASSUME NEW r, IsTimeline(r), NEW n \in Steps, NEW q, Replayed(r, n + 1, q)
  PROVE  ConnsAt(q, n) = ConnsAt(r, n) /\ ViewAt(q, n) = ViewAt(r, n) /\ q.snapshots[n] = r.snapshots[n]
<1>1. n < n + 1 /\ NameAt(r, n) \in Steps /\ NameAt(r, n) < n + 1
  BY DEF IsTimeline, Steps
<1>2. q.snapshots[n] = r.snapshots[n] /\ q.objects[NameAt(r, n)] = r.objects[NameAt(r, n)]
  BY <1>1 DEF Replayed
<1>3. NameAt(q, n) = NameAt(r, n)
  BY <1>2 DEF NameAt
<1> QED
  BY <1>2, <1>3 DEF ConnsAt, ViewAt

(* An action. *)
LEMMA FlowBlock ==
  ASSUME deck \in Decks, NEW p, IsTimeline(p), NEW n \in Steps, NEW g, IsHistory(g), NEW sk,
         Flow(deck, ordering, p, n, g, sk),
         NEW block \in Seq(BlockKeyword), NEW q, q = iterateScheduleSection(handleBlock(p, n, block), n + 1),
         NEW e, IsHistory(e), \A s \in Steps : s > n => e[s] = Effects(deck[s]),
         \A s \in Steps : s # n => e[s] = g[s], e[n] = g[n] \o Effects(block)
  PROVE  Flow(deck, ordering, q, n, e, sk)
<1>1. PICK r : r = handleBlock(p, n, block)
  OBVIOUS
<1>2. BlockDone(p, n, Effects(block), r) /\ Effects(block) \in Seq(EffectKeyword)
  BY <1>1, BlockFacts
<1>3. IsTimeline(r) /\ n + 1 \in 1 .. LastStep + 1
  BY <1>2, StepsAssumption DEF BlockDone, Steps
<1>4. Replayed(r, n + 1, q)
  BY <1>1, <1>3, ReplayFacts
<1>5. ViewAt(q, n) = Applying!Fold("code", ViewAt(p, n), Effects(block))
  <2>1. ViewAt(q, n) = ViewAt(r, n)
    BY <1>3, <1>4, ReplayedHere
  <2> QED
    BY <1>2, <2>1 DEF BlockDone, ViewAt
<1>6. "Found" \notin NamesIn(Effects(block))
  BY BlockNames
<1>7. IsTimeline(q) /\ \A s \in n + 1 .. LastStep : Built(q, s)
  BY <1>4 DEF Replayed
<1> QED
  BY <1>2, <1>5, <1>6, <1>7, FlowChanged

(* A fracture. *)
LEMMA FlowFracture ==
  ASSUME deck \in Decks, NEW p, IsTimeline(p), NEW n \in Steps, NEW g, IsHistory(g), NEW sk,
         Flow(deck, ordering, p, n, g, sk),
         NEW new \in Seq(NewFracture), NEW r, IsTimeline(r), View(ConnsAt(r, n)) = GrowingView!Fold(<< >>, ViewAt(p, n), new),
         NEW q, q = iterateScheduleSection(r, n + 1),
         NEW kw \in EffectKeyword, kw.name = "Fracture", kw.connections = new,
         NEW e, IsHistory(e), \A s \in Steps : s > n => e[s] = Effects(deck[s]),
         \A s \in Steps : s # n => e[s] = g[s], e[n] = g[n] \o <<kw>>
  PROVE  Flow(deck, ordering, q, n, e, sk)
<1>1. n + 1 \in 1 .. LastStep + 1
  BY StepsAssumption DEF Steps
<1>2. Replayed(r, n + 1, q)
  BY <1>1, ReplayFacts
<1>3. IsTimeline(q) /\ \A s \in n + 1 .. LastStep : Built(q, s)
  BY <1>2 DEF Replayed
<1>4. PICK h : h = <<kw>>
  OBVIOUS
<1>5. h \in Seq(EffectKeyword) /\ Len(h) = 1 /\ h[1] = kw
  BY <1>4
<1>6. "Found" \notin NamesIn(h)
  BY <1>4 DEF NamesIn
<1>7. Applying!Fold("code", ViewAt(p, n), h) = Applied("code", ViewAt(p, n), kw)
  <2>1. PICK F : /\ F[0] = ViewAt(p, n)
                 /\ \A k \in 1 .. Len(h) : F[k] = AppliedOp("code", F[k - 1], h[k])
                 /\ Applying!Fold("code", ViewAt(p, n), h) = F[Len(h)]
    BY <1>5, Applying!FoldRuns
  <2>2. 1 \in 1 .. Len(h) /\ 1 - 1 = 0
    BY <1>5
  <2>3. F[1] = AppliedOp("code", F[0], h[1])
    BY <2>1, <2>2
  <2> QED
    BY <1>5, <2>1, <2>3 DEF AppliedOp
<1>8. ViewAt(q, n) = Applying!Fold("code", ViewAt(p, n), h)
  <2>1. ViewAt(q, n) = View(ConnsAt(r, n))
    BY <1>2, ReplayedHere DEF ViewAt
  <2>2. Applied("code", ViewAt(p, n), kw) = GrowingView!Fold(<< >>, ViewAt(p, n), new)
    BY DEF Applied
  <2> QED
    BY <1>7, <2>1, <2>2
<1>9. e[n] = g[n] \o h
  BY <1>4
<1> QED
  BY <1>3, <1>5, <1>6, <1>8, <1>9, FlowChanged

(* The deck has been read. *)
LEMMA FlowConstructed ==
  ASSUME deck \in Decks, NEW p, IsTimeline(p), ConnsAt(p, 0) = << >>, ~p.snapshots[0].welpi,
         NEW g, IsHistory(g), \A s \in Steps : g[s] = Effects(deck[s]),
         NEW q, q = iterateScheduleSection(handleBlock(p, 0, deck[0]), 1), NEW sk
  PROVE  Flow(deck, ordering, q, -1, g, sk)
<1>1. 0 \in Steps /\ 0 + 1 = 1 /\ 1 \in 1 .. LastStep + 1 /\ 0 > -1 /\ 0 - 1 = -1
      /\ \A s \in Steps : s >= 0 /\ s \in Int /\ (s = 0 \/ s > 0)
  BY StepsAssumption DEF Steps
<1>2. PICK r : r = handleBlock(p, 0, deck[0])
  OBVIOUS
<1>3. deck[0] \in Seq(BlockKeyword) /\ Effects(deck[0]) \in Seq(EffectKeyword)
  BY <1>1, DeckFacts
<1>4. BlockDone(p, 0, Effects(deck[0]), r)
  BY <1>1, <1>2, <1>3, BlockFacts
<1>5. IsTimeline(r)
  BY <1>4 DEF BlockDone
<1>6. Replayed(r, 1, q)
  BY <1>1, <1>2, <1>5, ReplayFacts
<1>7. IsTimeline(q) /\ \A s \in 0 + 1 .. LastStep : Built(q, s)
  BY <1>1, <1>6 DEF Replayed
<1>8. /\ ConnsAt(q, 0) = ConnsAt(r, 0) /\ ViewAt(q, 0) = ViewAt(r, 0) /\ q.snapshots[0] = r.snapshots[0]
  BY <1>1, <1>5, <1>6, ReplayedHere
<1>9. ViewAt(q, 0) = Applying!Fold("code", Nothing, Effects(deck[0]))
  BY <1>4, <1>8, NothingIsView DEF BlockDone, ViewAt
<1>10. q.snapshots[0].welpi <=> 0 \in WelpiSteps(deck)
  <2>1. "WELPI" \in NamesIn(Effects(deck[0])) <=> 0 \in WelpiSteps(deck)
    BY <1>1, DeckFacts DEF ScalingSteps, WelpiSteps
  <2> QED
    BY <1>4, <1>8, <2>1 DEF BlockDone
<1>11. \A s \in Steps : "Found" \notin NamesIn(g[s])
  BY DeckFacts
<1>12. FoundInTime(deck, 0, g) /\ FoundInTime(deck, -1, g)
  BY <1>11 DEF FoundInTime
<1>13. Flagged(deck, q, 0)
  <2>1. Before(q, 0) = Nothing
    BY DEF Before
  <2>2. IsView(ViewAt(q, 0))
    BY <1>1, <1>7, TimelineViews
  <2>3. Alike(Before(q, 0), Nothing) /\ Alike(ViewAt(q, 0), ViewAt(q, 0))
    BY <2>1, <2>2, NothingIsView, SameOn
  <2> QED
    BY <1>9, <2>3 DEF Flagged
<1>14. /\ Mixed(ViewAt(q, 0), ScaledTale(g)[0], ScaledTale(g)[0])
       /\ Mixed(ViewAt(q, 0), ScaledTale(g)[0], UnscaledTale(g)[0])
  <2>1. Mixed(Nothing, Nothing, Nothing)
    BY NothingIsView DEF Mixed, Same
  <2>2. /\ Telling(g, "scaled", ScaledTale(g)) /\ Telling(g, "unscaled", UnscaledTale(g))
    BY TaleFacts
  <2>3. g[0] \in Seq(EffectKeyword) /\ "Found" \notin NamesIn(g[0]) /\ g[0] = Effects(deck[0])
    BY <1>1, <1>3, <1>11
  <2>4. /\ ScaledTale(g)[0] = Applying!Fold("scaled", Nothing, g[0])
        /\ UnscaledTale(g)[0] = Applying!Fold("unscaled", Nothing, g[0])
    BY <1>1, <2>2 DEF Telling
  <2> QED
    BY <1>9, <2>1, <2>3, <2>4, MixedRun
<1>15. Flow(deck, ordering, q, 0, g, sk)
  <2>1. \A s \in Steps : s > 0 => g[s] = Effects(deck[s])
    OBVIOUS
  <2> QED
    BY <1>1, <1>7, <1>12, <1>14, <2>1, FlowBuilt
<1>16. Expected(deck, ordering, q, -1)
  <2>1. Expected(deck, ordering, q, 0)
    BY <1>15 DEF Flow
  <2> SUFFICES ASSUME NEW s \in Steps
               PROVE  /\ q.snapshots[s].welpi <=> s \in WelpiSteps(deck)
                      /\ s # 0 /\ ordering # "DEPTH" => KeepPlaces(ConnsAt(q, s - 1), ConnsAt(q, s))
                      /\ Flagged(deck, q, s)
    BY DEF Expected
  <2>2. CASE s = 0
    BY <1>10, <1>13, <2>2
  <2>3. CASE s # 0
    BY <1>1, <2>1, <2>3 DEF Expected
  <2> QED
    BY <2>2, <2>3
<1>17. \A W, Z : Follows(q, 0, W, Z) => Follows(q, -1, W, Z)
  BY <1>1 DEF Follows
<1> QED
  BY <1>12, <1>15, <1>16, <1>17 DEF Flow

(* The step is started without a scaling. *)
LEMMA FlowStarted ==
  ASSUME NEW d, NEW o, NEW p, NEW n \in Steps, NEW g, NEW sk, Flow(d, o, p, n - 1, g, sk)
  PROVE  Flow(d, o, p, n, g, sk)
<1>1. n \in Int /\ \A s \in Steps : s \in Int
  BY StepsAssumption DEF Steps
<1>2. \A s \in Steps : (s > n => s > n - 1) /\ (s >= n => s >= n - 1) /\ (s <= n - 1 => s <= n)
  BY <1>1
<1>3. FoundInTime(d, n, g) /\ Expected(d, o, p, n)
  BY <1>2 DEF Flow, FoundInTime, Expected
<1>4. \A W, Z : Follows(p, n - 1, W, Z) => Follows(p, n, W, Z)
  BY <1>2 DEF Follows
<1> QED
  BY <1>3, <1>4 DEF Flow

-----------------------------------------------------------------------------
(***************************************************************************)
(* The scaling, along the steps from the one whose factor is found.        *)
(***************************************************************************)
(* The cells whose connections have stayed subject since step n. *)
Kept(p, n, s) ==
  {cell \in DOMAIN ViewAt(p, s).v :
     \A t \in n .. s : cell \in DOMAIN ViewAt(p, t).v => ViewAt(p, t).v[cell].subject_to_welpi}

(* From step n on W has no scaling and Z the scaling found. *)
Handed(p, n, W, Z) ==
  \A s \in n + 1 .. LastStep : /\ W[s] = Applying!Fold("scaled", W[s - 1], Effects(deck[s]))
                               /\ Z[s] = Applying!Fold("scaled", Z[s - 1], Effects(deck[s]))
                               /\ Flagged(deck, p, s)

(* One step further. *)
LEMMA HandedOn ==
  ASSUME deck \in Decks, NEW p, NEW n \in Steps, NEW W, NEW Z, Handed(p, n, W, Z), NEW s \in n + 1 .. LastStep,
         NEW f \in Int, NEW T, NEW B, Shifted(W[s - 1], Z[s - 1], ViewAt(p, s - 1), T, B, f),
         s \notin WelpiSteps(deck) \/ (Settled(ViewAt(p, s - 1), T, B) /\ ScalesFirst(deck[s]))
  PROVE  Shifted(W[s], Z[s], ViewAt(p, s), T, B, f)
<1>1. s \in Steps /\ s # 0
  BY StepsAssumption DEF Steps
<1>2. /\ Effects(deck[s]) \in Seq(EffectKeyword) /\ Plain(Effects(deck[s]))
      /\ ScalesFirst(deck[s]) => Calm(Effects(deck[s]))
      /\ "WELPI" \in NamesIn(Effects(deck[s])) <=> s \in WelpiSteps(deck)
  BY <1>1, DeckFacts, DeckPlain DEF ScalingSteps, WelpiSteps
<1>3. PICK a, b : Alike(ViewAt(p, s - 1), a) /\ Alike(ViewAt(p, s), b)
                  /\ b = Applying!Fold("code", a, Effects(deck[s]))
  BY <1>1 DEF Handed, Flagged, Before
<1>4. Shifted(W[s - 1], Z[s - 1], a, T, B, f)
  BY <1>3, ShiftedAlike
<1>5. Settled(ViewAt(p, s - 1), T, B) => Settled(a, T, B)
  BY <1>3 DEF Settled, Alike, Same
<1>6. "WELPI" \notin NamesIn(Effects(deck[s])) \/ (Settled(a, T, B) /\ Calm(Effects(deck[s])))
  BY <1>2, <1>5
<1>7. Shifted(W[s], Z[s], b, T, B, f)
  BY <1>2, <1>4, <1>6, <1>3, ShiftedBlock DEF Handed
<1>8. Alike(b, ViewAt(p, s))
  BY <1>3, SameOn
<1> QED
  BY <1>7, <1>8, ShiftedAlike

(* Only one step scales: what was subject at step n is scaled as long as   *)
(* it stays so.                                                            *)
LEMMA HandedOnce ==
  ASSUME deck \in Decks, NEW p, NEW n \in Steps, NEW W, NEW Z, Handed(p, n, W, Z),
         n \in WelpiSteps(deck), OnceFor(deck),
         NEW f \in Int, NEW T, Shifted(W[n], Z[n], ViewAt(p, n), T, T, f)
  PROVE  \A s \in Steps : s >= n => Shifted(W[s], Z[s], ViewAt(p, s), T, T, f)
<1>1. n \in Nat /\ LastStep \in Nat /\ LastStep - n \in Nat /\ n + 0 = n /\ 0 \in 0 .. LastStep - n
      /\ \A k \in 1 .. LastStep - n : n + k \in n + 1 .. LastStep /\ n + k \in Steps /\ n + k # n
                                      /\ (n + k) - 1 = n + (k - 1) /\ k \in 0 .. LastStep - n
  BY StepsAssumption DEF Steps
<1> DEFINE D == {k \in 0 .. LastStep - n : Shifted(W[n + k], Z[n + k], ViewAt(p, n + k), T, T, f)}
<1>2. 0 \in D
  BY <1>1
<1>3. ASSUME NEW k \in 1 .. LastStep - n, k - 1 \in D PROVE k \in D
  <2>1. PICK s : s = n + k
    OBVIOUS
  <2>2. s \in n + 1 .. LastStep /\ s \in Steps /\ s # n /\ s - 1 = n + (k - 1)
    BY <1>1, <2>1
  <2>3. Shifted(W[s - 1], Z[s - 1], ViewAt(p, s - 1), T, T, f)
    BY <1>3, <2>2
  <2>4. s \notin WelpiSteps(deck)
    BY <2>2 DEF OnceFor
  <2>5. Shifted(W[s], Z[s], ViewAt(p, s), T, T, f)
    BY <2>2, <2>3, <2>4, HandedOn
  <2> QED
    BY <1>1, <2>1, <2>5
<1>4. \A k \in 0 .. LastStep - n : k \in D
  <2> HIDE DEF D
  <2> QED
    BY <1>1, <1>2, <1>3, UpTo
<1>5. ASSUME NEW s \in Steps, s >= n PROVE Shifted(W[s], Z[s], ViewAt(p, s), T, T, f)
  <2>1. s - n \in 0 .. LastStep - n /\ n + (s - n) = s
    BY <1>1, <1>5 DEF Steps
  <2>2. s - n \in D
    BY <1>4, <2>1
  <2> QED
    BY <2>1, <2>2
<1> QED
  BY <1>5

(* What is kept at a step was kept at the one before. *)
LEMMA KeptOn ==
  ASSUME NEW p, NEW n \in Steps, NEW s \in n + 1 .. LastStep, NEW cell, cell \in DOMAIN ViewAt(p, s).v
  PROVE  /\ cell \in Kept(p, n, s) => ViewAt(p, s).v[cell].subject_to_welpi
         /\ cell \in Kept(p, n, s) /\ cell \in DOMAIN ViewAt(p, s - 1).v => cell \in Kept(p, n, s - 1)
         /\ cell \in Kept(p, n, s - 1) /\ ViewAt(p, s).v[cell].subject_to_welpi => cell \in Kept(p, n, s)
<1>1. s \in n .. s /\ \A t \in n .. s - 1 : t \in n .. s
  BY StepsAssumption DEF Steps
<1>2. \A t \in n .. s : t = s \/ t \in n .. s - 1
  BY StepsAssumption DEF Steps
<1>3. cell \in Kept(p, n, s) => ViewAt(p, s).v[cell].subject_to_welpi
  BY <1>1 DEF Kept
<1>4. cell \in Kept(p, n, s) /\ cell \in DOMAIN ViewAt(p, s - 1).v => cell \in Kept(p, n, s - 1)
  BY <1>1 DEF Kept
<1>5. cell \in Kept(p, n, s - 1) /\ ViewAt(p, s).v[cell].subject_to_welpi => cell \in Kept(p, n, s)
  BY <1>2 DEF Kept
<1> QED
  BY <1>3, <1>4, <1>5

(* What is kept at step s - 1, and subject at s, is kept at s. *)
LEMMA ShiftedKept ==
  ASSUME NEW p, NEW n \in Steps, NEW s \in n + 1 .. LastStep, NEW x, NEW y, NEW f,
         Shifted(x, y, ViewAt(p, s), Kept(p, n, s - 1), DOMAIN ViewAt(p, s - 1).v, f)
  PROVE  Shifted(x, y, ViewAt(p, s), Kept(p, n, s), DOMAIN ViewAt(p, s).v, f)
<1>1. ASSUME NEW cell \in DOMAIN x.v
      PROVE  cell \in Kept(p, n, s - 1) /\ ViewAt(p, s).v[cell].subject_to_welpi
               <=> cell \in Kept(p, n, s) /\ ViewAt(p, s).v[cell].subject_to_welpi
  <2>1. cell \in DOMAIN ViewAt(p, s).v
    BY DEF Shifted
  <2>2. ViewAt(p, s).v[cell].subject_to_welpi => cell \in DOMAIN ViewAt(p, s - 1).v
    BY <2>1 DEF Shifted
  <2> QED
    BY <2>1, <2>2, KeptOn
<1> QED
  BY <1>1 DEF Shifted

(* Any number of steps scales: what has stayed subject since step n is     *)
(* scaled.                                                                 *)
LEMMA HandedExactly ==
  ASSUME deck \in Decks, NEW p, NEW n \in Steps, NEW W, NEW Z, Handed(p, n, W, Z),
         n \in WelpiSteps(deck), \A s, t \in WelpiSteps(deck) : s < t => ScalesFirst(deck[t]),
         NEW f \in Int, NEW T, Shifted(W[n], Z[n], ViewAt(p, n), T, T, f)
  PROVE  \A s \in Steps : s >= n => Shifted(W[s], Z[s], ViewAt(p, s), Kept(p, n, s), DOMAIN ViewAt(p, s).v, f)
<1>1. n \in Nat /\ LastStep \in Nat /\ LastStep - n \in Nat /\ n + 0 = n /\ 0 \in 0 .. LastStep - n /\ n .. n = {n}
      /\ \A k \in 1 .. LastStep - n : n + k \in n + 1 .. LastStep /\ n + k \in Steps /\ n < n + k
                                      /\ (n + k) - 1 = n + (k - 1) /\ k \in 0 .. LastStep - n
  BY StepsAssumption DEF Steps
<1> DEFINE G(s) == Shifted(W[s], Z[s], ViewAt(p, s), Kept(p, n, s), DOMAIN ViewAt(p, s).v, f)
           D    == {k \in 0 .. LastStep - n : G(n + k)}
<1>2. G(n)
  <2>1. ASSUME NEW cell \in DOMAIN W[n].v
        PROVE  cell \in T /\ ViewAt(p, n).v[cell].subject_to_welpi
                 <=> cell \in Kept(p, n, n) /\ ViewAt(p, n).v[cell].subject_to_welpi
    <3>1. cell \in DOMAIN ViewAt(p, n).v
      BY DEF Shifted
    <3>2. ViewAt(p, n).v[cell].subject_to_welpi => cell \in T
      BY <3>1 DEF Shifted
    <3>3. ViewAt(p, n).v[cell].subject_to_welpi => cell \in Kept(p, n, n)
      BY <1>1, <3>1 DEF Kept
    <3> QED
      BY <3>2, <3>3
  <2> QED
    BY <2>1 DEF Shifted
<1>3. 0 \in D
  BY <1>1, <1>2
<1>4. ASSUME NEW k \in 1 .. LastStep - n, k - 1 \in D PROVE k \in D
  <2>1. PICK s : s = n + k
    OBVIOUS
  <2>2. s \in n + 1 .. LastStep /\ s \in Steps /\ n < s /\ s - 1 = n + (k - 1)
    BY <1>1, <2>1
  <2>3. G(s - 1)
    BY <1>4, <2>2
  <2>4. s \in WelpiSteps(deck) => ScalesFirst(deck[s])
    BY <2>2
  <2>5. Settled(ViewAt(p, s - 1), Kept(p, n, s - 1), DOMAIN ViewAt(p, s - 1).v)
    <3>1. s - 1 \in n .. s - 1
      BY <1>1, <2>2
    <3> QED
      BY <3>1 DEF Settled, Kept
  <2>6. Shifted(W[s], Z[s], ViewAt(p, s), Kept(p, n, s - 1), DOMAIN ViewAt(p, s - 1).v, f)
    BY <2>2, <2>3, <2>4, <2>5, HandedOn
  <2>7. G(s)
    BY <2>2, <2>6, ShiftedKept
  <2> QED
    BY <1>1, <2>1, <2>7
<1>5. \A k \in 0 .. LastStep - n : k \in D
  <2> HIDE DEF D
  <2> QED
    BY <1>1, <1>3, <1>4, UpTo
<1>6. ASSUME NEW s \in Steps, s >= n PROVE G(s)
  <2>1. s - n \in 0 .. LastStep - n /\ n + (s - n) = s
    BY <1>1, <1>6 DEF Steps
  <2>2. s - n \in D
    BY <1>5, <2>1
  <2> QED
    BY <2>1, <2>2
<1> QED
  BY <1>6

(* Connections keep their places over many steps. *)
LEMMA PlacesKept ==
  ASSUME NEW p, IsTimeline(p), NEW t \in Steps,
         \A s \in t + 1 .. LastStep : KeepPlaces(ConnsAt(p, s - 1), ConnsAt(p, s))
  PROVE  \A s \in Steps : s >= t => KeepPlaces(ConnsAt(p, t), ConnsAt(p, s))
<1>1. t \in Nat /\ LastStep \in Nat /\ LastStep - t \in Nat /\ t + 0 = t /\ 0 \in 0 .. LastStep - t
      /\ \A k \in 1 .. LastStep - t : t + k \in t + 1 .. LastStep /\ t + k \in Steps /\ (t + k) - 1 \in Steps
                                      /\ (t + k) - 1 = t + (k - 1) /\ k \in 0 .. LastStep - t
  BY StepsAssumption DEF Steps
<1>2. \A s \in Steps : ConnsAt(p, s) \in Lists
  BY TimelineViews
<1> DEFINE D == {k \in 0 .. LastStep - t : KeepPlaces(ConnsAt(p, t), ConnsAt(p, t + k))}
<1>3. 0 \in D
  BY <1>1, <1>2, KeepPlacesOn
<1>4. ASSUME NEW k \in 1 .. LastStep - t, k - 1 \in D PROVE k \in D
  <2>1. PICK s : s = t + k
    OBVIOUS
  <2>2. s \in t + 1 .. LastStep /\ s \in Steps /\ s - 1 \in Steps /\ s - 1 = t + (k - 1)
    BY <1>1, <2>1
  <2>3. KeepPlaces(ConnsAt(p, t), ConnsAt(p, s - 1)) /\ KeepPlaces(ConnsAt(p, s - 1), ConnsAt(p, s))
    BY <1>4, <2>2
  <2>4. KeepPlaces(ConnsAt(p, t), ConnsAt(p, s))
    BY <1>2, <2>2, <2>3, KeepPlacesOn
  <2> QED
    BY <1>1, <2>1, <2>4
<1>5. \A k \in 0 .. LastStep - t : k \in D
  <2> HIDE DEF D
  <2> QED
    BY <1>1, <1>3, <1>4, UpTo
<1>6. ASSUME NEW s \in Steps, s >= t PROVE KeepPlaces(ConnsAt(p, t), ConnsAt(p, s))
  <2>1. s - t \in 0 .. LastStep - t /\ t + (s - t) = s
    BY <1>1, <1>6 DEF Steps
  <2>2. s - t \in D
    BY <1>5, <2>1
  <2> QED
    BY <2>1, <2>2
<1> QED
  BY <1>6

(* Then a place stands for a cell. *)
LEMMA PlaceIsCell ==
  ASSUME NEW c \in Lists, NEW d \in Lists, KeepPlaces(c, d), NEW i \in DOMAIN d
  PROVE  /\ i \in DOMAIN c <=> d[i].cell \in DOMAIN View(c).v
         /\ i \in DOMAIN c => View(c).v[d[i].cell] = c[i]
<1>1. /\ DOMAIN View(c).v = CellsOf(c)
      /\ \A j \in DOMAIN c : c[j].cell \in CellsOf(c) /\ View(c).v[c[j].cell] = c[j]
      /\ \A cell \in CellsOf(c) : \E j \in DOMAIN c : c[j].cell = cell
  BY ViewFacts
<1>2. i \in DOMAIN c => d[i].cell = c[i].cell
  BY DEF KeepPlaces
<1>3. ASSUME d[i].cell \in CellsOf(c) PROVE i \in DOMAIN c
  <2>1. PICK j \in DOMAIN c : c[j].cell = d[i].cell
    BY <1>1, <1>3
  <2>2. j \in DOMAIN d /\ d[j].cell = d[i].cell
    BY <2>1 DEF KeepPlaces
  <2>3. j = i
    BY <2>2, ListFacts
  <2> QED
    BY <2>1, <2>3
<1> QED
  BY <1>1, <1>2, <1>3

(* A connection is exempt from scaling at its place as it is at its cell.  *)
LEMMA KeptPlace ==
  ASSUME NEW p, IsTimeline(p), NEW n \in Steps,
         \A s \in n + 1 .. LastStep : KeepPlaces(ConnsAt(p, s - 1), ConnsAt(p, s)),
         NEW s \in n .. LastStep, NEW i \in DOMAIN ConnsAt(p, s), NEW cell, cell = ConnsAt(p, s)[i].cell
  PROVE  cell \in Kept(p, n, s)
           <=> \A t \in n .. s : i \in DOMAIN ConnsAt(p, t) => ConnsAt(p, t)[i].subject_to_welpi
<1>1. s \in Steps /\ \A t \in n .. s : t \in Steps /\ s >= t
  BY StepsAssumption DEF Steps
<1>2. ASSUME NEW t \in n .. s
      PROVE  /\ i \in DOMAIN ConnsAt(p, t) <=> cell \in DOMAIN ViewAt(p, t).v
             /\ i \in DOMAIN ConnsAt(p, t) => ViewAt(p, t).v[cell] = ConnsAt(p, t)[i]
  <2>1. \A u \in t + 1 .. LastStep : u \in n + 1 .. LastStep
    BY StepsAssumption DEF Steps
  <2>2. t \in Steps /\ s >= t
    BY <1>1
  <2>3. \A u \in t + 1 .. LastStep : KeepPlaces(ConnsAt(p, u - 1), ConnsAt(p, u))
    BY <2>1
  <2>4. KeepPlaces(ConnsAt(p, t), ConnsAt(p, s))
    BY <1>1, <2>2, <2>3, PlacesKept
  <2>5. ConnsAt(p, t) \in Lists /\ ConnsAt(p, s) \in Lists
    BY <1>1, <2>2, TimelineViews
  <2> QED
    BY <2>4, <2>5, PlaceIsCell DEF ViewAt
<1>3. cell \in DOMAIN ViewAt(p, s).v
  <2>1. s \in n .. s
    BY <1>1 DEF Steps
  <2> QED
    BY <1>2, <2>1
<1> QED
  BY <1>2, <1>3 DEF Kept

(* What the scaling does to the views. *)
LEMMA ScaledViews ==
  ASSUME deck \in Decks, now \in Steps, NEW g, Core(deck, Present, now, "start", g), NEW f \in Int,
         NEW new, ScaleDone(f, new), NEW q, q = [objects |-> new, snapshots |-> snapshots]
  PROVE  /\ \A s \in Steps : /\ Alike(ViewAt(Present, s), ViewAt(q, s))
                             /\ Rescaled(ConnsAt(Present, s), ConnsAt(q, s)) /\ ConnsAt(q, s) \in Lists
         /\ \A s \in now .. LastStep : \A cell \in DOMAIN ViewAt(Present, s).v :
              \/ ViewAt(q, s).v[cell].CF = ViewAt(Present, s).v[cell].CF
              \/ /\ ViewAt(q, s).v[cell].CF = ViewAt(Present, s).v[cell].CF + f
                 /\ ViewAt(Present, s).v[cell].subject_to_welpi
         /\ NoSkip /\ (\A s \in now + 1 .. LastStep : KeepPlaces(ConnsAt(Present, s - 1), ConnsAt(Present, s))) =>
              \A s \in now .. LastStep : \A cell \in DOMAIN ViewAt(Present, s).v :
                ViewAt(q, s).v[cell].CF =
                  IF cell \in Kept(Present, now, s) THEN ViewAt(Present, s).v[cell].CF + f
                  ELSE ViewAt(Present, s).v[cell].CF
<1>1. /\ Scalable
      /\ \A s \in Steps : /\ NameAt(Present, s) = Name(s) /\ ConnsAt(Present, s) = Conns(s)
                          /\ Present.snapshots[s] = snapshots[s] /\ Present.objects[s] = objects[s]
  BY ScalableFacts
<1>2. PICK p : p = Present
  OBVIOUS
<1>3. IsTimeline(p) /\ q.objects = new /\ q.snapshots = snapshots
  BY <1>2 DEF Core
<1>4. ASSUME NEW s \in Steps
      PROVE  /\ Name(s) \in Steps /\ NameAt(q, s) = Name(s) /\ ConnsAt(p, s) = Conns(s) /\ Conns(s) = objects[Name(s)]
             /\ ConnsAt(q, s) = new[Name(s)]
             /\ Conns(s) \in Lists /\ new[Name(s)] \in Lists /\ Rescaled(Conns(s), new[Name(s)])
  <2>1. Name(s) \in Steps /\ NameAt(q, s) = Name(s) /\ ConnsAt(p, s) = Conns(s) /\ Conns(s) = objects[Name(s)]
    BY <1>1, <1>2, <1>3 DEF Scalable, NameAt, Name, Conns
  <2>2. objects[Name(s)] \in Lists /\ new[Name(s)] \in Lists /\ Rescaled(objects[Name(s)], new[Name(s)])
    BY <1>1, <2>1 DEF Scalable, ScaleDone
  <2> QED
    BY <1>3, <2>1, <2>2 DEF ConnsAt
<1>5. \A s \in Steps : Alike(ViewAt(p, s), ViewAt(q, s)) /\ Rescaled(ConnsAt(p, s), ConnsAt(q, s)) /\ ConnsAt(q, s) \in Lists
  BY <1>4, RescaledAlike DEF ViewAt
<1>6. \A s \in now .. LastStep : s \in Steps
  BY StepsAssumption DEF Steps
<1>7. ASSUME NEW s \in now .. LastStep, NEW cell \in DOMAIN ViewAt(p, s).v
      PROVE  \E i \in DOMAIN Conns(s) : /\ Conns(s)[i].cell = cell
                                        /\ ViewAt(p, s).v[cell] = Conns(s)[i]
                                        /\ ViewAt(q, s).v[cell] = new[Name(s)][i]
  <2>1. s \in Steps /\ ViewAt(p, s) = View(Conns(s)) /\ ViewAt(q, s) = View(new[Name(s)])
    BY <1>4, <1>6 DEF ViewAt
  <2>2. Conns(s) \in Lists /\ new[Name(s)] \in Lists /\ Rescaled(Conns(s), new[Name(s)])
    BY <1>4, <2>1
  <2>3. PICK i \in DOMAIN Conns(s) : Conns(s)[i].cell = cell /\ View(Conns(s)).v[cell] = Conns(s)[i]
    BY <2>1, <2>2, ViewFacts
  <2>4. i \in DOMAIN new[Name(s)] /\ new[Name(s)][i].cell = cell
    BY <2>2, <2>3 DEF Rescaled, SameTasks, KeepPlaces
  <2>5. View(new[Name(s)]).v[cell] = new[Name(s)][i]
    BY <2>2, <2>4, ViewFacts
  <2> QED
    BY <2>1, <2>3, <2>5
<1>8. ASSUME NEW s \in now .. LastStep, NEW cell \in DOMAIN ViewAt(p, s).v
      PROVE  \/ ViewAt(q, s).v[cell].CF = ViewAt(p, s).v[cell].CF
             \/ /\ ViewAt(q, s).v[cell].CF = ViewAt(p, s).v[cell].CF + f
                /\ ViewAt(p, s).v[cell].subject_to_welpi
  BY <1>7 DEF ScaleDone
<1>9. ASSUME NoSkip, \A s \in now + 1 .. LastStep : KeepPlaces(ConnsAt(p, s - 1), ConnsAt(p, s)),
             NEW s \in now .. LastStep, NEW cell \in DOMAIN ViewAt(p, s).v
      PROVE  ViewAt(q, s).v[cell].CF = IF cell \in Kept(p, now, s) THEN ViewAt(p, s).v[cell].CF + f
                                       ELSE ViewAt(p, s).v[cell].CF
  <2>1. PICK i \in DOMAIN Conns(s) : /\ Conns(s)[i].cell = cell
                                     /\ ViewAt(p, s).v[cell] = Conns(s)[i]
                                     /\ ViewAt(q, s).v[cell] = new[Name(s)][i]
    BY <1>7
  <2>2. new[Name(s)][i].CF = IF \A t \in now .. s : i \in DOMAIN Conns(t) => Conns(t)[i].subject_to_welpi
                             THEN Conns(s)[i].CF + f ELSE Conns(s)[i].CF
    BY <1>9 DEF ScaleDone
  <2>3. \A t \in now .. s : t \in Steps /\ ConnsAt(p, t) = Conns(t)
    <3>1. \A t \in now .. s : t \in Steps
      BY StepsAssumption DEF Steps
    <3> QED
      BY <1>4, <3>1
  <2>4. ConnsAt(p, s) = Conns(s)
    BY <1>4, <1>6
  <2>5. cell \in Kept(p, now, s)
          <=> \A t \in now .. s : i \in DOMAIN ConnsAt(p, t) => ConnsAt(p, t)[i].subject_to_welpi
    BY <1>3, <1>9, <2>1, <2>4, KeptPlace
  <2>6. cell \in Kept(p, now, s) <=> \A t \in now .. s : i \in DOMAIN Conns(t) => Conns(t)[i].subject_to_welpi
    BY ONLY <2>3, <2>5
  <2> QED
    BY ONLY <2>1, <2>2, <2>6
<1> QED
  BY ONLY <1>2, <1>5, <1>8, <1>9

(* Lists scaled keep their places as the lists did. *)
LEMMA RescaledPlaces ==
  ASSUME NEW c \in Lists, NEW d \in Lists, KeepPlaces(c, d), NEW x \in Lists, Rescaled(c, x), NEW y \in Lists, Rescaled(d, y)
  PROVE  KeepPlaces(x, y)
<1>1. DOMAIN x = DOMAIN c /\ DOMAIN y = DOMAIN d
  BY DEF Rescaled
<1>2. Len(x) = Len(c) /\ Len(y) = Len(d)
  BY <1>1, ListFacts
<1>3. \A i \in DOMAIN c : x[i].cell = c[i].cell /\ i \in DOMAIN d /\ d[i].cell = c[i].cell
  BY DEF Rescaled, SameTasks, KeepPlaces
<1>4. \A i \in DOMAIN d : y[i].cell = d[i].cell
  BY DEF Rescaled, SameTasks, KeepPlaces
<1> QED
  BY <1>1, <1>2, <1>3, <1>4 DEF KeepPlaces

(* The steps to come are expected as before. *)
LEMMA ExpectedScaled ==
  ASSUME NEW d, NEW o, NEW n \in Steps, NEW p, IsTimeline(p), Expected(d, o, p, n - 1), NEW q,
         q.snapshots = p.snapshots,
         \A s \in Steps : /\ Alike(ViewAt(p, s), ViewAt(q, s))
                          /\ Rescaled(ConnsAt(p, s), ConnsAt(q, s)) /\ ConnsAt(q, s) \in Lists
  PROVE  Expected(d, o, q, n)
<1> SUFFICES ASSUME NEW s \in Steps, s > n
             PROVE  /\ q.snapshots[s].welpi <=> s \in WelpiSteps(d)
                    /\ s # 0 /\ o # "DEPTH" => KeepPlaces(ConnsAt(q, s - 1), ConnsAt(q, s))
                    /\ Flagged(d, q, s)
  BY DEF Expected
<1>1. s > n - 1 /\ s - 1 \in Steps /\ s # 0
  BY StepsAssumption DEF Steps
<1>2. /\ p.snapshots[s].welpi <=> s \in WelpiSteps(d)
      /\ o # "DEPTH" => KeepPlaces(ConnsAt(p, s - 1), ConnsAt(p, s))
      /\ Flagged(d, p, s)
  BY <1>1 DEF Expected
<1>3. ConnsAt(p, s) \in Lists /\ ConnsAt(p, s - 1) \in Lists
  BY <1>1, TimelineViews
<1>4. KeepPlaces(ConnsAt(p, s - 1), ConnsAt(p, s)) => KeepPlaces(ConnsAt(q, s - 1), ConnsAt(q, s))
  BY <1>1, <1>3, RescaledPlaces
<1>5. Flagged(d, q, s)
  <2>1. PICK a, b : Alike(ViewAt(p, s - 1), a) /\ Alike(ViewAt(p, s), b) /\ b = Applying!Fold("code", a, Effects(d[s]))
    BY <1>1, <1>2 DEF Flagged, Before
  <2>2. Alike(ViewAt(q, s - 1), ViewAt(p, s - 1)) /\ Alike(ViewAt(q, s), ViewAt(p, s))
    BY <1>1, SameOn
  <2>3. Alike(ViewAt(q, s - 1), a) /\ Alike(ViewAt(q, s), b)
    BY <2>1, <2>2, SameOn
  <2> QED
    BY <1>1, <2>1, <2>3 DEF Flagged, Before
<1> QED
  BY <1>2, <1>4, <1>5

(* The factor found, as it is told: what is subject at its step is scaled. *)
LEMMA FoundTold ==
  ASSUME deck \in Decks, NEW p, NEW n \in Steps, Flagged(deck, p, n), n \in WelpiSteps(deck),
         NEW g, IsHistory(g), g[n] = Effects(deck[n]), NEW W, Telling(g, "scaled", W),
         NEW e, \A s \in Steps : s # n => e[s] = g[s], NEW Z, Telling(e, "scaled", Z),
         NEW f \in Int, FoundAt(f, g[n], e[n]), Same(Before(p, n), W[n - 1])
  PROVE  \E T : Shifted(W[n], Z[n], ViewAt(p, n), T, T, f)
<1>1. n \in Int /\ n - 1 \in -1 .. LastStep /\ n - 1 < n /\ \A s \in Steps : s < n => s # n
  BY StepsAssumption DEF Steps
<1>2. W[n - 1] = Z[n - 1]
  <2>1. PICK j \in Int : j = n
    BY <1>1
  <2>2. \A s \in Steps : s < j => g[s] = e[s]
    BY <1>1, <2>1
  <2>3. \A s \in -1 .. LastStep : s < j => W[s] = Z[s]
    BY <2>2, TellingAgrees
  <2> QED
    BY <1>1, <2>1, <2>3
<1>3. PICK a, b : Alike(Before(p, n), a) /\ Alike(ViewAt(p, n), b) /\ b = Applying!Fold("code", a, Effects(deck[n]))
  BY DEF Flagged
<1>4. Same(a, W[n - 1])
  BY <1>3, SameOn DEF Alike
<1>5. /\ g[n] \in Seq(EffectKeyword) /\ Plain(g[n]) /\ "WELPI" \in NamesIn(g[n])
  BY DeckFacts, DeckPlain DEF ScalingSteps, WelpiSteps
<1>6. PICK x : x = W[n - 1]
  OBVIOUS
<1>7. \E T : Shifted(Applying!Fold("scaled", x, g[n]), Applying!Fold("scaled", x, e[n]), Applying!Fold("code", a, g[n]), T, T, f)
  BY <1>4, <1>5, <1>6, ShiftedFound
<1>8. W[n] = Applying!Fold("scaled", x, g[n]) /\ Z[n] = Applying!Fold("scaled", x, e[n])
  BY <1>2, <1>6 DEF Telling
<1>9. b = Applying!Fold("code", a, g[n])
  BY <1>3
<1>10. PICK T : Shifted(W[n], Z[n], b, T, T, f)
  BY <1>7, <1>8, <1>9
<1>11. Alike(b, ViewAt(p, n))
  BY <1>3, SameOn
<1>12. Shifted(W[n], Z[n], ViewAt(p, n), T, T, f)
  BY <1>10, <1>11, ShiftedAlike
<1> QED
  BY <1>12

(* Told with the scaling, or with it and without. *)
LEMMA MixedExactly ==
  ASSUME NEW x, NEW y, Alike(x, y), NEW w, Mixed(x, w, w), NEW z, NEW T, NEW B, NEW f \in Int, Shifted(w, z, x, T, B, f),
         \A cell \in T : cell \in DOMAIN x.v => x.v[cell].subject_to_welpi,
         \A cell \in DOMAIN x.v : y.v[cell].CF = IF cell \in T THEN x.v[cell].CF + f ELSE x.v[cell].CF
  PROVE  Mixed(y, z, z)
<1>1. Same(x, y) /\ Same(x, w) /\ Same(z, w)
  BY DEF Alike, Mixed, Shifted
<1>2. Same(y, z)
  BY <1>1, SameOn
<1>3. DOMAIN y.v = DOMAIN x.v /\ DOMAIN w.v = DOMAIN x.v
  BY <1>1 DEF Same
<1>4. \A cell \in DOMAIN x.v : x.v[cell].CF = w.v[cell].CF
  BY DEF Mixed
<1>5. \A cell \in DOMAIN x.v : y.v[cell].CF = z.v[cell].CF
  BY <1>3, <1>4 DEF Shifted
<1> QED
  BY <1>2, <1>3, <1>5 DEF Mixed

(* The same when only one step scales. *)
LEMMA MixedOnce ==
  ASSUME NEW x, NEW y, Alike(x, y), NEW w, Mixed(x, w, w), NEW z, NEW T, NEW f \in Int, Shifted(w, z, x, T, T, f),
         \A cell \in DOMAIN x.v : \/ y.v[cell].CF = x.v[cell].CF
                                  \/ y.v[cell].CF = x.v[cell].CF + f /\ x.v[cell].subject_to_welpi
  PROVE  Mixed(y, z, w)
<1>1. Same(x, y) /\ Same(x, w) /\ Same(z, w)
  BY DEF Alike, Mixed, Shifted
<1>2. Same(y, z) /\ Same(y, w)
  BY <1>1, SameOn
<1>3. DOMAIN y.v = DOMAIN x.v /\ DOMAIN w.v = DOMAIN x.v
  BY <1>1 DEF Same
<1>4. \A cell \in DOMAIN x.v : x.v[cell].CF = w.v[cell].CF
  BY DEF Mixed
<1>5. \A cell \in DOMAIN x.v : x.v[cell].subject_to_welpi => z.v[cell].CF = w.v[cell].CF + f
  BY <1>3 DEF Shifted
<1>6. \A cell \in DOMAIN x.v : y.v[cell].CF \in {z.v[cell].CF, w.v[cell].CF}
  BY <1>4, <1>5
<1> QED
  BY <1>2, <1>3, <1>6 DEF Mixed

(* A factor found at a step is found there only. *)
LEMMA FoundWith ==
  ASSUME NEW f \in Int, NEW n \in Steps, NEW g, IsHistory(g), NEW e, \A s \in Steps : s # n => e[s] = g[s],
         FoundAt(f, g[n], e[n])
  PROVE  WithFound(g, e)
<1> SUFFICES ASSUME NEW s \in Steps
             PROVE  /\ Len(e[s]) = Len(g[s])
                    /\ \A k \in 1 .. Len(g[s]) : e[s][k] = g[s][k] \/ (g[s][k].name = "WELPI" /\ e[s][k].name = "Found")
  BY DEF WithFound
<1>1. CASE s # n
  BY <1>1
<1>2. CASE s = n
  <2>1. CASE "WELPI" \notin NamesIn(g[n])
    BY <1>2, <2>1 DEF FoundAt
  <2>2. CASE "WELPI" \in NamesIn(g[n])
    <3>1. PICK k \in 1 .. Len(g[n]) : /\ g[n][k].name = "WELPI"
                                      /\ e[n][k] = [name |-> "Found", factor |-> f]
                                      /\ \A l \in 1 .. Len(g[n]) : l # k => e[n][l] = g[n][l]
      BY <2>2 DEF FoundAt
    <3>2. e[n][k].name = "Found"
      BY <3>1
    <3> QED
      BY <1>2, <3>1, <3>2 DEF FoundAt
  <2> QED
    BY <2>1, <2>2
<1> QED
  BY <1>1, <1>2

(* A tale without scaling is its own. *)
LEMMA FoundNowhere ==
  ASSUME NEW g, IsHistory(g), \A s \in Steps : "Found" \notin NamesIn(g[s])
  PROVE  \A s \in -1 .. LastStep : ScaledTale(g)[s] = UnscaledTale(g)[s]
<1>1. Telling(g, "scaled", ScaledTale(g)) /\ Telling(g, "unscaled", UnscaledTale(g))
  BY TaleFacts
<1>2. WithFound(g, g)
  BY DEF WithFound
<1> QED
  BY <1>1, <1>2, TellingUnscaled

(* A scaling. *)
LEMMA FlowScaled ==
  ASSUME deck \in Decks, ordering \in Orderings, now \in Steps, snapshots[now].welpi,
         Core(deck, Present, now, "start", given), Flow(deck, ordering, Present, now - 1, given, skipped),
         NEW f \in Int, NEW new, ScaleDone(f, new), NEW q, q = [objects |-> new, snapshots |-> snapshots],
         NEW e, e = [given EXCEPT ![now] = found(f, @)], NEW sk, ~sk => ~skipped /\ NoSkip
  PROVE  Flow(deck, ordering, q, now, e, sk)
<1>1. PICK p, n, g : p = Present /\ n = now /\ g = given
  OBVIOUS
<1>2. /\ n \in Steps /\ n - 1 \in Int /\ n > n - 1 /\ n >= n /\ Base(n, "start") = n - 1
      /\ \A s \in Steps : s \in Int /\ (s >= n => s > n - 1) /\ (s <= n - 1 => s <= n /\ s # n)
      /\ \A s \in n + 1 .. LastStep : s \in Steps /\ s > n - 1 /\ s >= n /\ s # 0 /\ n < s /\ s # n
      /\ \A s \in Steps : s >= n => s \in n .. LastStep
  BY <1>1, StepsAssumption DEF Steps, Base
<1>3. /\ IsTimeline(p) /\ IsHistory(g) /\ \A s \in Steps : s >= n => g[s] = Effects(deck[s])
      /\ p.snapshots = snapshots /\ q.snapshots = p.snapshots
  <2>1. p.snapshots = snapshots
    BY <1>1 DEF Present
  <2> QED
    BY <1>1, <1>2, <2>1 DEF Core, Ahead
<1>4. FoundInTime(deck, n - 1, g) /\ Expected(deck, ordering, p, n - 1)
  BY <1>1 DEF Flow
<1>5. n \in WelpiSteps(deck) /\ Flagged(deck, p, n)
  BY <1>1, <1>2, <1>3, <1>4 DEF Expected
<1>6. /\ FoundAt(f, g[n], e[n]) /\ \A s \in Steps : s # n => e[s] = g[s]
  <2>1. g[n] \in Seq(EffectKeyword) /\ g = [s \in Steps |-> g[s]]
    BY <1>2, <1>3 DEF IsHistory
  <2>2. e = [g EXCEPT ![n] = found(f, @)]
    BY <1>1
  <2>3. e[n] = found(f, g[n]) /\ \A s \in Steps : s # n => e[s] = g[s]
    BY <1>2, <2>1, <2>2
  <2> QED
    BY <2>1, <2>3, FoundFacts
<1>7. IsHistory(e)
  <2>1. Core(deck, q, now, "run", e)
    BY CoreScaled
  <2> QED
    BY <2>1 DEF Core
<1>8. FoundInTime(deck, n, e)
  BY <1>2, <1>4, <1>5, <1>6 DEF FoundInTime
<1>9. /\ \A s \in Steps : /\ Alike(ViewAt(p, s), ViewAt(q, s))
                          /\ Rescaled(ConnsAt(p, s), ConnsAt(q, s)) /\ ConnsAt(q, s) \in Lists
      /\ \A s \in n .. LastStep : \A cell \in DOMAIN ViewAt(p, s).v :
           \/ ViewAt(q, s).v[cell].CF = ViewAt(p, s).v[cell].CF
           \/ /\ ViewAt(q, s).v[cell].CF = ViewAt(p, s).v[cell].CF + f
              /\ ViewAt(p, s).v[cell].subject_to_welpi
      /\ NoSkip /\ (\A s \in n + 1 .. LastStep : KeepPlaces(ConnsAt(p, s - 1), ConnsAt(p, s))) =>
           \A s \in n .. LastStep : \A cell \in DOMAIN ViewAt(p, s).v :
             ViewAt(q, s).v[cell].CF =
               IF cell \in Kept(p, n, s) THEN ViewAt(p, s).v[cell].CF + f ELSE ViewAt(p, s).v[cell].CF
  BY ONLY <1>1, deck \in Decks, now \in Steps, Core(deck, Present, now, "start", given), f \in Int,
          ScaleDone(f, new), q = [objects |-> new, snapshots |-> snapshots], ScaledViews
<1>10. Expected(deck, ordering, q, n)
  BY <1>2, <1>3, <1>4, <1>9, ExpectedScaled
<1>11. PICK W, Z, U, V : W = ScaledTale(g) /\ Z = ScaledTale(e) /\ U = UnscaledTale(g) /\ V = UnscaledTale(e)
  OBVIOUS
<1>12. /\ Telling(g, "scaled", W) /\ Telling(e, "scaled", Z) /\ Telling(g, "unscaled", U) /\ Telling(e, "unscaled", V)
  BY <1>3, <1>7, <1>11, TaleFacts
<1>13. Handed(p, n, W, Z)
  <2> SUFFICES ASSUME NEW s \in n + 1 .. LastStep
               PROVE  /\ W[s] = Applying!Fold("scaled", W[s - 1], Effects(deck[s]))
                      /\ Z[s] = Applying!Fold("scaled", Z[s - 1], Effects(deck[s]))
                      /\ Flagged(deck, p, s)
    BY DEF Handed
  <2>1. s \in Steps /\ s > n - 1 /\ s # n /\ s >= n
    BY <1>2
  <2>2. g[s] = Effects(deck[s]) /\ e[s] = Effects(deck[s])
    BY <1>3, <1>6, <2>1
  <2>3. Flagged(deck, p, s)
    BY <1>4, <2>1 DEF Expected
  <2> QED
    BY <1>12, <2>1, <2>2, <2>3 DEF Telling
<1>14. ASSUME NEW X, Follows(p, n - 1, W, X)
       PROVE  \E T : Shifted(W[n], Z[n], ViewAt(p, n), T, T, f)
  <2>1. Same(Before(p, n), W[n - 1])
    <3>1. CASE n = 0
      <4>1. Before(p, n) = Nothing /\ W[n - 1] = Nothing
        BY <1>12, <3>1 DEF Before, Telling
      <4> QED
        BY <4>1, NothingIsView, SameOn
    <3>2. CASE n # 0
      <4>1. n - 1 \in Steps /\ n - 1 >= n - 1
        BY <1>2, <3>2, StepsAssumption DEF Steps
      <4>2. Mixed(ViewAt(p, n - 1), W[n - 1], X[n - 1])
        BY <1>14, <4>1 DEF Follows
      <4> QED
        BY <3>2, <4>2 DEF Mixed, Before
    <3> QED
      BY <3>1, <3>2
  <2>2. g[n] = Effects(deck[n])
    BY <1>2, <1>3
  <2> QED
    BY <1>2, <1>3, <1>5, <1>6, <1>12, <2>1, <2>2, FoundTold
<1>15. ASSUME ExactFor(deck, ordering, sk) PROVE Follows(q, n, Z, Z)
  <2>1. ~skipped /\ NoSkip /\ ExactFor(deck, ordering, skipped)
    BY <1>15 DEF ExactFor
  <2>2. Follows(p, n - 1, W, W)
    BY <1>1, <1>11, <2>1 DEF Flow
  <2>3. PICK T : Shifted(W[n], Z[n], ViewAt(p, n), T, T, f)
    BY <1>14, <2>2
  <2>4. \A s \in Steps : s >= n => Shifted(W[s], Z[s], ViewAt(p, s), Kept(p, n, s), DOMAIN ViewAt(p, s).v, f)
    <3>1. \A s, t \in WelpiSteps(deck) : s < t => ScalesFirst(deck[t])
      BY <2>1 DEF ExactFor
    <3> QED
      BY <1>2, <1>5, <1>13, <2>3, <3>1, HandedExactly
  <2>5. ordering # "DEPTH"
    BY <1>5, <2>1 DEF ExactFor
  <2>6. \A s \in n + 1 .. LastStep : KeepPlaces(ConnsAt(p, s - 1), ConnsAt(p, s))
    BY <1>2, <1>4, <2>5 DEF Expected
  <2>7. ASSUME NEW s \in Steps, s >= n PROVE Mixed(ViewAt(q, s), Z[s], Z[s])
    <3>1. s \in n .. LastStep /\ s > n - 1 /\ s >= n - 1
      BY <1>2, <2>7
    <3>2. \A cell \in DOMAIN ViewAt(p, s).v :
            ViewAt(q, s).v[cell].CF =
              IF cell \in Kept(p, n, s) THEN ViewAt(p, s).v[cell].CF + f ELSE ViewAt(p, s).v[cell].CF
      BY <1>9, <2>1, <2>6, <3>1
    <3>3. \A cell \in Kept(p, n, s) : cell \in DOMAIN ViewAt(p, s).v => ViewAt(p, s).v[cell].subject_to_welpi
      <4>1. s \in n .. s
        BY <3>1
      <4> QED
        BY <4>1 DEF Kept
    <3>4. Mixed(ViewAt(p, s), W[s], W[s])
      BY <2>2, <3>1 DEF Follows
    <3>5. Shifted(W[s], Z[s], ViewAt(p, s), Kept(p, n, s), DOMAIN ViewAt(p, s).v, f) /\ Alike(ViewAt(p, s), ViewAt(q, s))
      BY <1>9, <2>4, <2>7
    <3> QED
      BY ONLY f \in Int, <3>2, <3>3, <3>4, <3>5, MixedExactly
  <2> QED
    BY <2>7 DEF Follows
<1>16. ASSUME OnceFor(deck) PROVE Follows(q, n, Z, V)
  <2>1. Follows(p, n - 1, W, U)
    BY <1>1, <1>11, <1>16 DEF Flow
  <2>2. PICK T : Shifted(W[n], Z[n], ViewAt(p, n), T, T, f)
    BY <1>14, <2>1
  <2>3. \A s \in Steps : s >= n => Shifted(W[s], Z[s], ViewAt(p, s), T, T, f)
    BY <1>2, <1>5, <1>13, <1>16, <2>2, HandedOnce
  <2>4. \A s \in Steps : "Found" \notin NamesIn(g[s])
    BY <1>2, <1>4, <1>5, <1>16 DEF FoundInTime, OnceFor
  <2>5. \A s \in -1 .. LastStep : W[s] = U[s]
    BY <1>3, <1>11, <2>4, FoundNowhere
  <2>6. \A s \in -1 .. LastStep : W[s] = V[s]
    <3>1. WithFound(g, e)
      <4>1. n \in Steps /\ IsHistory(g)
        BY <1>2, <1>3
      <4> QED
        BY ONLY f \in Int, <4>1, <1>6, FoundWith
    <3> QED
      BY <1>3, <1>7, <1>12, <2>4, <3>1, TellingUnscaled
  <2>7. ASSUME NEW s \in Steps, s >= n PROVE Mixed(ViewAt(q, s), Z[s], V[s])
    <3>1. s \in n .. LastStep /\ s >= n - 1 /\ s \in -1 .. LastStep
      BY <1>2, <2>7, StepsAssumption DEF Steps
    <3>2. \A cell \in DOMAIN ViewAt(p, s).v :
            \/ ViewAt(q, s).v[cell].CF = ViewAt(p, s).v[cell].CF
            \/ /\ ViewAt(q, s).v[cell].CF = ViewAt(p, s).v[cell].CF + f
               /\ ViewAt(p, s).v[cell].subject_to_welpi
      BY <1>9, <3>1
    <3>3. Mixed(ViewAt(p, s), W[s], W[s])
      <4>1. Mixed(ViewAt(p, s), W[s], U[s])
        BY <2>1, <3>1 DEF Follows
      <4>2. U[s] = W[s]
        BY <2>5, <3>1
      <4> QED
        BY ONLY <4>1, <4>2
    <3>4. Shifted(W[s], Z[s], ViewAt(p, s), T, T, f) /\ Alike(ViewAt(p, s), ViewAt(q, s))
      BY <1>9, <2>3, <2>7
    <3>5. Mixed(ViewAt(q, s), Z[s], W[s])
      BY ONLY f \in Int, <3>2, <3>3, <3>4, MixedOnce
    <3>6. V[s] = W[s]
      BY <2>6, <3>1
    <3> QED
      BY ONLY <3>5, <3>6
  <2> QED
    BY <2>7 DEF Follows
<1>17. Flow(deck, ordering, q, n, e, sk)
  BY ONLY <1>8, <1>10, <1>11, <1>15, <1>16 DEF Flow
<1> QED
  BY ONLY <1>1, <1>17

-----------------------------------------------------------------------------
(***************************************************************************)
(* The factors along the steps of the specification.                       *)
(***************************************************************************)
FInv ==
  /\ phase = "input" => \A s \in Steps : ConnsAt(Present, s) = << >> /\ ~Present.snapshots[s].welpi
  /\ phase # "input" => Flow(deck, ordering, Present, Base(now, phase), given, skipped)

(* Before the deck is read there is nothing. *)
LEMMA InitFInv == Init => FInv
<1> SUFFICES ASSUME Init PROVE FInv
  OBVIOUS
<1>1. /\ Present.objects = [s \in Steps |-> << >>] /\ Present.snapshots = [s \in Steps |-> NoSnapshot]
      /\ phase = "input"
  BY DEF Init, Present
<1>2. PICK no \in BOOLEAN : no = FALSE
  OBVIOUS
<1>3. NoSnapshot = [well |-> [connections |-> 0, status |-> "SHUT"], open_requests |-> {}, welpi |-> no]
  BY ONLY <1>2, Zenon DEF NoSnapshot
<1>4. NoSnapshot.well.connections = 0 /\ ~NoSnapshot.welpi
  BY <1>2, <1>3
<1>5. 0 \in Steps
  BY StepsAssumption DEF Steps
<1> HIDE <1>3
<1>6. \A s \in Steps : ConnsAt(Present, s) = << >> /\ ~Present.snapshots[s].welpi
  BY <1>1, <1>4, <1>5 DEF ConnsAt, NameAt
<1> QED
  BY <1>1, <1>6 DEF FInv

(* The parts of the invariants that the steps need. *)
LEMMA FlowGiven ==
  ASSUME IInv, FInv
  PROVE  /\ Typing /\ Core(deck, Present, now, phase, given)
         /\ IsTimeline(Present) /\ IsHistory(given) /\ deck \in Decks /\ now \in Steps
         /\ \A s \in Steps : s > Base(now, phase) => given[s] = Effects(deck[s])
         /\ phase = "run" => Flow(deck, ordering, Present, now, given, skipped)
         /\ phase = "start" => Flow(deck, ordering, Present, now - 1, given, skipped)
<1>1. Base(now, "run") = now /\ Base(now, "start") = now - 1
  BY DEF Base
<1> QED
  BY <1>1 DEF IInv, FInv, Typing, Core, Ahead

(* Every step keeps the factors right. *)
LEMMA NextFInv == IInv /\ FInv /\ [Next]_vars => FInv'
<1> SUFFICES ASSUME IInv, FInv, [Next]_vars PROVE FInv'
  OBVIOUS
<1>0. /\ Typing /\ Core(deck, Present, now, phase, given)
      /\ IsTimeline(Present) /\ IsHistory(given) /\ deck \in Decks /\ now \in Steps
      /\ \A s \in Steps : s > Base(now, phase) => given[s] = Effects(deck[s])
      /\ phase = "run" => Flow(deck, ordering, Present, now, given, skipped)
      /\ phase = "start" => Flow(deck, ordering, Present, now - 1, given, skipped)
  BY FlowGiven
<1>1. Present' = [objects |-> objects', snapshots |-> snapshots']
  BY DEF Present
<1>2. IInv'
  BY NextIInv
<1>3. IsTimeline(Present)' /\ IsHistory(given)'
  BY <1>2 DEF IInv, Core
<1>4. \A n : Base(n, "run") = n /\ Base(n, "start") = n - 1 /\ Base(n, "input") = n
  BY DEF Base
<1>5. CASE Construct
  <2>1. PICK p : p = Present
    OBVIOUS
  <2>2. PICK q : q = iterateScheduleSection(handleBlock(p, 0, deck[0]), 1)
    OBVIOUS
  <2>3. objects' = q.objects /\ snapshots' = q.snapshots
    BY <1>5, <2>1, <2>2 DEF Construct, Becomes, Present
  <2>4. 0 \in Steps /\ \A s \in Steps : s = 0 \/ s > 0
    BY StepsAssumption DEF Steps
  <2>5. /\ phase = "input" /\ now = 0 /\ given[0] = Effects(deck[0])
        /\ deck' = deck /\ now' = 0 /\ phase' = "start" /\ given' = given /\ ordering' = ordering /\ skipped' = skipped
    BY <1>0, <1>5 DEF Construct, Typing
  <2>6. \A s \in Steps : given[s] = Effects(deck[s])
    BY <1>0, <1>4, <2>4, <2>5
  <2>7. IsTimeline(p) /\ ConnsAt(p, 0) = << >> /\ ~p.snapshots[0].welpi
    BY <1>0, <2>1, <2>4, <2>5 DEF FInv
  <2>8. Flow(deck, ordering, q, -1, given, skipped)
    BY <1>0, <2>2, <2>6, <2>7, FlowConstructed
  <2>9. q = Present'
    <3>1. PICK r : r = handleBlock(p, 0, deck[0])
      OBVIOUS
    <3>2. IsTimeline(r)
      <4>1. deck[0] \in Seq(BlockKeyword)
        BY <1>0, <2>4, DeckFacts
      <4> QED
        BY <2>4, <2>7, <3>1, <4>1, BlockFacts DEF BlockDone
    <3>3. 1 \in 1 .. LastStep + 1
      BY StepsAssumption
    <3>4. IsTimeline(q)
      BY <1>0, <2>2, <3>1, <3>2, <3>3, ReplayFacts DEF Replayed
    <3> QED
      BY <1>1, <2>3, <3>4 DEF IsTimeline
  <2>10. Base(now', phase') = -1
    BY <1>4, <2>5
  <2>11. phase' # "input"
    BY <2>5
  <2>12. Flow(deck', ordering', Present', Base(now', phase'), given', skipped')
    BY ONLY <2>5, <2>8, <2>9, <2>10
  <2> QED
    BY <2>11, <2>12 DEF FInv
<1>6. ASSUME NEW f \in Factors, applyWellProdIndexScaling(f) PROVE FInv'
  <2>1. ScaleDone(f, objects') /\ f \in Int
    BY <1>6, ScalingStep, FactorsAssumption DEF applyWellProdIndexScaling
  <2>2. /\ phase = "start" /\ snapshots[now].welpi /\ given' = [given EXCEPT ![now] = found(f, @)]
        /\ snapshots' = snapshots /\ deck' = deck /\ now' = now /\ phase' = "run" /\ ordering' = ordering
        /\ skipped' = (skipped \/ \E s \in now + 1 .. LastStep : PassedOver(s))
    BY <1>6 DEF applyWellProdIndexScaling
  <2>3. Present' = [objects |-> objects', snapshots |-> snapshots]
    BY <1>1, <2>2
  <2>4. PICK new, q, e, sk : new = objects' /\ q = Present' /\ e = given' /\ sk = skipped'
    OBVIOUS
  <2>5. ScaleDone(f, new) /\ q = [objects |-> new, snapshots |-> snapshots] /\ e = [given EXCEPT ![now] = found(f, @)]
    BY ONLY <2>1, <2>2, <2>3, <2>4
  <2>6. ~sk => ~skipped /\ NoSkip
    BY <2>2, <2>4 DEF NoSkip
  <2>7. ordering \in Orderings /\ Core(deck, Present, now, "start", given)
        /\ Flow(deck, ordering, Present, now - 1, given, skipped)
    BY <1>0, <2>2 DEF Typing
  <2>8. Flow(deck, ordering, q, now, e, sk)
    BY <1>0, <2>1, <2>2, <2>5, <2>6, <2>7, FlowScaled
  <2>9. Base(now', phase') = now /\ phase' # "input"
    BY <1>4, <2>2
  <2>10. Flow(deck', ordering', Present', Base(now', phase'), given', skipped')
    BY ONLY <2>2, <2>4, <2>8, <2>9
  <2> QED
    BY <2>9, <2>10 DEF FInv
<1>7. CASE StartStep
  <2>1. /\ phase = "start" /\ phase' = "run" /\ ordering' = ordering /\ deck' = deck /\ objects' = objects
        /\ snapshots' = snapshots /\ now' = now /\ given' = given /\ skipped' = skipped
    BY <1>7 DEF StartStep
  <2>2. Present' = Present
    BY <1>1, <2>1 DEF Present
  <2>3. Flow(deck, ordering, Present, now, given, skipped)
    BY <1>0, <2>1, FlowStarted
  <2>4. Base(now', phase') = now /\ phase' # "input"
    BY <1>4, <2>1
  <2>5. Flow(deck', ordering', Present', Base(now', phase'), given', skipped')
    BY ONLY <2>1, <2>2, <2>3, <2>4
  <2> QED
    BY <2>4, <2>5 DEF FInv
<1>8. CASE NextStep
  <2>1. /\ phase = "run" /\ phase' = "start" /\ ordering' = ordering /\ deck' = deck /\ objects' = objects
        /\ snapshots' = snapshots /\ now' = now + 1 /\ given' = given /\ skipped' = skipped
    BY <1>8 DEF NextStep
  <2>2. Present' = Present
    BY <1>1, <2>1 DEF Present
  <2>3. Base(now', phase') = now /\ phase' # "input"
    <3>1. now \in Int
      BY <1>0, StepsAssumption DEF Steps
    <3> QED
      BY <1>4, <2>1, <3>1
  <2>4. Flow(deck, ordering, Present, now, given, skipped)
    BY <1>0, <2>1
  <2>5. Flow(deck', ordering', Present', Base(now', phase'), given', skipped')
    BY ONLY <2>1, <2>2, <2>3, <2>4
  <2> QED
    BY <2>3, <2>5 DEF FInv
<1>9. ASSUME NEW block \in ActionBlocks, applyAction(block) PROVE FInv'
  <2>1. /\ phase = "run" /\ phase' = "run" /\ ordering' = ordering /\ deck' = deck /\ now' = now /\ skipped' = skipped
        /\ given' = [given EXCEPT ![now] = @ \o Effects(block)]
    BY <1>9 DEF applyAction
  <2>2. PICK p, g, e : p = Present /\ g = given /\ e = given'
    OBVIOUS
  <2>3. PICK q : q = iterateScheduleSection(handleBlock(p, now, block), now + 1)
    OBVIOUS
  <2>4. objects' = q.objects /\ snapshots' = q.snapshots
    BY <1>9, <2>2, <2>3 DEF applyAction, Becomes, Present
  <2>5. block \in Seq(BlockKeyword)
    BY ActionFacts
  <2>6. /\ IsTimeline(p) /\ IsHistory(g) /\ IsHistory(e) /\ Flow(deck, ordering, p, now, g, skipped)
        /\ \A s \in Steps : s > now => g[s] = Effects(deck[s])
    BY <1>0, <1>3, <1>4, <2>1, <2>2
  <2>7. e[now] = g[now] \o Effects(block) /\ \A s \in Steps : s # now => e[s] = g[s]
    <3>1. g = [s \in Steps |-> g[s]]
      BY <2>6 DEF IsHistory
    <3> QED
      BY <1>0, <2>1, <2>2, <3>1
  <2>8. \A s \in Steps : s > now => e[s] = Effects(deck[s])
    <3>1. \A s \in Steps : s > now => s # now
      BY <1>0, StepsAssumption DEF Steps
    <3> QED
      BY <2>6, <2>7, <3>1
  <2>9. Flow(deck, ordering, q, now, e, skipped)
    BY <1>0, <2>3, <2>5, <2>6, <2>7, <2>8, FlowBlock
  <2>10. q = Present'
    <3>1. PICK r : r = handleBlock(p, now, block)
      OBVIOUS
    <3>2. IsTimeline(r)
      BY <1>0, <2>5, <2>6, <3>1, BlockFacts DEF BlockDone
    <3>3. now + 1 \in 1 .. LastStep + 1
      BY <1>0, StepsAssumption DEF Steps
    <3>4. IsTimeline(q)
      BY <1>0, <2>3, <3>1, <3>2, <3>3, ReplayFacts DEF Replayed
    <3> QED
      BY <1>1, <2>4, <3>4 DEF IsTimeline
  <2>11. Base(now', phase') = now /\ phase' # "input"
    BY <1>4, <2>1
  <2>12. Flow(deck', ordering', Present', Base(now', phase'), given', skipped')
    BY ONLY <2>1, <2>2, <2>9, <2>10, <2>11
  <2> QED
    BY <2>11, <2>12 DEF FInv
<1>10. ASSUME NEW new \in Fractures, modifyCompletions(new) PROVE FInv'
  <2>1. /\ phase = "run" /\ phase' = "run" /\ ordering' = ordering /\ deck' = deck /\ now' = now /\ skipped' = skipped
        /\ given' = [given EXCEPT ![now] = Append(@, [name |-> "Fracture", connections |-> new])]
    BY <1>10 DEF modifyCompletions
  <2>2. PICK p, g, e : p = Present /\ g = given /\ e = given'
    OBVIOUS
  <2>3. PICK c : c = NameAt(p, now)
    OBVIOUS
  <2>4. PICK grown : grown = FoldLeft(withFracture, p.objects[c], new)
    OBVIOUS
  <2>5. PICK r : r = [objects |-> [p.objects EXCEPT ![c] = grown], snapshots |-> p.snapshots]
    OBVIOUS
  <2>6. PICK q : q = iterateScheduleSection(r, now + 1)
    OBVIOUS
  <2>7. objects' = q.objects /\ snapshots' = q.snapshots
    <3>1. p.objects = objects /\ p.snapshots = snapshots /\ c = snapshots[now].well.connections
      BY <2>2, <2>3 DEF Present, NameAt
    <3>2. r = [objects |-> [objects EXCEPT ![snapshots[now].well.connections] = FoldLeft(withFracture, @, new)],
               snapshots |-> snapshots]
      BY <2>4, <2>5, <3>1
    <3> QED
      BY <1>10, <2>6, <3>2 DEF modifyCompletions, Becomes
  <2>8. /\ IsTimeline(p) /\ IsHistory(g) /\ IsHistory(e) /\ Flow(deck, ordering, p, now, g, skipped)
        /\ \A s \in Steps : s > now => g[s] = Effects(deck[s])
    BY <1>0, <1>3, <1>4, <2>1, <2>2
  <2>9. new \in Seq(NewFracture)
    BY FracturesAssumption DEF NewFracture
  <2>10. IsTimeline(r) /\ View(ConnsAt(r, now)) = GrowingView!Fold(<< >>, ViewAt(p, now), new)
    <3>1. c \in Steps /\ p.objects[c] \in Lists /\ ConnsAt(p, now) = p.objects[c]
      BY <1>0, <2>3, <2>8 DEF IsTimeline, ConnsAt
    <3>2. grown \in Lists /\ View(grown) = GrowingView!Fold(<< >>, View(p.objects[c]), new)
      BY <2>4, <2>9, <3>1, Grown
    <3>3. /\ r = [objects |-> r.objects, snapshots |-> r.snapshots]
          /\ r.snapshots = p.snapshots /\ r.objects = [p.objects EXCEPT ![c] = grown]
      BY <2>5
    <3>4. /\ r.objects = [t \in Steps |-> r.objects[t]] /\ r.objects[c] = grown
          /\ \A t \in Steps : t # c => r.objects[t] = p.objects[t]
      BY <2>8, <3>1, <3>3 DEF IsTimeline
    <3>5. \A t \in Steps : NameAt(r, t) = NameAt(p, t)
      BY <3>3 DEF NameAt
    <3>6. \A t \in Steps : r.objects[t] \in Lists
      BY <2>8, <3>2, <3>4 DEF IsTimeline
    <3>7. IsTimeline(r)
      BY <2>8, <3>3, <3>4, <3>5, <3>6 DEF IsTimeline
    <3>8. ConnsAt(r, now) = grown
      BY <1>0, <2>3, <3>4, <3>5 DEF ConnsAt
    <3> QED
      BY <3>1, <3>2, <3>7, <3>8 DEF ViewAt
  <2> DEFINE kw == [name |-> "Fracture", connections |-> new]
  <2>11. kw \in EffectKeyword /\ kw.name = "Fracture" /\ kw.connections = new
    BY <2>9 DEF EffectKeyword
  <2> HIDE DEF kw
  <2>12. e[now] = g[now] \o <<kw>> /\ \A s \in Steps : s # now => e[s] = g[s]
    <3>1. g = [s \in Steps |-> g[s]] /\ g[now] \in Seq(EffectKeyword)
      BY <1>0, <2>8 DEF IsHistory
    <3>2. Append(g[now], kw) = g[now] \o <<kw>>
      BY <2>11, <3>1
    <3>3. e = [g EXCEPT ![now] = Append(@, kw)]
      BY <2>1, <2>2 DEF kw
    <3> QED
      BY <1>0, <3>1, <3>2, <3>3
  <2>13. \A s \in Steps : s > now => e[s] = Effects(deck[s])
    <3>1. \A s \in Steps : s > now => s # now
      BY <1>0, StepsAssumption DEF Steps
    <3> QED
      BY <2>8, <2>12, <3>1
  <2>14. Flow(deck, ordering, q, now, e, skipped)
    BY <1>0, <2>6, <2>8, <2>9, <2>10, <2>11, <2>12, <2>13, FlowFracture
  <2>15. q = Present'
    <3>1. now + 1 \in 1 .. LastStep + 1
      BY <1>0, StepsAssumption DEF Steps
    <3>2. IsTimeline(q)
      BY <1>0, <2>6, <2>10, <3>1, ReplayFacts DEF Replayed
    <3> QED
      BY <1>1, <2>7, <3>2 DEF IsTimeline
  <2>16. Base(now', phase') = now /\ phase' # "input"
    BY <1>4, <2>1
  <2>17. Flow(deck', ordering', Present', Base(now', phase'), given', skipped')
    BY ONLY <2>1, <2>2, <2>14, <2>15, <2>16
  <2> QED
    BY <2>16, <2>17 DEF FInv
<1>11. CASE UNCHANGED vars
  BY <1>11 DEF FInv, Present, vars
<1> QED
  BY <1>5, <1>6, <1>7, <1>8, <1>9, <1>10, <1>11 DEF Next

(* So they always are. *)
LEMMA FactorsInductive == Spec => [](IInv /\ FInv)
BY InitIInv, InitFInv, NextIInv, NextFInv, PTL DEF Spec

(* A step of the invariant, as lists and as views.                         *)
LEMMA FlowNow ==
  ASSUME IInv, FInv, phase # "input", NEW s \in now .. LastStep, NEW scaled \in BOOLEAN
  PROVE  /\ s \in Steps /\ s >= Base(now, phase) /\ Conns(s) \in Lists /\ ViewAt(Present, s) = View(Conns(s))
         /\ Said(given, scaled)[s] \in Lists /\ Tale(given, scaled)[s] = View(Said(given, scaled)[s])
<1>1. now \in Steps /\ phase \in {"start", "run"} /\ IsHistory(given) /\ Core(deck, Present, now, phase, given)
  BY DEF IInv, Typing, Core
<1>2. s \in Steps /\ s >= Base(now, phase) /\ s \in -1 .. LastStep
  BY <1>1, StepsAssumption DEF Steps, Base
<1>3. ConnsAt(Present, s) = Conns(s) /\ Conns(s) \in Lists
  <2>1. ConnsAt(Present, s) = Conns(s)
    BY <1>1, <1>2, ScalableFacts
  <2>2. ConnsAt(Present, s) \in Lists
    BY <1>1, <1>2, TimelineViews DEF Core
  <2> QED
    BY <2>1, <2>2
<1>4. Said(given, scaled)[s] \in Lists
  BY <1>1, <1>2, SaidFacts
<1>5. Tale(given, scaled)[s] = View(Said(given, scaled)[s])
  BY <1>2 DEF Tale, Told
<1> QED
  BY <1>2, <1>3, <1>4, <1>5 DEF ViewAt

(* Connections that agree in all but whether they are subject to scaling.  *)
LEMMA PromisedFields ==
  ASSUME NEW x \in Connection, NEW y \in Connection, x.cell = y.cell, x.complnum = y.complnum, x.state = y.state,
         x.CF = y.CF, NEW no
  PROVE  [x EXCEPT !.subject_to_welpi = no] = [y EXCEPT !.subject_to_welpi = no]
<1>1. ASSUME NEW z \in Connection
      PROVE  [z EXCEPT !.subject_to_welpi = no]
               = [cell |-> z.cell, complnum |-> z.complnum, state |-> z.state, CF |-> z.CF, subject_to_welpi |-> no]
  BY ConnectionWith
<1> QED
  BY <1>1

(* The connections are what the keywords, the scaling factors and the      *)
(* fractures say.                                                          *)
THEOREM Promised == Spec => []AsPromised
<1>1. ASSUME IInv, FInv, phase # "input", ScalingExact,
             NEW s \in now .. LastStep, NEW promised, promised = Said(given, TRUE)[s]
      PROVE  /\ CellsOf(Conns(s)) = CellsOf(promised)
             /\ \A cell \in CellsOf(promised) :
                  [At(Conns(s), cell) EXCEPT !.subject_to_welpi = FALSE]
                    = [At(promised, cell) EXCEPT !.subject_to_welpi = FALSE]
  <2>1. PICK yes \in BOOLEAN : yes = TRUE
    OBVIOUS
  <2>2. Said(given, yes) = Said(given, TRUE) /\ Tale(given, yes) = ScaledTale(given)
    BY ONLY <2>1, Zenon DEF ScaledTale
  <2>3. /\ s \in Steps /\ s >= Base(now, phase) /\ Conns(s) \in Lists /\ ViewAt(Present, s) = View(Conns(s))
        /\ Said(given, yes)[s] \in Lists /\ Tale(given, yes)[s] = View(Said(given, yes)[s])
    BY <1>1, FlowNow
  <2>4. ExactFor(deck, ordering, skipped)
    BY <1>1 DEF ScalingExact, ExactFor, ScalingSteps, WelpiSteps
  <2>5. Mixed(ViewAt(Present, s), ScaledTale(given)[s], ScaledTale(given)[s])
    BY <1>1, <2>3, <2>4 DEF FInv, Flow, Follows
  <2>6. PICK c : c = Conns(s)
    OBVIOUS
  <2>7. c \in Lists /\ promised \in Lists /\ Mixed(View(c), View(promised), View(promised))
    BY ONLY <1>1, <2>2, <2>3, <2>5, <2>6
  <2>8. /\ DOMAIN View(c).v = CellsOf(c) /\ DOMAIN View(promised).v = CellsOf(promised)
        /\ IsView(View(c)) /\ IsView(View(promised))
    BY <2>7, ViewFacts
  <2>9. /\ DOMAIN View(c).v = DOMAIN View(promised).v
        /\ \A cell \in DOMAIN View(c).v : /\ View(c).v[cell].complnum = View(promised).v[cell].complnum
                                          /\ View(c).v[cell].state = View(promised).v[cell].state
                                          /\ View(c).v[cell].CF = View(promised).v[cell].CF
    BY <2>7 DEF Mixed, Same
  <2>10. CellsOf(c) = CellsOf(promised)
    BY <2>8, <2>9
  <2>11. ASSUME NEW cell \in CellsOf(promised)
         PROVE  [At(c, cell) EXCEPT !.subject_to_welpi = FALSE] = [At(promised, cell) EXCEPT !.subject_to_welpi = FALSE]
    <3>1. PICK x, y : x = At(c, cell) /\ y = At(promised, cell)
      OBVIOUS
    <3>2. x = View(c).v[cell] /\ y = View(promised).v[cell]
      BY <2>10, <3>1 DEF View
    <3>3. /\ x \in Connection /\ y \in Connection /\ x.cell = y.cell
          /\ x.complnum = y.complnum /\ x.state = y.state /\ x.CF = y.CF
      BY <2>8, <2>9, <2>10, <3>2 DEF IsView
    <3>4. \A no : [x EXCEPT !.subject_to_welpi = no] = [y EXCEPT !.subject_to_welpi = no]
      BY <3>3, PromisedFields
    <3> QED
      BY ONLY <3>1, <3>4, Zenon
  <2> QED
    BY <2>6, <2>10, <2>11
<1>2. IInv /\ FInv => AsPromised
  BY <1>1 DEF AsPromised
<1> QED
  BY <1>2, FactorsInductive, PTL

(* No connection is scaled twice, and none that COMPDAT has reset.         *)
THEOREM ScaledOnce == Spec => []ScaledAtMostOnce
<1>1. ASSUME IInv, FInv, phase # "input", \A s, t \in ScalingSteps : s = t, NEW s \in now .. LastStep,
             NEW scaled, scaled = Said(given, TRUE)[s], NEW unscaled, unscaled = Said(given, FALSE)[s],
             NEW c \in Range(Conns(s))
      PROVE  c.CF \in {At(scaled, c.cell).CF, At(unscaled, c.cell).CF}
  <2>1. PICK yes \in BOOLEAN : yes = TRUE
    OBVIOUS
  <2>2. PICK no \in BOOLEAN : no = FALSE
    OBVIOUS
  <2>3. Said(given, yes) = Said(given, TRUE) /\ Tale(given, yes) = ScaledTale(given)
    BY ONLY <2>1, Zenon DEF ScaledTale
  <2>4. Said(given, no) = Said(given, FALSE) /\ Tale(given, no) = UnscaledTale(given)
    BY ONLY <2>2, Zenon DEF UnscaledTale
  <2>5. /\ s \in Steps /\ s >= Base(now, phase) /\ Conns(s) \in Lists /\ ViewAt(Present, s) = View(Conns(s))
        /\ Said(given, yes)[s] \in Lists /\ Tale(given, yes)[s] = View(Said(given, yes)[s])
    BY <1>1, FlowNow
  <2>6. Said(given, no)[s] \in Lists /\ Tale(given, no)[s] = View(Said(given, no)[s])
    BY <1>1, FlowNow
  <2>7. OnceFor(deck)
    BY <1>1 DEF OnceFor, ScalingSteps, WelpiSteps
  <2>8. Mixed(ViewAt(Present, s), ScaledTale(given)[s], UnscaledTale(given)[s])
    BY <1>1, <2>5, <2>7 DEF FInv, Flow, Follows
  <2>9. PICK d : d = Conns(s)
    OBVIOUS
  <2>10. d \in Lists /\ scaled \in Lists /\ unscaled \in Lists /\ Mixed(View(d), View(scaled), View(unscaled))
    BY ONLY <1>1, <2>3, <2>4, <2>5, <2>6, <2>8, <2>9
  <2>11. PICK i \in DOMAIN d : c = d[i]
    BY <2>9 DEF Range
  <2>12. /\ c.cell \in DOMAIN View(d).v /\ View(d).v[c.cell] = c
         /\ DOMAIN View(scaled).v = CellsOf(scaled) /\ DOMAIN View(unscaled).v = CellsOf(unscaled)
    BY <2>10, <2>11, ViewFacts
  <2>13. c.cell \in CellsOf(scaled) /\ c.cell \in CellsOf(unscaled)
    BY <2>10, <2>12 DEF Mixed, Same
  <2>14. View(scaled).v[c.cell] = At(scaled, c.cell) /\ View(unscaled).v[c.cell] = At(unscaled, c.cell)
    BY <2>13 DEF View
  <2>15. View(d).v[c.cell].CF \in {View(scaled).v[c.cell].CF, View(unscaled).v[c.cell].CF}
    BY <2>10, <2>12 DEF Mixed
  <2> QED
    BY <2>12, <2>14, <2>15
<1>2. IInv /\ FInv => ScaledAtMostOnce
  BY <1>1 DEF ScaledAtMostOnce
<1> QED
  BY <1>2, FactorsInductive, PTL
=============================================================================
